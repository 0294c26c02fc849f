------------------------------ MODULE TcapProofs ------------------------------
(***************************************************************************)
(* Proofs about the TCAP program: the governance of an asset, with the     *)
(* operators' tool beside it, and the reserve whose tokens leave only      *)
(* through exit permits.                                                   *)
(***************************************************************************)
EXTENDS TcapReserve, TcapGovernance, Sums, SequenceTheorems, TLAPS

-----------------------------------------------------------------------------
(* The governance of an asset *)

AdminFields == {"pc", "command", "tx"}

AdminsOK ==
    /\ DOMAIN admins = Admin
    /\ \A a \in Admin :
          /\ DOMAIN admins[a] = AdminFields
          /\ admins[a].command \in Command \cup {"none"}
          /\ admins[a].pc # "idle" => admins[a].command \in Command
          /\ admins[a].tx = "sent" => admins[a].pc # "idle"

\* What the policy and the entry of a governed asset say of each other.  The
\* funding flag of the reserve may be a leftover of version 1 that nobody
\* reset when the asset was migrated: only one direction holds.
Governed ==
    /\ entry.exists
    /\ policy.status = "ACTIVE" <=> entry.status = "ACTIVE"
    /\ entry.risk = "APPROVED" <=> policy.approval = "APPROVED" /\ ~Irreversible(policy)
    /\ policy.deposits <=> entry.deposits
    /\ policy.status = "ACTIVE" => Ready

\* A command that needs the policy was sent only when there was one.
SentToPolicy ==
    \A a \in Admin : admins[a].pc = "submitted" /\ admins[a].command \in Closing => policy.exists

GovInv ==
    /\ GovTypeOK
    /\ AdminsOK
    /\ policy.exists => Governed
    /\ SentToPolicy

\* The three computations of acceptance agree on a governed asset.
LEMMA GovernedAgrees ==
    ASSUME policy.exists, Governed
    PROVE  /\ LiveAccepted <=> AssetOpen /\ infra.covered
           /\ AcceptedForDeposits <=> AssetOpen /\ infra.covered
<1> USE DEF Governed, AssetOpen, EntryOpen, ChecksPass, Ready
<1>0. policy.status = "ACTIVE" => ~Irreversible(policy)
  BY DEF Irreversible
<1>1. ASSUME LiveAccepted PROVE AssetOpen /\ infra.covered
  BY <1>0, <1>1 DEF LiveAccepted
<1>2. ASSUME AcceptedForDeposits PROVE AssetOpen /\ infra.covered
  BY <1>0, <1>2 DEF AcceptedForDeposits
<1>3. ASSUME AssetOpen, infra.covered PROVE LiveAccepted /\ AcceptedForDeposits
  BY <1>0, <1>3 DEF LiveAccepted, AcceptedForDeposits
<1> QED
  BY <1>1, <1>2, <1>3

\* The commands, one by one.
LEMMA Commands ==
    /\ DOMAIN Lifecycle = {"activate", "resume", "deactivate", "pause", "deprecate"}
    /\ Lifecycle["activate"] = "ACTIVE" /\ Lifecycle["resume"] = "ACTIVE"
    /\ Lifecycle["deactivate"] = "INACTIVE" /\ Lifecycle["pause"] = "PAUSED"
    /\ Lifecycle["deprecate"] = "DEPRECATED"
BY DEF Lifecycle

\* What no instruction of version 2 does: forget the policy, or reopen what
\* is closed; and what each leaves the policy and the entry to say.
Kept ==
    /\ entry' \in Entry /\ policy' \in Policy /\ infra' \in Infrastructure
    /\ policy.exists => policy'.exists
    /\ policy'.exists => Governed'
    /\ policy.exists /\ Closed => Closed'

LEMMA KeptUnchanged ==
    ASSUME GovTypeOK, policy.exists => Governed, UNCHANGED <<policy, entry, infra>>
    PROVE  Kept
BY DEF GovTypeOK, Kept, Governed, Closed, Irreversible, Ready

\* Every instruction of version 2, accepted on the accounts as they are when
\* it lands, keeps what the accounts say of each other.
LEMMA ExecuteKeeps ==
    ASSUME GovTypeOK, policy.exists => Governed,
           NEW c \in Command, Accepts(c), Execute(c)
    PROVE  Kept
<1> USE DEF Irreversible
<1>1. /\ policy \in Policy /\ entry \in Entry /\ infra \in Infrastructure
      /\ NewPolicy \in Policy /\ NewEntry \in Entry
  BY DEF GovTypeOK, NewPolicy, NewEntry, Policy, Entry
<1>2. CASE c = "raise-version-gate"
  BY <1>2, Commands, KeptUnchanged DEF Execute
<1>3. CASE c \in {"register", "migrate-legacy"}
  <2>1. policy' = NewPolicy /\ entry' = NewEntry /\ infra' = infra
    BY <1>3, Commands DEF Execute
  <2>2. c = "register" => ~entry.exists
    BY <1>3 DEF Accepts
  <2>3. c = "migrate-legacy" => ~policy.exists
    BY <1>3 DEF Accepts
  <2>4. Governed'
    BY <2>1 DEF Governed, NewPolicy, NewEntry, Ready
  <2>5. ~policy.exists
    BY <1>3, <2>2, <2>3 DEF Governed
  <2>6. policy'.exists
    BY <2>1 DEF NewPolicy
  <2> QED
    BY <1>1, <2>1, <2>4, <2>5, <2>6 DEF Kept
<1> DEFINE Other == ~(c \in {"raise-version-gate", "register", "migrate-legacy"})
<1>4. Other => policy.exists
  BY DEF Accepts
<1>5. CASE c \in {"approve", "reject"}
  <2> DEFINE decision == IF c = "approve" THEN "APPROVED" ELSE "REJECTED"
             risk == IF c = "approve" THEN "APPROVED" ELSE "BLOCKED"
  <2>1. policy.status = "INACTIVE" /\ policy.approval \in {"PENDING", decision}
    BY <1>5 DEF Accepts
  <2>2. /\ policy' = [policy EXCEPT !.approval = decision]
        /\ entry' = IF policy' = policy THEN entry ELSE [entry EXCEPT !.risk = risk]
        /\ infra' = infra
    BY <1>5, Commands DEF Execute
  <2>3. /\ policy' \in Policy /\ policy'.approval = decision /\ policy'.status = "INACTIVE"
        /\ policy'.exists = policy.exists /\ policy'.deposits = policy.deposits
    BY <1>1, <2>1, <2>2 DEF Policy
  <2>4. CASE policy' = policy
    BY <2>2, <2>4, KeptUnchanged
  <2>5. CASE policy' # policy
    <3>1. /\ entry' \in Entry /\ entry'.risk = risk /\ entry'.status = entry.status
          /\ entry'.exists = entry.exists /\ entry'.deposits = entry.deposits
      BY <1>1, <2>2, <2>5 DEF Entry
    <3>2. Governed'
      BY <1>4, <1>5, <2>1, <2>3, <3>1 DEF Governed
    <3>3. ~Closed
      BY <1>5, <2>1 DEF Closed
    <3> QED
      BY <1>1, <1>4, <1>5, <2>2, <2>3, <3>1, <3>2, <3>3 DEF Kept
  <2> QED
    BY <2>4, <2>5
<1>6. CASE c \in {"initialize-reserve", "initialize-vault", "sync-infrastructure"}
  <2>1. /\ policy' \in Policy /\ policy'.approval = policy.approval /\ policy'.status = policy.status
        /\ policy'.exists = policy.exists /\ policy'.deposits = policy.deposits
        /\ policy.reserve => policy'.reserve
        /\ policy.vault => policy'.vault
    BY <1>1, <1>6, Commands, ZenonT(40) DEF Execute, Policy
  <2>2. entry' = entry
    BY <1>6, Commands DEF Execute
  <2>3. infra' \in Infrastructure
    <3>1. c = "sync-infrastructure" => infra.backed
      BY <1>6 DEF Accepts
    <3>2. \/ infra' = [infra EXCEPT !.reserve = TRUE, !.funding = FALSE, !.paused = TRUE]
          \/ infra' = [infra EXCEPT !.vault = TRUE]
          \/ /\ infra' = [infra EXCEPT !.surplus = FALSE, !.covered = TRUE]
             /\ c = "sync-infrastructure"
      BY <1>6, Commands DEF Execute
    <3> QED
      BY <1>1, <3>1, <3>2 DEF Infrastructure
  <2>4. Governed'
    BY <1>4, <1>6, <2>1, <2>2 DEF Governed, Ready
  <2>5. Closed => Closed'
    BY <2>1 DEF Closed
  <2> QED
    BY <1>1, <2>1, <2>2, <2>3, <2>4, <2>5 DEF Kept

<1> DEFINE Disabled(status, approval, shown, risk) ==
      /\ policy' = [policy EXCEPT !.approval = approval, !.status = status, !.deposits = FALSE]
      /\ entry' = [entry EXCEPT !.status = shown, !.risk = risk, !.deposits = FALSE]
      /\ infra' = [infra EXCEPT !.funding = FALSE, !.paused = TRUE]
<1>7. ASSUME policy.exists,
             NEW status \in {"INACTIVE", "PAUSED", "DEPRECATED"},
             NEW approval \in {policy.approval, "REVOKED"},
             NEW shown \in {"PROPOSED", "DEPOSITS_PAUSED", "DEPRECATED"},
             NEW risk \in {entry.risk, "BLOCKED"},
             Disabled(status, approval, shown, risk),
             Irreversible(policy) => status = "DEPRECATED",
             (risk = "APPROVED" <=> approval = "APPROVED" /\ status # "DEPRECATED")
      PROVE  Kept
  <2>1. /\ policy' \in Policy /\ policy'.approval = approval /\ policy'.status = status
        /\ policy'.exists = policy.exists /\ policy'.deposits = FALSE
    BY <1>1, <1>7 DEF Policy
  <2>2. /\ entry' \in Entry /\ entry'.risk = risk /\ entry'.status = shown
        /\ entry'.exists = entry.exists /\ entry'.deposits = FALSE
    BY <1>1, <1>7 DEF Entry
  <2>3. infra' \in Infrastructure
    BY <1>1, <1>7 DEF Infrastructure
  <2>4. Governed'
    BY <1>7, <2>1, <2>2 DEF Governed
  <2>5. Closed => Closed'
    BY <1>7, <2>1 DEF Closed
  <2> QED
    BY <1>7, <2>1, <2>2, <2>3, <2>4, <2>5 DEF Kept
<1>8. CASE c = "revoke-approval"
  <2>1. ~Irreversible(policy)
    BY <1>8 DEF Accepts
  <2>2. CASE policy.approval = "REVOKED"
    BY <1>8, <2>2, Commands, KeptUnchanged DEF Execute
  <2>3. CASE policy.approval # "REVOKED"
    <3>1. Disabled("PAUSED", "REVOKED", "DEPOSITS_PAUSED", "BLOCKED")
      BY <1>8, <2>3, Commands DEF Execute
    <3> QED
      BY <1>4, <1>7, <1>8, <2>1, <3>1
  <2> QED
    BY <2>2, <2>3
<1>9. CASE c \in DOMAIN Lifecycle
  <2>1. SetOperationalStatus(Lifecycle[c])
    BY <1>9, Commands DEF Execute
  <2>2. policy.exists /\ (Irreversible(policy) => c = "deprecate")
    BY <1>9, Commands DEF Accepts
  <2>3. CASE policy.status = Lifecycle[c]
    BY <2>1, <2>3, KeptUnchanged DEF SetOperationalStatus
  <2>4. CASE policy.status # Lifecycle[c] /\ c \in {"activate", "resume"}
    <3>1. Ready /\ ~Irreversible(policy)
      BY <2>2, <2>4, Commands DEF Accepts
    <3>2. /\ policy' = [policy EXCEPT !.status = "ACTIVE"]
          /\ entry' = [entry EXCEPT !.status = "ACTIVE"]
          /\ infra' = [infra EXCEPT !.paused = FALSE]
      BY <2>1, <2>4, Commands DEF SetOperationalStatus
    <3>3. /\ policy' \in Policy /\ policy'.status = "ACTIVE" /\ policy'.approval = policy.approval
          /\ policy'.exists = policy.exists /\ policy'.deposits = policy.deposits
          /\ policy'.reserve = policy.reserve /\ policy'.vault = policy.vault
      BY <1>1, <3>2 DEF Policy
    <3>4. /\ entry' \in Entry /\ entry'.status = "ACTIVE" /\ entry'.risk = entry.risk
          /\ entry'.exists = entry.exists /\ entry'.deposits = entry.deposits
      BY <1>1, <3>2 DEF Entry
    <3>5. infra' \in Infrastructure
      BY <1>1, <3>2 DEF Infrastructure
    <3>6. Governed'
      BY <2>2, <3>1, <3>3, <3>4 DEF Governed, Ready
    <3>7. ~Closed
      BY <3>1 DEF Closed, Ready
    <3> QED
      BY <2>2, <3>3, <3>4, <3>5, <3>6, <3>7 DEF Kept
  <2>5. CASE policy.status # Lifecycle[c] /\ ~(c \in {"activate", "resume"})
    <3>1. \A s : [policy EXCEPT !.status = s, !.deposits = FALSE]
                   = [policy EXCEPT !.approval = policy.approval, !.status = s, !.deposits = FALSE]
      BY <1>1 DEF Policy
    <3>3. CASE c = "deactivate"
      <4>1. Disabled("INACTIVE", policy.approval, "PROPOSED", entry.risk)
        BY <2>1, <2>5, <3>1, <3>3, Commands DEF SetOperationalStatus, ForceDisabled
      <4> QED
        BY <1>1, <1>7, <2>2, <3>3, <4>1 DEF Governed, Policy, Entry
    <3>4. CASE c = "pause"
      <4>1. Disabled("PAUSED", policy.approval, "DEPOSITS_PAUSED", entry.risk)
        BY <2>1, <2>5, <3>1, <3>4, Commands DEF SetOperationalStatus, ForceDisabled
      <4> QED
        BY <1>1, <1>7, <2>2, <3>4, <4>1 DEF Governed, Policy, Entry
    <3>5. CASE c = "deprecate"
      <4>1. Disabled("DEPRECATED", policy.approval, "DEPRECATED", "BLOCKED")
        BY <2>1, <2>5, <3>1, <3>5, Commands DEF SetOperationalStatus, ForceDisabled
      <4> QED
        BY <1>1, <1>7, <2>2, <3>5, <4>1 DEF Policy
    <3> QED
      BY <1>9, <2>5, <3>3, <3>4, <3>5, Commands
  <2> QED
    BY <2>3, <2>4, <2>5
<1>10. CASE c \in {"enable-deposits", "disable-deposits"}
  <2> DEFINE b == c = "enable-deposits"
  <2>1. SetDeposits(b)
    BY <1>10, Commands DEF Execute
  <2>2. CASE policy.deposits = b
    BY <2>1, <2>2, KeptUnchanged DEF SetDeposits
  <2>3. CASE policy.deposits # b
    <3>1. /\ policy' = [policy EXCEPT !.deposits = b]
          /\ entry' = [entry EXCEPT !.deposits = b]
          /\ infra' = [infra EXCEPT !.funding = b]
      BY <2>1, <2>3 DEF SetDeposits
    <3>2. b \in BOOLEAN
      OBVIOUS
    <3> HIDE DEF b
    <3>3. /\ policy' \in Policy /\ policy'.status = policy.status /\ policy'.approval = policy.approval
          /\ policy'.exists = policy.exists /\ policy'.deposits = b
          /\ policy'.reserve = policy.reserve /\ policy'.vault = policy.vault
      BY <1>1, <3>1, <3>2 DEF Policy
    <3>4. /\ entry' \in Entry /\ entry'.status = entry.status /\ entry'.risk = entry.risk
          /\ entry'.exists = entry.exists /\ entry'.deposits = b
      BY <1>1, <3>1, <3>2 DEF Entry
    <3>5. infra' \in Infrastructure
      BY <1>1, <3>1, <3>2 DEF Infrastructure
    <3>6. Governed'
      BY <1>4, <1>10, <3>3, <3>4 DEF Governed, Ready
    <3>7. Closed => Closed'
      BY <3>3 DEF Closed
    <3> QED
      BY <1>4, <1>10, <3>3, <3>4, <3>5, <3>6, <3>7 DEF Kept
  <2> QED
    BY <2>2, <2>3
<1> QED
  BY <1>2, <1>3, <1>5, <1>6, <1>8, <1>9, <1>10 DEF Command, Operational

\* An invocation moves on; its command stays.
LEMMA AdminStepKeeps ==
    ASSUME AdminsOK, NEW a \in Admin, admins[a].pc # "idle", NEW pc, pc # "idle",
           NEW tx, AdminStep(a, pc, tx)
    PROVE  /\ AdminsOK'
           /\ admins'[a].pc = pc /\ admins'[a].command = admins[a].command
           /\ \A z \in Admin \ {a} : admins'[z] = admins[z]
BY DEF AdminsOK, AdminStep, AdminFields

\* A command that ends deposits is accepted only for a governed asset.
LEMMA ClosingNeedsPolicy == \A c \in Closing : Accepts(c) => policy.exists
BY Commands DEF Closing, Accepts

\* A step of one invocation that leaves the accounts alone.
LEMMA AdminStepInv ==
    ASSUME GovInv, UNCHANGED chainVars, NEW a \in Admin, AdminsOK',
           \A z \in Admin \ {a} : admins'[z] = admins[z],
           admins'[a].pc = "submitted" /\ admins'[a].command \in Closing => policy.exists
    PROVE  GovInv'
<1>1. GovTypeOK' /\ policy' = policy
  BY DEF GovInv, GovTypeOK, chainVars
<1>2. (policy.exists => Governed)'
  BY DEF GovInv, Governed, Irreversible, Ready, chainVars
<1>3. SentToPolicy'
  BY <1>1 DEF GovInv, SentToPolicy
<1> QED
  BY <1>1, <1>2, <1>3 DEF GovInv

LEMMA GovInitInv == GovInit => GovInv
<1> SUFFICES ASSUME GovInit PROVE GovInv
  OBVIOUS
<1>1. config \in Config
  BY DEF GovInit, Config
<1>2. /\ NewEntry \in Entry /\ OpenEntry \in Entry
      /\ NewPolicy \in Policy /\ OpenPolicy \in Policy /\ OpenInfra \in Infrastructure
  BY DEF NewEntry, OpenEntry, Entry, NewPolicy, OpenPolicy, Policy, OpenInfra, Infrastructure
<1>3. NoPolicy \in Policy /\ ~NoPolicy.exists
  BY <1>2 DEF NoPolicy, Policy
<1>4. AdminsOK /\ \A a \in Admin : admins[a].pc = "idle"
  BY DEF GovInit, NoRun, AdminsOK, AdminFields
<1> DEFINE Accounts == /\ entry \in Entry /\ policy \in Policy /\ infra \in Infrastructure
                       /\ policy.exists => Governed
<1>5. CASE /\ entry = [NewEntry EXCEPT !.exists = FALSE] /\ policy = NoPolicy
           /\ infra = [OpenInfra EXCEPT !.reserve = FALSE, !.vault = FALSE, !.funding = FALSE]
  <2>1. entry \in Entry
    BY <1>2, <1>5 DEF Entry
  <2>2. infra \in Infrastructure
    BY <1>2, <1>5 DEF Infrastructure
  <2>3. Accounts
    BY <1>3, <1>5, <2>1, <2>2
  <2> QED
    BY <1>1, <1>4, <2>3 DEF GovInv, GovTypeOK, SentToPolicy
<1>6. CASE /\ entry = [NewEntry EXCEPT !.risk = "APPROVED"]
           /\ policy = [NewPolicy EXCEPT !.approval = "APPROVED", !.reserve = TRUE]
           /\ infra = [OpenInfra EXCEPT !.vault = FALSE, !.funding = FALSE, !.paused = TRUE]
  <2>1. /\ entry \in Entry /\ entry.risk = "APPROVED" /\ entry.status = "PROPOSED"
        /\ entry.exists /\ ~entry.deposits
    BY <1>2, <1>6 DEF Entry, NewEntry
  <2>2. infra \in Infrastructure
    BY <1>2, <1>6 DEF Infrastructure
  <2>3. /\ policy \in Policy /\ policy.approval = "APPROVED" /\ policy.status = "INACTIVE"
        /\ ~policy.deposits
    BY <1>2, <1>6 DEF Policy, NewPolicy
  <2>4. Accounts
    BY <2>1, <2>2, <2>3 DEF Governed, Irreversible
  <2> QED
    BY <1>1, <1>4, <2>4 DEF GovInv, GovTypeOK, SentToPolicy
<1>7. CASE entry = OpenEntry /\ policy \in {NoPolicy, OpenPolicy} /\ infra = OpenInfra
  <2>1. policy = OpenPolicy => Governed
    BY <1>7 DEF Governed, Irreversible, Ready, OpenEntry, OpenPolicy
  <2>2. Accounts
    BY <1>2, <1>3, <1>7, <2>1
  <2> QED
    BY <1>1, <1>4, <2>2 DEF GovInv, GovTypeOK, SentToPolicy
<1> QED
  BY <1>5, <1>6, <1>7 DEF GovInit

\* What a step of one operator does to the invariant, and to a closed asset.
LEMMA OperatorStep ==
    ASSUME GovInv, NEW a \in Admin,
           \/ \E c \in Command : Inspect(a, c)
           \/ LoadSigner(a) \/ Build(a) \/ Simulate(a) \/ Send(a) \/ LandCommand(a) \/ ExpireCommand(a)
           \/ Confirm(a) \/ Return(a)
    PROVE  GovInv' /\ (Closed => Closed')
<1>1. GovTypeOK /\ AdminsOK /\ (policy.exists => Governed) /\ SentToPolicy
  BY DEF GovInv
<1>2. UNCHANGED policy => (Closed => Closed')
  BY DEF Closed, Irreversible
<1>3. ASSUME NEW c \in Command, Inspect(a, c)
      PROVE  GovInv' /\ (Closed => Closed')
  <2>1. /\ DOMAIN admins' = Admin
        /\ DOMAIN admins'[a] = AdminFields
        /\ admins'[a].command = c /\ admins'[a].pc # "submitted"
        /\ \A z \in Admin \ {a} : admins'[z] = admins[z]
    BY <1>1, <1>3 DEF Inspect, AdminsOK, AdminFields
  <2>2. AdminsOK'
    <3>1. admins'[a].tx = "none" /\ admins'[a].pc # "idle"
      BY <1>1, <1>3 DEF Inspect, AdminsOK
    <3> QED
      BY <1>1, <2>1, <3>1 DEF AdminsOK
  <2> QED
    BY <1>2, <1>3, <2>1, <2>2, AdminStepInv DEF Inspect, chainVars
<1>4. ASSUME NEW pc, NEW tx, AdminStep(a, pc, tx), pc # "submitted", pc # "idle",
             admins[a].pc # "idle", UNCHANGED <<chainVars, Others>>
      PROVE  GovInv' /\ (Closed => Closed')
  BY <1>1, <1>2, <1>4, AdminStepKeeps, AdminStepInv DEF Others, chainVars
<1>5. CASE LoadSigner(a) \/ Build(a)
  BY <1>4, <1>5 DEF LoadSigner, Build
<1>6. CASE Simulate(a)
  BY <1>4, <1>6 DEF Simulate
<1>7. CASE Send(a)
  <2>1. CASE AdminStep(a, "submission_failed", "none") \/ AdminStep(a, "submission_failed", "sent")
    BY <1>4, <1>7, <2>1 DEF Send
  <2>2. CASE Accepts(admins[a].command) /\ AdminStep(a, "submitted", "sent")
    <3>1. admins'[a].command \in Closing => policy.exists
      BY <1>1, <1>7, <2>2, AdminStepKeeps, ClosingNeedsPolicy DEF Send
    <3> QED
      BY <1>1, <1>2, <1>7, <2>2, <3>1, AdminStepKeeps, AdminStepInv DEF Send, Others, chainVars
  <2> QED
    BY <1>7, <2>1, <2>2 DEF Send
<1>8. CASE LandCommand(a)
  <2>0. admins[a].pc # "idle" /\ admins[a].command \in Command
    BY <1>1, <1>8 DEF LandCommand, Others, AdminsOK
  <2>1. ASSUME Accepts(admins[a].command), Execute(admins[a].command),
               AdminStep(a, admins[a].pc, "landed")
        PROVE  GovInv' /\ (Closed => Closed')
    <3>1. Kept
      BY <1>1, <2>0, <2>1, ExecuteKeeps
    <3>2. /\ AdminsOK'
          /\ admins'[a].pc = admins[a].pc /\ admins'[a].command = admins[a].command
          /\ \A z \in Admin \ {a} : admins'[z] = admins[z]
      BY <1>1, <2>0, <2>1, AdminStepKeeps
    <3>3. config' \in Config
      BY <1>1, <2>1 DEF Execute, GovTypeOK, Config
    <3>4. GovTypeOK' /\ (policy.exists => Governed)'
      BY <1>1, <2>0, <3>1, <3>3 DEF Kept, GovTypeOK
    <3>5. SentToPolicy'
      BY <1>1, <3>1, <3>2 DEF SentToPolicy, Kept
    <3>6. Closed => Closed'
      BY <3>1 DEF Kept, Closed
    <3> QED
      BY <3>2, <3>4, <3>5, <3>6 DEF GovInv
  <2>2. ASSUME UNCHANGED chainVars, AdminStep(a, admins[a].pc, "failed")
        PROVE  GovInv' /\ (Closed => Closed')
    BY <1>1, <1>2, <2>0, <2>2, AdminStepKeeps, AdminStepInv DEF chainVars, SentToPolicy
  <2> QED
    BY <1>8, <2>1, <2>2 DEF LandCommand
<1>9. CASE ExpireCommand(a)
  <2>1. admins[a].pc # "idle"
    BY <1>1, <1>9 DEF ExpireCommand, AdminsOK
  <2> QED
    BY <1>1, <1>2, <1>9, <2>1, AdminStepKeeps, AdminStepInv
       DEF ExpireCommand, chainVars, SentToPolicy, Others
<1>10. CASE Confirm(a)
  BY <1>4, <1>10 DEF Confirm
<1>11. CASE Return(a)
  <2>1. /\ AdminsOK' /\ admins'[a].pc = "idle"
        /\ \A z \in Admin \ {a} : admins'[z] = admins[z]
    BY <1>1, <1>11 DEF Return, NoRun, AdminsOK, AdminFields
  <2> QED
    BY <1>2, <1>11, <2>1, AdminStepInv DEF Return, Others, chainVars
<1> QED
  BY <1>3, <1>5, <1>6, <1>7, <1>8, <1>9, <1>10, <1>11

\* Every step keeps the invariant, and a closed asset closed.
LEMMA GovStepInv ==
    GovInv /\ [GovNext]_govVars => GovInv' /\ (Closed => Closed')
<1> SUFFICES ASSUME GovInv, [GovNext]_govVars
             PROVE  GovInv' /\ (Closed => Closed')
  OBVIOUS
<1>1. entry \in Entry /\ policy \in Policy /\ infra \in Infrastructure /\ config \in Config
  BY DEF GovInv, GovTypeOK
<1>2. UNCHANGED policy => (Closed => Closed')
  BY DEF Closed, Irreversible
<1>3. CASE UNCHANGED govVars
  BY <1>2, <1>3 DEF govVars, chainVars, GovInv, GovTypeOK, AdminsOK, SentToPolicy, Governed,
                    Irreversible, Ready
<1>4. ASSUME NEW a \in Admin,
             \/ \E c \in Command : Inspect(a, c)
             \/ LoadSigner(a) \/ Build(a) \/ Simulate(a) \/ Send(a) \/ LandCommand(a) \/ ExpireCommand(a)
             \/ Confirm(a) \/ Return(a)
      PROVE  GovInv' /\ (Closed => Closed')
  BY <1>4, OperatorStep
<1>5. CASE Donate \/ ReserveMoves
  <2>1. infra' \in Infrastructure
    BY <1>1, <1>5 DEF Donate, ReserveMoves, Infrastructure
  <2>2. UNCHANGED <<config, entry, policy, admins>>
    BY <1>5 DEF Donate, ReserveMoves
  <2> QED
    BY <1>2, <2>1, <2>2 DEF GovInv, GovTypeOK, AdminsOK, SentToPolicy, Governed, Irreversible, Ready
<1> QED
  BY <1>3, <1>4, <1>5 DEF GovNext

\* The tool's two verdicts agree with the program's own tests, cover added, on
\* every governed asset of a protocol that is not paused, for any number of
\* operators and commands under way (inspectAsset, liveAcceptanceReason,
\* deposit_asset_v2).
THEOREM AcceptanceAlwaysAgrees == GovSpec => []AcceptanceAgrees
<1>1. GovInv => AcceptanceAgrees
  BY GovernedAgrees DEF GovInv, AcceptanceAgrees, AssetDepositsOpen
<1> QED
  BY <1>1, GovInitInv, GovStepInv, PTL DEF GovSpec

\* A revoked or deprecated asset stays closed whatever commands were under
\* way when it was closed (set_asset_operational_status_v2, revoke).
THEOREM ClosedStaysClosed == GovSpec => ClosedForGood
<1>1. GovInv /\ [GovNext]_govVars /\ GovInv'
        => [Closed => Closed' /\ ~AssetOpen']_govVars
  <2> SUFFICES ASSUME GovInv, [GovNext]_govVars, GovInv', Closed
               PROVE  Closed' /\ ~AssetOpen'
    OBVIOUS
  <2>1. Closed'
    BY GovStepInv
  <2>2. Governed'
    BY <2>1 DEF GovInv, Closed
  <2> QED
    BY <2>1, <2>2 DEF Governed, Closed, AssetOpen, EntryOpen, Irreversible
<1> QED
  BY <1>1, GovInitInv, GovStepInv, PTL DEF GovSpec, ClosedForGood

\* The tool reports a command that ends deposits as verified only while the
\* asset takes none (verifyMutationPostcondition).
THEOREM VerifiedIsAlwaysClosed == GovSpec => VerifiedIsClosed
<1> DEFINE Reported ==
      \A a \in Admin :
          /\ admins[a].pc = "submitted" /\ admins'[a].pc = "verified"
          /\ admins[a].command \in Closing
          => ~AssetOpen
<1>1. GovInv /\ [GovNext]_govVars => [Reported]_govVars
  <2> SUFFICES ASSUME GovInv, GovNext, NEW a \in Admin,
                      admins[a].pc = "submitted", admins'[a].pc = "verified",
                      admins[a].command \in Closing
               PROVE  ~AssetOpen
    OBVIOUS
  <2>1. Postcondition(admins[a].command)
    <3>1. ASSUME NEW z \in Admin, z # a, AdminsOK, NEW pc, NEW tx, AdminStep(z, pc, tx)
          PROVE  admins'[a] = admins[a]
      BY <3>1 DEF AdminsOK, AdminStep
    <3>2. PICK z \in Admin :
               \/ \E c \in Command : Inspect(z, c)
               \/ LoadSigner(z) \/ Build(z) \/ Simulate(z) \/ Send(z) \/ LandCommand(z) \/ ExpireCommand(z)
               \/ Confirm(z) \/ Return(z)
      BY DEF GovNext, Donate, ReserveMoves
    <3>3. AdminsOK
      BY DEF GovInv
    <3>4. z = a
      <4>1. ASSUME z # a PROVE admins'[a] = admins[a]
        <5>1. CASE \E c \in Command : Inspect(z, c)
          BY <3>3, <4>1, <5>1 DEF Inspect, AdminsOK
        <5>2. CASE Return(z)
          BY <3>3, <4>1, <5>2 DEF Return, AdminsOK
        <5>3. CASE \E pc, tx : AdminStep(z, pc, tx)
          BY <3>1, <3>3, <4>1, <5>3
        <5> QED
          BY <3>2, <5>1, <5>2, <5>3
             DEF LoadSigner, Build, Simulate, Send, LandCommand, ExpireCommand, Confirm
      <4> QED
        BY <4>1
    <3>5. \A pc, tx : AdminStep(a, pc, tx) => pc = "verified"
      BY <3>3 DEF AdminsOK, AdminStep, AdminFields
    <3>6. Confirm(a)
      <4>1. ~LandCommand(a) /\ ~ExpireCommand(a)
        BY <3>5 DEF LandCommand, ExpireCommand
      <4>2. ~Return(a)
        BY DEF Return, Ended
      <4> QED
        BY <3>2, <3>4, <4>1, <4>2 DEF Inspect, LoadSigner, Build, Simulate, Send
    <3> QED
      BY <3>5, <3>6 DEF Confirm
  <2>2. CASE admins[a].command = "disable-deposits"
    BY <2>1, <2>2, Commands DEF Postcondition, AssetOpen
  <2>3. CASE admins[a].command # "disable-deposits"
    <3>1. policy.exists /\ Governed
      BY <2>3 DEF GovInv, SentToPolicy
    <3>2. policy.status # "ACTIVE"
      BY <2>1, <2>3, Commands DEF Closing, Postcondition
    <3> QED
      BY <3>1, <3>2 DEF Governed, AssetOpen, EntryOpen
  <2> QED
    BY <2>2, <2>3
<1>2. VerifiedIsClosed <=> [][Reported]_govVars
  BY DEF VerifiedIsClosed
<1> QED
  BY <1>1, <1>2, GovInitInv, GovStepInv, PTL DEF GovSpec

-----------------------------------------------------------------------------
(* The reserve *)

FundingTxs == [kind : {"fund"}, by : Depositor, id : FundingId, amount : Amount, nonce : Nat]
CreditTxs == [kind : {"credit"}, tip : Tip, amount : Amount, nonce : Nonce, sequence : Nat,
              previous : Tip, next : Tip]
ConsumeTxs == [kind : {"consume"}, tip : Tip, nonce : Nonce, sequence : Nat, next : Tip]
DebitTxs == [kind : {"debit"}, tip : Tip, amount : Amount, nonce : Nonce, sequence : Nat]
MemoTxs == [kind : {"memo"}, amount : Amount, nonce : Nonce, prev : Seq(Memo)]

\* The accounts, and the transactions under way, hold what they can hold.
ReserveShape ==
    /\ TcapTypeOK
    /\ outbox \subseteq FundingTxs \cup CreditTxs \cup ConsumeTxs \cup DebitTxs \cup MemoTxs

LEMMA AmountIsNat == \A a \in Amount : a \in Nat /\ a >= 1
BY BoundAssumption DEF Amount

LEMMA CounterTypes ==
    ASSUME reserve \in Reserve
    PROVE  reserve.actual_assets \in Nat /\ reserve.pending \in Nat /\ reserve.settled \in Nat
BY DEF Reserve

\* What the handlers make of the counters.
LEMMA Counters ==
    ASSUME reserve \in Reserve
    PROVE  /\ \A x, y \in Nat : [reserve EXCEPT !.actual_assets = x, !.pending = y]
                          = [actual_assets |-> x, pending |-> y, settled |-> reserve.settled]
           /\ \A x, y \in Nat : [reserve EXCEPT !.pending = x, !.settled = y]
                          = [actual_assets |-> reserve.actual_assets, pending |-> x, settled |-> y]
           /\ \A x \in Nat : [reserve EXCEPT !.settled = x]
                       = [actual_assets |-> reserve.actual_assets, pending |-> reserve.pending,
                          settled |-> x]
           /\ \A x \in Nat : [reserve EXCEPT !.actual_assets = x]
                       = [actual_assets |-> x, pending |-> reserve.pending,
                          settled |-> reserve.settled]
<1>1. ASSUME NEW x \in Nat, NEW y \in Nat
      PROVE  [reserve EXCEPT !.actual_assets = x, !.pending = y]
                = [actual_assets |-> x, pending |-> y, settled |-> reserve.settled]
  <2> DEFINE one == [reserve EXCEPT !.actual_assets = x]
  <2>1. one \in Reserve /\ one.actual_assets = x /\ one.settled = reserve.settled
    BY DEF Reserve
  <2>2. [reserve EXCEPT !.actual_assets = x, !.pending = y] = [one EXCEPT !.pending = y]
    OBVIOUS
  <2> HIDE DEF one
  <2>3. [one EXCEPT !.pending = y]
           = [actual_assets |-> one.actual_assets, pending |-> y, settled |-> one.settled]
    BY <2>1 DEF Reserve
  <2> QED
    BY <2>1, <2>2, <2>3
<1>2. ASSUME NEW x \in Nat, NEW y \in Nat
      PROVE  [reserve EXCEPT !.pending = x, !.settled = y]
                = [actual_assets |-> reserve.actual_assets, pending |-> x, settled |-> y]
  <2> DEFINE one == [reserve EXCEPT !.pending = x]
  <2>1. one \in Reserve /\ one.actual_assets = reserve.actual_assets /\ one.pending = x
    BY DEF Reserve
  <2>2. [reserve EXCEPT !.pending = x, !.settled = y] = [one EXCEPT !.settled = y]
    OBVIOUS
  <2> HIDE DEF one
  <2>3. [one EXCEPT !.settled = y]
           = [actual_assets |-> one.actual_assets, pending |-> one.pending, settled |-> y]
    BY <2>1 DEF Reserve
  <2> QED
    BY <2>1, <2>2, <2>3
<1>3. ASSUME NEW x \in Nat
      PROVE  [reserve EXCEPT !.settled = x]
                = [actual_assets |-> reserve.actual_assets, pending |-> reserve.pending,
                   settled |-> x]
  BY DEF Reserve
<1>4. ASSUME NEW x \in Nat
      PROVE  [reserve EXCEPT !.actual_assets = x]
                = [actual_assets |-> x, pending |-> reserve.pending, settled |-> reserve.settled]
  BY DEF Reserve
<1> QED
  BY <1>1, <1>2, <1>3, <1>4

LEMMA ReserveInitShape == TcapInit => ReserveShape
<1> SUFFICES ASSUME TcapInit PROVE ReserveShape
  OBVIOUS
<1>1. reserve \in Reserve
  BY DEF TcapInit, Reserve
<1> QED
  BY <1>1 DEF TcapInit, ReserveShape, TcapTypeOK, Optional

\* The deposits.
LEMMA DepositShape ==
    ASSUME ReserveShape, NEW a \in Amount, DepositAsset(a)
    PROVE  ReserveShape'
<1>1. a \in Nat /\ vault \in Nat /\ reserve \in Reserve
  BY AmountIsNat DEF ReserveShape, TcapTypeOK
<1>3. vault + a \in Nat /\ reserve.pending + a \in Nat /\ reserve.settled \in Nat
  BY <1>1, CounterTypes
<1>2. reserve' = [actual_assets |-> vault + a, pending |-> reserve.pending + a,
                  settled |-> reserve.settled]
  BY <1>1, <1>3, Counters DEF DepositAsset
<1>4. vault' \in Nat /\ reserve' \in Reserve
  BY <1>2, <1>3 DEF DepositAsset, Reserve
<1> QED
  BY <1>4 DEF DepositAsset, ReserveShape, TcapTypeOK, fundingVars, tipVars

LEMMA FundingShape ==
    ASSUME ReserveShape, NEW tx \in FundingTxs, LandFunding(tx)
    PROVE  ReserveShape'
<1>1. tx.amount \in Amount /\ tx.id \in FundingId /\ tx.by \in Depositor /\ tx.nonce \in Nat
  BY DEF FundingTxs
<1>2. vault' \in Nat /\ reserve' \in Reserve
  <2>1. tx.amount \in Nat /\ vault \in Nat /\ reserve \in Reserve
    BY <1>1, AmountIsNat DEF ReserveShape, TcapTypeOK
  <2>3. /\ reserve.actual_assets + tx.amount \in Nat /\ reserve.pending + tx.amount \in Nat
        /\ vault + tx.amount \in Nat /\ reserve.settled \in Nat
    BY <2>1, CounterTypes
  <2>2. reserve' = [actual_assets |-> reserve.actual_assets + tx.amount,
                    pending |-> reserve.pending + tx.amount, settled |-> reserve.settled]
    BY <2>1, <2>3, Counters, ZenonT(40) DEF LandFunding, FundedReserve
  <2> QED
    BY <2>2, <2>3 DEF LandFunding, Reserve
<1>3. fundingRoot \in Seq(FundingId) /\ Len(fundingRoot) \in Nat
  BY LenProperties DEF ReserveShape, TcapTypeOK
<1>4. fundingRoot' \in Seq(FundingId)
  BY <1>1, <1>3, AppendProperties DEF LandFunding
<1> DEFINE claim == [depositor |-> tx.by, amount |-> tx.amount, nonce |-> tx.nonce,
                     sequence |-> Len(fundingRoot) + 1]
<1>5. claim \in Claim
  BY <1>1, <1>3 DEF Claim
<1>6. claims' = [claims EXCEPT ![tx.id] = claim]
  BY DEF LandFunding
<1> HIDE DEF claim
<1>7. claims' \in [FundingId -> Optional(Claim)]
  BY <1>1, <1>5, <1>6 DEF ReserveShape, TcapTypeOK, Optional
<1>8. nonces' \in [Depositor -> Nat]
  BY <1>1 DEF LandFunding, ReserveShape, TcapTypeOK
<1> QED
  BY <1>2, <1>4, <1>7, <1>8 DEF LandFunding, ReserveShape, TcapTypeOK, tipVars

\* The credits.
LEMMA SettleType ==
    ASSUME reserve \in Reserve, NEW a \in Amount, reserve.pending >= a
    PROVE  /\ Settle(a) \in Reserve
           /\ Settle(a).pending = reserve.pending - a /\ Settle(a).settled = reserve.settled + a
           /\ Settle(a).actual_assets = reserve.actual_assets
<1>2. a \in Nat
  BY AmountIsNat
<1>3. /\ reserve.pending - a \in Nat /\ reserve.settled + a \in Nat
      /\ reserve.actual_assets \in Nat
  BY <1>2, CounterTypes
<1>1. Settle(a) = [actual_assets |-> reserve.actual_assets, pending |-> reserve.pending - a,
                   settled |-> reserve.settled + a]
  BY <1>3, Counters DEF Settle
<1> QED
  BY <1>1, <1>3 DEF Reserve

LEMMA MemoShape ==
    ASSUME ReserveShape, NEW tx \in MemoTxs, LandMemo(tx)
    PROVE  ReserveShape'
<1>1. tx.amount \in Amount /\ tx.nonce \in Nonce
  BY DEF MemoTxs
<1>2. reserve' \in Reserve
  BY <1>1, SettleType DEF LandMemo, ReserveShape, TcapTypeOK
<1>3. [nullifier |-> tx.nonce, amount |-> tx.amount] \in Memo
  BY <1>1 DEF Memo
<1>4. root' \in Seq(Memo)
  BY <1>3, AppendProperties DEF LandMemo, ReserveShape, TcapTypeOK
<1> QED
  BY <1>2, <1>4 DEF LandMemo, ReserveShape, TcapTypeOK, fundingVars, tipVars

\* A TIP that moves is a TIP.
LEMMA MovedTipType ==
    ASSUME ReserveShape, NEW tx, tx.tip \in Tip, tips[tx.tip] # NULL,
           tx.sequence \in Nat, tx.nonce \in Nonce, NEW commitment \in Tip
    PROVE  /\ MovedTip(tx, commitment) \in OneTimeTip
           /\ [MovedTip(tx, commitment) EXCEPT !.consumed = TRUE] \in OneTimeTip
           /\ [MovedTip(tx, commitment) EXCEPT !.consumed = FALSE] \in OneTimeTip
<1>1. tips[tx.tip] \in OneTimeTip
  BY DEF ReserveShape, TcapTypeOK, Optional
<1>2. MovedTip(tx, commitment) \in OneTimeTip
  BY <1>1 DEF MovedTip, OneTimeTip, Optional
<1> QED
  BY <1>2 DEF OneTimeTip

LEMMA NewTipType == \A t \in Tip, n \in Nat : NewTip(t, n) \in OneTimeTip
BY DEF NewTip, OneTimeTip, Optional

\* What a credit and a debit do to the balance of a TIP.
LEMMA CreditBalance ==
    ASSUME liability \in [Tip \cup LegacyTip -> Optional(Balance)],
           NEW t \in Tip, liability[t] # NULL, NEW a \in Amount
    PROVE  LET new == [liability EXCEPT ![t].available = @ + a]
           IN  /\ new \in [Tip \cup LegacyTip -> Optional(Balance)]
               /\ new[t] # NULL /\ new[t].available = liability[t].available + a
               /\ \A u \in (Tip \cup LegacyTip) \ {t} : new[u] = liability[u]
<1>1. a \in Nat /\ liability[t] \in Balance
  BY AmountIsNat DEF Optional
<1>2. liability[t].available \in Nat /\ liability[t].spent \in Nat
  BY <1>1 DEF Balance
<1> DEFINE more == [liability[t] EXCEPT !.available = liability[t].available + a]
<1>3. more \in Balance /\ more.available = liability[t].available + a
  BY <1>1, <1>2 DEF Balance
<1>4. [liability EXCEPT ![t].available = @ + a] = [liability EXCEPT ![t] = more]
  OBVIOUS
<1> HIDE DEF more
<1> QED
  BY <1>3, <1>4, AbsentAssumption DEF Optional

LEMMA DebitBalance ==
    ASSUME liability \in [Tip \cup LegacyTip -> Optional(Balance)],
           NEW t \in Tip, liability[t] # NULL, NEW a \in Amount, liability[t].available >= a
    PROVE  LET new == [liability EXCEPT ![t].available = @ - a, ![t].spent = @ + a]
           IN  /\ new \in [Tip \cup LegacyTip -> Optional(Balance)]
               /\ new[t] # NULL /\ new[t].available = liability[t].available - a
               /\ \A u \in (Tip \cup LegacyTip) \ {t} : new[u] = liability[u]
<1>1. a \in Nat /\ liability[t] \in Balance
  BY AmountIsNat DEF Optional
<1>2. liability[t].available \in Nat /\ liability[t].spent \in Nat
  BY <1>1 DEF Balance
<1> DEFINE less == [liability[t] EXCEPT !.available = liability[t].available - a,
                                        !.spent = liability[t].spent + a]
<1>5. liability[t].available - a \in Nat /\ liability[t].spent + a \in Nat
  BY <1>1, <1>2
<1>3. less \in Balance /\ less.available = liability[t].available - a
  BY <1>1, <1>5 DEF Balance
<1>4. [liability EXCEPT ![t].available = @ - a, ![t].spent = @ + a] = [liability EXCEPT ![t] = less]
  BY <1>1 DEF Balance
<1> HIDE DEF less
<1> QED
  BY <1>3, <1>4, AbsentAssumption DEF Optional

LEMMA CreditShape ==
    ASSUME ReserveShape, NEW tx \in CreditTxs, LandCredit(tx)
    PROVE  ReserveShape'
<1>1. /\ tx.tip \in Tip /\ tx.next \in Tip /\ tx.amount \in Amount /\ tx.nonce \in Nonce
      /\ tx.sequence \in Nat
  BY DEF CreditTxs
<1>2. tips[tx.tip] # NULL /\ liability[tx.tip] # NULL /\ reserve.pending >= tx.amount
  BY DEF LandCredit, MayCredit
<1>3. reserve' \in Reserve
  BY <1>1, <1>2, SettleType DEF LandCredit, CreditTip, ReserveShape, TcapTypeOK
<1> DEFINE moved == [MovedTip(tx, tx.next) EXCEPT !.consumed = FALSE]
<1>4. moved \in OneTimeTip
  BY <1>1, <1>2, MovedTipType
<1>5. tips' = [tips EXCEPT ![tx.tip] = moved]
  BY DEF LandCredit, CreditTip
<1> HIDE DEF moved
<1>6. tips' \in [Tip -> Optional(OneTimeTip)]
  BY <1>1, <1>4, <1>5 DEF ReserveShape, TcapTypeOK, Optional
<1>7. liability' \in [Tip \cup LegacyTip -> Optional(Balance)]
  BY <1>1, <1>2, CreditBalance DEF ReserveShape, TcapTypeOK, LandCredit
<1> QED
  BY <1>3, <1>6, <1>7 DEF LandCredit, CreditTip, ReserveShape, TcapTypeOK, fundingVars

LEMMA InitializeTipShape ==
    ASSUME ReserveShape, NEW t \in Tip, InitializeTip(t)
    PROVE  ReserveShape'
<1>1. NewTip(t, 0) \in OneTimeTip
  BY NewTipType
<1>2. tips' \in [Tip -> Optional(OneTimeTip)]
  BY <1>1 DEF InitializeTip, ReserveShape, TcapTypeOK, Optional
<1> QED
  BY <1>2 DEF InitializeTip, ReserveShape, TcapTypeOK, fundingVars

LEMMA InitializeLiabilityShape ==
    ASSUME ReserveShape, NEW t \in Tip, InitializeTipLiability(t)
    PROVE  ReserveShape'
<1>1. [available |-> 0, spent |-> 0] \in Balance
  BY DEF Balance
<1>2. liability' \in [Tip \cup LegacyTip -> Optional(Balance)]
  BY <1>1 DEF InitializeTipLiability, ReserveShape, TcapTypeOK, Optional
<1> QED
  BY <1>2 DEF InitializeTipLiability, ReserveShape, TcapTypeOK, fundingVars

LEMMA LegacyShape ==
    ASSUME ReserveShape, NEW t \in LegacyTip, NEW a \in Amount, InitializeLegacyLiability(t, a)
    PROVE  ReserveShape'
<1>1. a \in Nat /\ reserve \in Reserve
  BY AmountIsNat DEF ReserveShape, TcapTypeOK
<1>2. [available |-> a, spent |-> 0] \in Balance
  BY <1>1 DEF Balance
<1>3. liability' \in [Tip \cup LegacyTip -> Optional(Balance)]
  BY <1>2 DEF InitializeLegacyLiability, ReserveShape, TcapTypeOK, Optional
<1>5. /\ reserve.settled + a \in Nat /\ reserve.pending \in Nat
      /\ reserve.actual_assets \in Nat
  BY <1>1, CounterTypes
<1>4. reserve' = [actual_assets |-> reserve.actual_assets, pending |-> reserve.pending,
                  settled |-> reserve.settled + a]
  BY <1>1, <1>5, Counters DEF InitializeLegacyLiability
<1>6. reserve' \in Reserve
  BY <1>4, <1>5 DEF Reserve
<1> QED
  BY <1>3, <1>6 DEF InitializeLegacyLiability, ReserveShape, TcapTypeOK, fundingVars

LEMMA ConsumeShape ==
    ASSUME ReserveShape, NEW tx \in ConsumeTxs, LandConsume(tx)
    PROVE  ReserveShape'
<1>1. /\ tx.tip \in Tip /\ tx.next \in Tip /\ tx.nonce \in Nonce /\ tx.sequence \in Nat
  BY DEF ConsumeTxs
<1> DEFINE moved == [MovedTip(tx, tx.next) EXCEPT !.consumed = TRUE]
<1>2. moved \in OneTimeTip
  BY <1>1, MovedTipType DEF LandConsume
<1>3. NewTip(tx.next, tx.sequence) \in OneTimeTip
  BY <1>1, NewTipType
<1>4. tips' = [tips EXCEPT ![tx.tip] = moved, ![tx.next] = NewTip(tx.next, tx.sequence)]
  BY DEF LandConsume
<1> HIDE DEF moved
<1>5. tips' \in [Tip -> Optional(OneTimeTip)]
  BY <1>1, <1>2, <1>3, <1>4 DEF ReserveShape, TcapTypeOK, Optional
<1> QED
  BY <1>5 DEF LandConsume, ReserveShape, TcapTypeOK, fundingVars

\* A debit issues a permit, and takes its amount off the counter it names.
LEMMA IssuedPermit ==
    ASSUME ReserveShape, NEW n \in Nonce, NEW tip \in Optional(Tip), NEW a \in Amount,
           NEW names \in Names, permits' = [permits EXCEPT ![n] = NewPermit(tip, a, names)]
    PROVE  /\ permits' \in [Nonce -> Optional(Permit)]
           /\ permits'[n] # NULL /\ permits'[n] = NewPermit(tip, a, names)
           /\ \A m \in Nonce \ {n} : permits'[m] = permits[m]
<1>1. NewPermit(tip, a, names) \in Permit
  BY DEF NewPermit, Permit
<1> QED
  BY <1>1, AbsentAssumption DEF ReserveShape, TcapTypeOK, Optional

LEMMA CountedType ==
    ASSUME NEW b, NEW a \in Nat
    PROVE  Counted(b, a) \in Nat /\ (b => Counted(b, a) = a) /\ (~b => Counted(b, a) = 0)
BY DEF Counted

LEMMA TakenType ==
    ASSUME reserve \in Reserve, NEW a \in Amount, NEW names \in Names,
           "reserve" \in names => reserve.settled >= a
    PROVE  /\ Taken(names, a) \in Reserve
           /\ Taken(names, a).pending = reserve.pending
           /\ Taken(names, a).settled = reserve.settled - Counted("reserve" \in names, a)
<1>1. a \in Nat
  BY AmountIsNat
<1>2. /\ reserve.pending \in Nat /\ reserve.settled \in Nat /\ reserve.actual_assets \in Nat
  BY CounterTypes
<1>3. CASE "reserve" \in names
  <2>1. reserve.settled - a \in Nat
    BY <1>1, <1>2, <1>3
  <2>2. Taken(names, a) = [actual_assets |-> reserve.actual_assets,
                           pending |-> reserve.pending, settled |-> reserve.settled - a]
    BY <1>3, <2>1, Counters DEF Taken
  <2>3. Counted("reserve" \in names, a) = a
    BY <1>3 DEF Counted
  <2> QED
    BY <1>2, <2>1, <2>2, <2>3 DEF Reserve
<1>4. CASE "reserve" \notin names
  <2>1. Taken(names, a) = reserve /\ Counted("reserve" \in names, a) = 0
    BY <1>4 DEF Taken, Counted
  <2> QED
    BY <1>2, <2>1
<1> QED
  BY <1>3, <1>4

\* What a debit and a payout do to the permits.
LEMMA DebitPermit ==
    ASSUME ReserveShape, NEW tx \in DebitTxs, NEW names \in Names, LandDebit(tx, names)
    PROVE  /\ permits' \in [Nonce -> Optional(Permit)]
           /\ permits[tx.nonce] = NULL
           /\ permits'[tx.nonce] # NULL
           /\ permits'[tx.nonce] = NewPermit(tx.tip, tx.amount, names)
           /\ \A n \in Nonce \ {tx.nonce} : permits'[n] = permits[n]
<1>1. tx.tip \in Optional(Tip) /\ tx.amount \in Amount /\ tx.nonce \in Nonce
  BY DEF DebitTxs, Optional
<1>2. permits' = [permits EXCEPT ![tx.nonce] = NewPermit(tx.tip, tx.amount, names)]
  BY DEF LandDebit, DebitTip
<1>3. permits[tx.nonce] = NULL
  BY DEF LandDebit, MayDebit
<1> QED
  BY <1>1, <1>2, <1>3, IssuedPermit

LEMMA ElsewhereShape ==
    ASSUME ReserveShape, NEW n \in Nonce, NEW a \in Amount, NEW names \in Names,
           DebitElsewhere(n, a, names)
    PROVE  /\ ReserveShape'
           /\ permits[n] = NULL /\ permits'[n] # NULL /\ permits'[n] = NewPermit(NULL, a, names)
           /\ \A m \in Nonce \ {n} : permits'[m] = permits[m]
           /\ reserve'.pending = reserve.pending
           /\ reserve'.settled = reserve.settled - Counted("reserve" \in names, a)
<1>1. NULL \in Optional(Tip) /\ reserve \in Reserve
  BY DEF Optional, ReserveShape, TcapTypeOK
<1>2. /\ permits' \in [Nonce -> Optional(Permit)]
      /\ permits[n] = NULL /\ permits'[n] # NULL /\ permits'[n] = NewPermit(NULL, a, names)
      /\ \A m \in Nonce \ {n} : permits'[m] = permits[m]
  BY <1>1, IssuedPermit DEF DebitElsewhere
<1>3. /\ reserve' \in Reserve /\ reserve'.pending = reserve.pending
      /\ reserve'.settled = reserve.settled - Counted("reserve" \in names, a)
  BY <1>1, TakenType DEF DebitElsewhere
<1>4. ReserveShape'
  BY <1>2, <1>3 DEF DebitElsewhere, ReserveShape, TcapTypeOK, fundingVars, tipVars
<1> QED
  BY <1>2, <1>3, <1>4

LEMMA DebitShape ==
    ASSUME ReserveShape, NEW tx \in DebitTxs, NEW names \in Names, LandDebit(tx, names)
    PROVE  /\ ReserveShape'
           /\ reserve'.pending = reserve.pending
           /\ reserve'.settled = reserve.settled - Counted("reserve" \in names, tx.amount)
<1>1. /\ tx.tip \in Tip /\ tx.amount \in Amount /\ tx.nonce \in Nonce /\ tx.sequence \in Nat
  BY DEF DebitTxs
<1>2. /\ tips[tx.tip] # NULL /\ liability[tx.tip] # NULL
      /\ liability[tx.tip].available >= tx.amount
      /\ "reserve" \in names => reserve.settled >= tx.amount
  BY DEF LandDebit, MayDebit
<1>3. tips[tx.tip] \in OneTimeTip
  BY <1>1, <1>2 DEF ReserveShape, TcapTypeOK, Optional
<1>4. MovedTip(tx, tips[tx.tip].commitment) \in OneTimeTip
  <2>1. tips[tx.tip].commitment \in Tip
    BY <1>3 DEF OneTimeTip
  <2> QED
    BY <1>1, <1>2, <2>1, MovedTipType
<1>5. tips' \in [Tip -> Optional(OneTimeTip)]
  BY <1>1, <1>4 DEF LandDebit, DebitTip, ReserveShape, TcapTypeOK, Optional
<1>6. liability' \in [Tip \cup LegacyTip -> Optional(Balance)]
  BY <1>1, <1>2, DebitBalance DEF ReserveShape, TcapTypeOK, LandDebit, DebitTip
<1>7. reserve \in Reserve
  BY DEF ReserveShape, TcapTypeOK
<1>8. /\ reserve' \in Reserve /\ reserve'.pending = reserve.pending
      /\ reserve'.settled = reserve.settled - Counted("reserve" \in names, tx.amount)
  BY <1>1, <1>2, <1>7, TakenType DEF LandDebit
<1>9. permits' \in [Nonce -> Optional(Permit)]
  BY DebitPermit
<1>10. ReserveShape'
  BY <1>5, <1>6, <1>8, <1>9 DEF LandDebit, DebitTip, ReserveShape, TcapTypeOK, fundingVars
<1> QED
  BY <1>8, <1>10

LEMMA PaidPermit ==
    ASSUME ReserveShape, NEW n \in Nonce, permits[n] # NULL,
           permits' = [permits EXCEPT ![n].consumed = TRUE]
    PROVE  /\ permits' \in [Nonce -> Optional(Permit)]
           /\ permits[n].amount \in Amount /\ permits'[n] # NULL /\ permits'[n].consumed
           /\ permits'[n] = [permits[n] EXCEPT !.consumed = TRUE]
           /\ permits'[n].amount = permits[n].amount /\ permits'[n].names = permits[n].names
           /\ permits'[n].tip = permits[n].tip
           /\ \A m \in Nonce \ {n} : permits'[m] = permits[m]
<1>1. permits[n] \in Permit
  BY DEF ReserveShape, TcapTypeOK, Optional
<1> DEFINE paid == [permits[n] EXCEPT !.consumed = TRUE]
<1>2. /\ paid \in Permit /\ paid.consumed /\ permits[n].amount \in Amount
      /\ paid.amount = permits[n].amount /\ paid.names = permits[n].names
      /\ paid.tip = permits[n].tip
  BY <1>1 DEF Permit
<1>3. permits' = [permits EXCEPT ![n] = paid]
  OBVIOUS
<1>4. paid = [permits[n] EXCEPT !.consumed = TRUE]
  OBVIOUS
<1> HIDE DEF paid
<1>5. /\ permits' \in [Nonce -> Optional(Permit)] /\ permits'[n] = paid /\ paid # NULL
      /\ \A m \in Nonce \ {n} : permits'[m] = permits[m]
  BY <1>2, <1>3, AbsentAssumption DEF ReserveShape, TcapTypeOK, Optional
<1> QED
  BY <1>2, <1>4, <1>5

LEMMA PayoutPermit ==
    ASSUME ReserveShape, NEW n \in Nonce, Payout(n) \/ PayoutElsewhere(n)
    PROVE  /\ permits' \in [Nonce -> Optional(Permit)]
           /\ permits[n] # NULL /\ ~permits[n].consumed /\ permits[n].amount \in Amount
           /\ permits'[n] # NULL /\ permits'[n].consumed
           /\ permits'[n] = [permits[n] EXCEPT !.consumed = TRUE]
           /\ permits'[n].amount = permits[n].amount /\ permits'[n].names = permits[n].names
           /\ permits'[n].tip = permits[n].tip
           /\ \A m \in Nonce \ {n} : permits'[m] = permits[m]
<1>1. permits[n] # NULL /\ ~permits[n].consumed
  BY DEF Payout, PayoutElsewhere, MayPay
<1>2. permits' = [permits EXCEPT ![n].consumed = TRUE]
  BY DEF Payout, PayoutElsewhere
<1> QED
  BY <1>1, <1>2, PaidPermit

LEMMA PayoutShape ==
    ASSUME ReserveShape, NEW n \in Nonce, Payout(n)
    PROVE  /\ ReserveShape'
           /\ reserve' = [actual_assets |-> vault - permits[n].amount,
                          pending |-> reserve.pending, settled |-> reserve.settled]
<1>1. reserve \in Reserve /\ vault \in Nat
  BY DEF ReserveShape, TcapTypeOK
<1>2. permits[n].amount \in Nat /\ vault >= permits[n].amount
  BY PayoutPermit, AmountIsNat DEF Payout, MayPay
<1>3. vault - permits[n].amount \in Nat /\ reserve.pending \in Nat /\ reserve.settled \in Nat
  BY <1>1, <1>2, CounterTypes
<1>4. reserve' = [actual_assets |-> vault - permits[n].amount,
                  pending |-> reserve.pending, settled |-> reserve.settled]
  BY <1>1, <1>3, Counters DEF Payout
<1>5. reserve' \in Reserve /\ vault' \in Nat
  BY <1>3, <1>4 DEF Reserve, Payout
<1>6. permits' \in [Nonce -> Optional(Permit)]
  BY PayoutPermit
<1>7. ReserveShape'
  BY <1>5, <1>6 DEF Payout, ReserveShape, TcapTypeOK, fundingVars, tipVars
<1> QED
  BY <1>4, <1>7

\* What a client prepares is a transaction.
LEMMA PrepareShape ==
    ASSUME ReserveShape, Prepare
    PROVE  ReserveShape'
<1> DEFINE Txs == FundingTxs \cup CreditTxs \cup ConsumeTxs \cup DebitTxs \cup MemoTxs
<1>1. \A t \in LiveTip : t \in Tip /\ tips[t].sequence + 1 \in Nat /\ tips[t].commitment \in Tip
  BY DEF ReserveShape, TcapTypeOK, LiveTip, Optional, OneTimeTip
<1>2. FundingTx \subseteq FundingTxs
  BY DEF FundingTx, FundingTxs, ReserveShape, TcapTypeOK
<1>3. CreditTx \subseteq CreditTxs
  BY <1>1 DEF CreditTx, CreditTxs
<1>4. ConsumeTx \subseteq ConsumeTxs
  BY <1>1 DEF ConsumeTx, ConsumeTxs
<1>5. DebitTx \subseteq DebitTxs
  BY <1>1 DEF DebitTx, DebitTxs
<1>6. MemoTx \subseteq MemoTxs
  BY DEF MemoTx, MemoTxs, ReserveShape, TcapTypeOK
<1>7. outbox' \subseteq Txs
  BY <1>2, <1>3, <1>4, <1>5, <1>6 DEF Prepare, ReserveShape
<1> QED
  BY <1>7 DEF Prepare, ReserveShape, TcapTypeOK, fundingVars, tipVars

\* A transaction of one kind is of that form.
LEMMA TxForms ==
    ASSUME ReserveShape, NEW tx \in outbox
    PROVE  /\ tx.kind = "fund" => tx \in FundingTxs
           /\ tx.kind = "memo" => tx \in MemoTxs
           /\ tx.kind = "credit" => tx \in CreditTxs
           /\ tx.kind = "consume" => tx \in ConsumeTxs
           /\ tx.kind = "debit" => tx \in DebitTxs
<1>1. tx \in FundingTxs \cup CreditTxs \cup ConsumeTxs \cup DebitTxs \cup MemoTxs
  BY DEF ReserveShape
<1>2. /\ tx \in FundingTxs => tx.kind = "fund"
      /\ tx \in CreditTxs => tx.kind = "credit"
      /\ tx \in ConsumeTxs => tx.kind = "consume"
      /\ tx \in DebitTxs => tx.kind = "debit"
      /\ tx \in MemoTxs => tx.kind = "memo"
  BY DEF FundingTxs, CreditTxs, ConsumeTxs, DebitTxs, MemoTxs
<1> QED
  BY <1>1, <1>2

LEMMA ReserveStepShape == ReserveShape /\ [TcapNext]_vars => ReserveShape'
<1> SUFFICES ASSUME ReserveShape, [TcapNext]_vars PROVE ReserveShape'
  OBVIOUS
<1>1. ASSUME NEW a \in Amount, DepositAsset(a) PROVE ReserveShape'
  BY <1>1, DepositShape
<1>2. ASSUME NEW t \in Tip, InitializeTip(t) PROVE ReserveShape'
  BY <1>2, InitializeTipShape
<1>3. ASSUME NEW t \in Tip, InitializeTipLiability(t) PROVE ReserveShape'
  BY <1>3, InitializeLiabilityShape
<1>4. ASSUME NEW t \in LegacyTip, NEW a \in Amount, InitializeLegacyLiability(t, a)
      PROVE  ReserveShape'
  BY <1>4, LegacyShape
<1>5. ASSUME NEW tx \in outbox, Land(tx) PROVE ReserveShape'
  <2>1. CASE tx.kind = "fund" /\ LandFunding(tx)
    BY <2>1, <1>5, TxForms, FundingShape
  <2>2. CASE tx.kind = "memo" /\ LandMemo(tx)
    BY <2>2, <1>5, TxForms, MemoShape
  <2>3. CASE tx.kind = "credit" /\ LandCredit(tx)
    BY <2>3, <1>5, TxForms, CreditShape
  <2>4. CASE tx.kind = "consume" /\ LandConsume(tx)
    BY <2>4, <1>5, TxForms, ConsumeShape
  <2>5. CASE tx.kind = "debit" /\ \E names \in Names : LandDebit(tx, names)
    BY <2>5, <1>5, TxForms, DebitShape
  <2> QED
    BY <1>5, <2>1, <2>2, <2>3, <2>4, <2>5 DEF Land
<1>6. ASSUME NEW n \in Nonce, Payout(n) PROVE ReserveShape'
  BY <1>6, PayoutShape
<1>12. ASSUME NEW n \in Nonce, PayoutElsewhere(n) PROVE ReserveShape'
  <2>1. permits' \in [Nonce -> Optional(Permit)]
    BY <1>12, PayoutPermit
  <2> QED
    BY <1>12, <2>1 DEF PayoutElsewhere, ReserveShape, TcapTypeOK, fundingVars, tipVars
<1>13. ASSUME NEW n \in Nonce, NEW a \in Amount, NEW names \in Names, DebitElsewhere(n, a, names)
       PROVE  ReserveShape'
  BY <1>13, ElsewhereShape
<1>7. CASE Prepare
  BY <1>7, PrepareShape
<1>8. CASE Expire
  BY <1>8 DEF Expire, ReserveShape, TcapTypeOK, fundingVars, tipVars
<1>9. CASE Gift
  BY <1>9 DEF Gift, ReserveShape, TcapTypeOK, fundingVars, tipVars
<1>10. CASE Govern
  BY <1>10, GateAssumption DEF Govern, ReserveShape, TcapTypeOK, fundingVars, tipVars
<1>11. CASE UNCHANGED vars
  BY <1>11 DEF vars, ReserveShape, TcapTypeOK, fundingVars, tipVars
<1> QED
  BY <1>1, <1>2, <1>3, <1>4, <1>5, <1>6, <1>7, <1>8, <1>9, <1>10, <1>11, <1>12, <1>13
     DEF TcapNext

(* The accounts hold what their types can hold, and no handler's checked   *)
(* subtraction underflows, for any number of depositors, TIPs and nonces.  *)
THEOREM TcapTypeCorrect == TcapSpec => []TcapTypeOK
<1>1. ReserveShape => TcapTypeOK
  BY DEF ReserveShape
<1> QED
  BY <1>1, ReserveInitShape, ReserveStepShape, PTL DEF TcapSpec

\* What no handler but a debit and a payout does: it leaves the permits
\* alone and takes nothing from the vault.
LEMMA PermitsKept ==
    ASSUME ReserveShape, [TcapNext]_vars,
           \A n \in Nonce : ~Payout(n) /\ ~PayoutElsewhere(n),
           \A tx \in outbox \cap DebitTxs, names \in Names : ~LandDebit(tx, names),
           \A n \in Nonce, a \in Amount, names \in Names : ~DebitElsewhere(n, a, names)
    PROVE  permits' = permits /\ vault' >= vault
<1>0. vault \in Nat /\ vault >= vault
  BY DEF ReserveShape, TcapTypeOK
<1>1. ASSUME NEW a \in Amount, DepositAsset(a) PROVE permits' = permits /\ vault' >= vault
  BY <1>0, <1>1, AmountIsNat DEF DepositAsset
<1>2. ASSUME NEW tx \in outbox, Land(tx) PROVE permits' = permits /\ vault' >= vault
  <2>1. CASE tx.kind = "fund" /\ LandFunding(tx)
    <3>1. tx \in FundingTxs
      BY <1>2, <2>1, TxForms
    <3>2. tx.amount \in Nat
      BY <3>1, AmountIsNat DEF FundingTxs
    <3> QED
      BY <1>0, <2>1, <3>2 DEF LandFunding
  <2>2. CASE tx.kind # "fund"
    <3>1. ~(tx.kind = "debit" /\ \E names \in Names : LandDebit(tx, names))
      BY <1>2, TxForms
    <3> QED
      BY <1>0, <1>2, <2>2, <3>1 DEF Land, LandMemo, LandCredit, CreditTip, LandConsume
  <2> QED
    BY <1>2, <2>1, <2>2 DEF Land
<1>3. CASE Gift
  BY <1>0, <1>3 DEF Gift
<1> QED
  BY <1>0, <1>1, <1>2, <1>3
     DEF TcapNext, InitializeTip, InitializeTipLiability, InitializeLegacyLiability, Prepare,
         Expire, Govern, vars

(* Tokens leave the vault only for an exit permit, once, in its amount,    *)
(* and a paid permit is never paid, changed or reopened: whatever depends  *)
(* on stale accounts, is repeated or lands in another order.               *)
THEOREM TokensAlwaysLeaveByPermit == TcapSpec => TokensLeaveByPermit
<1> DEFINE Leaves ==
        /\ vault' < vault => \E n \in Nonce :
              /\ permits[n] # NULL /\ ~permits[n].consumed /\ permits'[n].consumed
              /\ vault' = vault - permits[n].amount
        /\ \A n \in Nonce : permits[n] # NULL =>
              permits'[n] \in {permits[n], [permits[n] EXCEPT !.consumed = TRUE]}
<1>1. ASSUME ReserveShape, [TcapNext]_vars PROVE [Leaves]_vars
  <2>0. vault \in Nat
    BY <1>1 DEF ReserveShape, TcapTypeOK
  <2>1. ASSUME NEW n \in Nonce, Payout(n) PROVE Leaves
    <3>1. vault' = vault - permits[n].amount
      BY <2>1 DEF Payout
    <3>2. \A m \in Nonce : permits'[m] \in {permits[m], [permits[m] EXCEPT !.consumed = TRUE]}
      <4>1. /\ permits'[n] = [permits[n] EXCEPT !.consumed = TRUE]
            /\ \A m \in Nonce \ {n} : permits'[m] = permits[m]
        BY <1>1, <2>1, PayoutPermit
      <4> QED
        BY <4>1
    <3>3. permits[n] # NULL /\ ~permits[n].consumed /\ permits'[n].consumed
      BY <1>1, <2>1, PayoutPermit
    <3> QED
      BY <3>1, <3>2, <3>3
  <2>4. ASSUME NEW n \in Nonce, PayoutElsewhere(n) PROVE Leaves
    <3>1. vault' = vault
      BY <2>4 DEF PayoutElsewhere
    <3>2. /\ permits'[n] = [permits[n] EXCEPT !.consumed = TRUE]
          /\ \A m \in Nonce \ {n} : permits'[m] = permits[m]
      BY <1>1, <2>4, PayoutPermit
    <3> QED
      BY <2>0, <3>1, <3>2
  <2>5. ASSUME NEW n \in Nonce, NEW a \in Amount, NEW names \in Names,
               DebitElsewhere(n, a, names)
        PROVE  Leaves
    <3>1. vault' = vault
      BY <2>5 DEF DebitElsewhere
    <3>2. permits[n] = NULL /\ \A m \in Nonce \ {n} : permits'[m] = permits[m]
      BY <1>1, <2>5, ElsewhereShape
    <3> QED
      BY <2>0, <3>1, <3>2
  <2>2. ASSUME NEW tx \in outbox \cap DebitTxs, NEW names \in Names, LandDebit(tx, names)
        PROVE  Leaves
    <3>1. vault' = vault
      BY <2>2 DEF LandDebit, DebitTip
    <3>2. permits[tx.nonce] = NULL /\ \A n \in Nonce \ {tx.nonce} : permits'[n] = permits[n]
      BY <1>1, <2>2, DebitPermit
    <3> QED
      BY <2>0, <3>1, <3>2
  <2>3. CASE /\ \A n \in Nonce : ~Payout(n) /\ ~PayoutElsewhere(n)
             /\ \A tx \in outbox \cap DebitTxs, names \in Names : ~LandDebit(tx, names)
             /\ \A n \in Nonce, a \in Amount, names \in Names : ~DebitElsewhere(n, a, names)
    <3>1. permits' = permits /\ vault' >= vault
      BY <1>1, <2>3, PermitsKept
    <3>2. vault' \in Nat
      BY <1>1, ReserveStepShape DEF ReserveShape, TcapTypeOK
    <3> QED
      BY <2>0, <3>1, <3>2
  <2> QED
    BY <2>1, <2>2, <2>3, <2>4, <2>5
<1>2. TokensLeaveByPermit <=> [][Leaves]_vars
  BY DEF TokensLeaveByPermit
<1> QED
  BY <1>1, <1>2, ReserveInitShape, ReserveStepShape, PTL DEF TcapSpec

-----------------------------------------------------------------------------
(* The sums of the reserve *)

\* What is outstanding and what is misdirected for each permit, what each
\* TIP has, and what each memo credit gave.
Due(p) == [n \in Nonce |-> IF p[n] = NULL THEN 0 ELSE Owed(p[n])]
Stray(p) == [n \in Nonce |-> IF p[n] = NULL THEN 0 ELSE Diverted(p[n])]
Held(l) == [t \in Tip \cup LegacyTip |-> IF l[t] = NULL THEN 0 ELSE l[t].available]
Given(r) == [i \in DOMAIN r |-> r[i].amount]

LEMMA DueType ==
    ASSUME NEW p \in [Nonce -> Optional(Permit)]
    PROVE  Due(p) \in [Nonce -> Int] /\ Stray(p) \in [Nonce -> Int]
<1>1. ASSUME NEW n \in Nonce, p[n] # NULL PROVE Owed(p[n]) \in Int /\ Diverted(p[n]) \in Int
  <2>1. p[n] \in Permit
    BY <1>1 DEF Optional
  <2>2. p[n].amount \in Nat
    BY <2>1, AmountIsNat DEF Permit
  <2>3. \A b : Counted(b, p[n].amount) \in Nat
    BY <2>2, CountedType
  <2> QED
    BY <2>3 DEF Owed, Diverted
<1> QED
  BY <1>1 DEF Due, Stray

\* What a new permit adds, and what paying one takes away.
LEMMA NewPermitCounts ==
    ASSUME NEW p, NEW q, NEW n \in Nonce, NEW tip, NEW a \in Nat, NEW names,
           p[n] = NULL, q[n] # NULL, q[n] = NewPermit(tip, a, names)
    PROVE  /\ Due(p)[n] = 0 /\ Stray(p)[n] = 0
           /\ Due(q)[n] = Counted("reserve" \in names, a)
           /\ Stray(q)[n] = (IF tip = NULL THEN 0 ELSE a) - Counted("reserve" \in names, a)
<1>1. Due(p)[n] = 0 /\ Stray(p)[n] = 0 /\ Due(q)[n] = Owed(q[n]) /\ Stray(q)[n] = Diverted(q[n])
  BY DEF Due, Stray
<1>2. /\ q[n].tip = tip /\ q[n].amount = a /\ q[n].names = names /\ q[n].consumed = FALSE
  BY DEF NewPermit
<1>3. Owed(q[n]) = Counted("reserve" \in names, a) - 0
  BY <1>2 DEF Owed, Counted
<1>4. Diverted(q[n]) = (IF tip = NULL THEN 0 ELSE a) - Counted("reserve" \in names, a)
  BY <1>2 DEF Diverted, Counted
<1>5. Counted("reserve" \in names, a) \in Nat
  BY CountedType
<1> QED
  BY <1>1, <1>3, <1>4, <1>5

LEMMA PaidPermitCounts ==
    ASSUME NEW p, NEW q, NEW n \in Nonce, p[n] # NULL, q[n] # NULL, ~p[n].consumed, q[n].consumed,
           p[n].amount \in Nat,
           q[n].amount = p[n].amount, q[n].names = p[n].names, q[n].tip = p[n].tip
    PROVE  /\ Due(q)[n] = Due(p)[n] - Counted("mint" \in p[n].names, p[n].amount)
           /\ Stray(q)[n] = Stray(p)[n]
<1>1. /\ Due(p)[n] = Owed(p[n]) /\ Stray(p)[n] = Diverted(p[n])
      /\ Due(q)[n] = Owed(q[n]) /\ Stray(q)[n] = Diverted(q[n])
  BY DEF Due, Stray
<1>2. Owed(p[n]) = Counted("reserve" \in p[n].names, p[n].amount) - 0
  BY DEF Owed, Counted
<1>3. Owed(q[n]) = Counted("reserve" \in p[n].names, p[n].amount)
                      - Counted("mint" \in p[n].names, p[n].amount)
  BY DEF Owed, Counted
<1>4. Diverted(q[n]) = Diverted(p[n])
  BY DEF Diverted
<1>5. /\ Counted("reserve" \in p[n].names, p[n].amount) \in Nat
      /\ Counted("mint" \in p[n].names, p[n].amount) \in Nat
  BY CountedType
<1> QED
  BY <1>1, <1>2, <1>3, <1>4, <1>5

LEMMA HeldType ==
    ASSUME NEW l \in [Tip \cup LegacyTip -> Optional(Balance)]
    PROVE  Held(l) \in [Tip \cup LegacyTip -> Nat]
<1> SUFFICES ASSUME NEW t \in Tip \cup LegacyTip, l[t] # NULL PROVE l[t].available \in Nat
  BY DEF Held
<1>1. l[t] \in Balance
  BY DEF Optional
<1> QED
  BY <1>1 DEF Balance

LEMMA GivenType ==
    ASSUME NEW r \in Seq(Memo) PROVE Given(r) \in [1..Len(r) -> Nat] /\ IsFiniteSet(1..Len(r))
<1>1. DOMAIN r = 1..Len(r) /\ Len(r) \in Nat /\ \A i \in 1..Len(r) : r[i] \in Memo
  BY LenProperties, ElementOfSeq
<1>2. \A i \in 1..Len(r) : r[i].amount \in Nat
  BY <1>1, AmountIsNat DEF Memo
<1>3. IsFiniteSet(1..Len(r))
  BY <1>1, FS_Interval
<1> QED
  BY <1>1, <1>2, <1>3 DEF Given

LEMMA TheSums ==
    ASSUME ReserveShape
    PROVE  /\ Outstanding = SumOver(Due(permits), Nonce)
           /\ Misdirected = SumOver(Stray(permits), Nonce)
           /\ Available = SumOver(Held(liability), Tip \cup LegacyTip)
           /\ Credited = SumOver(Given(root), 1..Len(root))
<1>1. DOMAIN liability = Tip \cup LegacyTip /\ root \in Seq(Memo)
  BY DEF ReserveShape, TcapTypeOK
<1>2. /\ Outstanding = SumFunction(Due(permits)) /\ DOMAIN Due(permits) = Nonce
      /\ Misdirected = SumFunction(Stray(permits)) /\ DOMAIN Stray(permits) = Nonce
  BY DEF Outstanding, Due, Misdirected, Stray
<1>3. Available = SumFunction(Held(liability)) /\ DOMAIN Held(liability) = Tip \cup LegacyTip
  BY <1>1 DEF Available, Held
<1>4. Credited = SumFunction(Given(root)) /\ DOMAIN Given(root) = 1..Len(root)
  BY <1>1, LenProperties DEF Credited, Given
<1> QED
  BY <1>2, <1>3, <1>4, SumFunctionIsSum

LEMMA TheSumsAfter ==
    ASSUME ReserveShape'
    PROVE  /\ Outstanding' = SumOver(Due(permits'), Nonce)
           /\ Misdirected' = SumOver(Stray(permits'), Nonce)
           /\ Available' = SumOver(Held(liability'), Tip \cup LegacyTip)
           /\ Credited' = SumOver(Given(root'), 1..Len(root'))
<1>1. DOMAIN liability' = Tip \cup LegacyTip /\ root' \in Seq(Memo)
  BY DEF ReserveShape, TcapTypeOK
<1>2. /\ Outstanding' = SumFunction(Due(permits')) /\ DOMAIN Due(permits') = Nonce
      /\ Misdirected' = SumFunction(Stray(permits')) /\ DOMAIN Stray(permits') = Nonce
  BY DEF Outstanding, Due, Misdirected, Stray
<1>3. Available' = SumFunction(Held(liability')) /\ DOMAIN Held(liability') = Tip \cup LegacyTip
  BY <1>1 DEF Available, Held
<1>4. Credited' = SumFunction(Given(root')) /\ DOMAIN Given(root') = 1..Len(root')
  BY <1>1, LenProperties DEF Credited, Given
<1> QED
  BY <1>2, <1>3, <1>4, SumFunctionIsSum

\* The sums are numbers, and those of natural numbers are no less than any
\* of their parts.
LEMMA SumsAreNat ==
    ASSUME ReserveShape
    PROVE  /\ Outstanding \in Int /\ Misdirected \in Int /\ Available \in Nat /\ Credited \in Nat
           /\ Due(permits) \in [Nonce -> Nat] =>
                 /\ Outstanding \in Nat
                 /\ \A n \in Nonce : Due(permits)[n] <= Outstanding
           /\ Stray(permits) \in [Nonce -> Nat] => Misdirected \in Nat
           /\ \A t \in Tip \cup LegacyTip : Held(liability)[t] <= Available
<1>1. /\ Due(permits) \in [Nonce -> Int] /\ Stray(permits) \in [Nonce -> Int]
      /\ Held(liability) \in [Tip \cup LegacyTip -> Nat]
      /\ Given(root) \in [1..Len(root) -> Nat] /\ IsFiniteSet(1..Len(root))
  BY DueType, HeldType, GivenType DEF ReserveShape, TcapTypeOK
<1>2. SumOver(Due(permits), Nonce) \in Int /\ SumOver(Stray(permits), Nonce) \in Int
  BY <1>1, SumType, FiniteAssumption
<1>5. Due(permits) \in [Nonce -> Nat] =>
         /\ SumOver(Due(permits), Nonce) \in Nat
         /\ \A n \in Nonce : Due(permits)[n] <= SumOver(Due(permits), Nonce)
  BY SumBounds, FiniteAssumption
<1>6. Stray(permits) \in [Nonce -> Nat] => SumOver(Stray(permits), Nonce) \in Nat
  BY SumBounds, FiniteAssumption
<1>3. /\ SumOver(Held(liability), Tip \cup LegacyTip) \in Nat
      /\ \A t \in Tip \cup LegacyTip :
            Held(liability)[t] <= SumOver(Held(liability), Tip \cup LegacyTip)
  BY <1>1, SumBounds, FiniteAssumption
<1>4. SumOver(Given(root), 1..Len(root)) \in Nat
  BY <1>1, SumBounds
<1> QED
  BY <1>2, <1>3, <1>4, <1>5, <1>6, TheSums

\* How a step moves what is outstanding and what is misdirected.
LEMMA PermitsMove ==
    ASSUME ReserveShape, ReserveShape'
    PROVE  /\ permits' = permits => Outstanding' = Outstanding /\ Misdirected' = Misdirected
           /\ \A n \in Nonce : (\A m \in Nonce \ {n} : permits'[m] = permits[m]) =>
                 /\ Outstanding' = Outstanding - Due(permits)[n] + Due(permits')[n]
                 /\ Misdirected' = Misdirected - Stray(permits)[n] + Stray(permits')[n]
<1>1. /\ Outstanding = SumOver(Due(permits), Nonce)
      /\ Outstanding' = SumOver(Due(permits'), Nonce)
      /\ Misdirected = SumOver(Stray(permits), Nonce)
      /\ Misdirected' = SumOver(Stray(permits'), Nonce)
  BY TheSums, TheSumsAfter
<1>2. /\ Due(permits) \in [Nonce -> Int] /\ Due(permits') \in [Nonce -> Int]
      /\ Stray(permits) \in [Nonce -> Int] /\ Stray(permits') \in [Nonce -> Int]
  BY DueType DEF ReserveShape, TcapTypeOK
<1>3. ASSUME NEW n \in Nonce, \A m \in Nonce \ {n} : permits'[m] = permits[m]
      PROVE  /\ Outstanding' = Outstanding - Due(permits)[n] + Due(permits')[n]
             /\ Misdirected' = Misdirected - Stray(permits)[n] + Stray(permits')[n]
  <2>1. \A m \in Nonce \ {n} : /\ Due(permits')[m] = Due(permits)[m]
                              /\ Stray(permits')[m] = Stray(permits)[m]
    BY <1>3 DEF Due, Stray
  <2>2. SumOver(Due(permits'), Nonce)
           = SumOver(Due(permits), Nonce) - Due(permits)[n] + Due(permits')[n]
    BY <1>2, <2>1, SumChanges, FiniteAssumption
  <2>3. SumOver(Stray(permits'), Nonce)
           = SumOver(Stray(permits), Nonce) - Stray(permits)[n] + Stray(permits')[n]
    BY <1>2, <2>1, SumChanges, FiniteAssumption
  <2> QED
    BY <1>1, <2>2, <2>3
<1> QED
  BY <1>1, <1>3

\* How a step moves what the TIPs have.
LEMMA AvailableMoves ==
    ASSUME ReserveShape, ReserveShape'
    PROVE  /\ liability' = liability => Available' = Available
           /\ \A t \in Tip \cup LegacyTip :
                 (\A u \in (Tip \cup LegacyTip) \ {t} : liability'[u] = liability[u]) =>
                 Available' = Available - Held(liability)[t] + Held(liability')[t]
<1>1. /\ Available = SumOver(Held(liability), Tip \cup LegacyTip)
      /\ Available' = SumOver(Held(liability'), Tip \cup LegacyTip)
  BY TheSums, TheSumsAfter
<1>2. /\ Held(liability) \in [Tip \cup LegacyTip -> Nat]
      /\ Held(liability') \in [Tip \cup LegacyTip -> Nat]
  BY HeldType DEF ReserveShape, TcapTypeOK
<1>3. ASSUME NEW t \in Tip \cup LegacyTip,
             \A u \in (Tip \cup LegacyTip) \ {t} : liability'[u] = liability[u]
      PROVE  Available' = Available - Held(liability)[t] + Held(liability')[t]
  <2>1. \A u \in (Tip \cup LegacyTip) \ {t} : Held(liability')[u] = Held(liability)[u]
    BY <1>3 DEF Held
  <2>2. /\ Held(liability) \in [Tip \cup LegacyTip -> Int]
        /\ Held(liability') \in [Tip \cup LegacyTip -> Int]
    BY <1>2
  <2> QED
    BY <1>1, <2>1, <2>2, SumChanges, FiniteAssumption
<1> QED
  BY <1>1, <1>3

\* A memo credit adds its amount to what the root gave.
LEMMA CreditedMoves ==
    ASSUME ReserveShape, ReserveShape'
    PROVE  /\ root' = root => Credited' = Credited
           /\ \A e \in Memo : root' = Append(root, e) => Credited' = Credited + e.amount
<1>1. /\ Credited = SumOver(Given(root), 1..Len(root))
      /\ Credited' = SumOver(Given(root'), 1..Len(root'))
      /\ root \in Seq(Memo) /\ root' \in Seq(Memo)
  BY TheSums, TheSumsAfter DEF ReserveShape, TcapTypeOK
<1>2. ASSUME NEW e \in Memo, root' = Append(root, e) PROVE Credited' = Credited + e.amount
  <2>1. /\ Len(root) \in Nat /\ Len(root') = Len(root) + 1 /\ root'[Len(root) + 1] = e
        /\ \A i \in 1..Len(root) : root'[i] = root[i]
        /\ DOMAIN root = 1..Len(root) /\ DOMAIN root' = 1..Len(root')
    BY <1>1, <1>2, LenProperties, AppendProperties
  <2>2. /\ 1..Len(root') = (1..Len(root)) \cup {Len(root) + 1}
        /\ Len(root) + 1 \notin 1..Len(root)
    BY <2>1
  <2>3. /\ \A i \in 1..Len(root) : Given(root')[i] = Given(root)[i]
        /\ Given(root')[Len(root) + 1] = e.amount
    BY <2>1, <2>2 DEF Given
  <2>4. /\ Given(root) \in [1..Len(root) -> Int] /\ IsFiniteSet(1..Len(root))
        /\ Given(root') \in [(1..Len(root)) \cup {Len(root) + 1} -> Int]
    <3>1. Given(root) \in [1..Len(root) -> Nat] /\ IsFiniteSet(1..Len(root))
      BY <1>1, GivenType
    <3>2. Given(root') \in [1..Len(root') -> Nat]
      BY <1>1, GivenType
    <3>3. Given(root') \in [(1..Len(root)) \cup {Len(root) + 1} -> Nat]
      BY <2>2, <3>2
    <3> QED
      BY <3>1, <3>3
  <2> DEFINE S == 1..Len(root)
             x == Len(root) + 1
  <2>5. SumOver(Given(root'), S \cup {x}) = SumOver(Given(root), S) + Given(root')[x]
    <3>1. /\ IsFiniteSet(S) /\ x \notin S /\ Given(root) \in [S -> Int]
          /\ Given(root') \in [S \cup {x} -> Int] /\ \A i \in S : Given(root')[i] = Given(root)[i]
      BY <2>2, <2>3, <2>4
    <3> HIDE DEF S, x
    <3> QED
      BY <3>1, SumExtends
  <2> QED
    BY <1>1, <2>2, <2>3, <2>5
<1> QED
  BY <1>1, <1>2

\* What each handler does to the counters.
LEMMA CountersMove ==
    ASSUME ReserveShape
    PROVE  /\ \A a \in Amount : DepositAsset(a) =>
                 /\ reserve'.pending = reserve.pending + a
                 /\ reserve'.settled = reserve.settled
           /\ \A tx \in FundingTxs : LandFunding(tx) =>
                 /\ reserve'.pending = reserve.pending + tx.amount
                 /\ reserve'.settled = reserve.settled
           /\ \A tx \in MemoTxs : LandMemo(tx) =>
                 /\ reserve'.pending = reserve.pending - tx.amount
                 /\ reserve'.settled = reserve.settled + tx.amount
           /\ \A tx \in CreditTxs : LandCredit(tx) =>
                 /\ reserve'.pending = reserve.pending - tx.amount
                 /\ reserve'.settled = reserve.settled + tx.amount
           /\ \A n \in Nonce : Payout(n) =>
                 /\ reserve'.pending = reserve.pending
                 /\ reserve'.settled = reserve.settled
           /\ \A t \in LegacyTip, a \in Amount : InitializeLegacyLiability(t, a) =>
                 reserve'.settled = reserve.settled + a
<1>0. reserve \in Reserve /\ vault \in Nat
  BY DEF ReserveShape, TcapTypeOK
<1>1. ASSUME NEW a \in Amount, DepositAsset(a)
      PROVE  reserve'.pending = reserve.pending + a /\ reserve'.settled = reserve.settled
  <2>1. vault + a \in Nat /\ reserve.pending + a \in Nat
    BY <1>0, CounterTypes, AmountIsNat
  <2>2. reserve' = [actual_assets |-> vault + a, pending |-> reserve.pending + a,
                    settled |-> reserve.settled]
    BY <1>0, <1>1, <2>1, Counters DEF DepositAsset
  <2> QED
    BY <2>2
<1>2. ASSUME NEW tx \in FundingTxs, LandFunding(tx)
      PROVE  /\ reserve'.pending = reserve.pending + tx.amount
             /\ reserve'.settled = reserve.settled
  <2>1. tx.amount \in Nat
    BY AmountIsNat DEF FundingTxs
  <2>2. reserve.actual_assets + tx.amount \in Nat /\ reserve.pending + tx.amount \in Nat
    BY <1>0, <2>1, CounterTypes
  <2>3. reserve' = [actual_assets |-> reserve.actual_assets + tx.amount,
                    pending |-> reserve.pending + tx.amount, settled |-> reserve.settled]
    BY <1>0, <1>2, <2>2, Counters DEF LandFunding, FundedReserve
  <2> QED
    BY <2>3
<1>3. ASSUME NEW tx \in MemoTxs, LandMemo(tx)
      PROVE  /\ reserve'.pending = reserve.pending - tx.amount
             /\ reserve'.settled = reserve.settled + tx.amount
  <2>1. tx.amount \in Amount
    BY DEF MemoTxs
  <2> QED
    BY <1>0, <1>3, <2>1, SettleType DEF LandMemo
<1>4. ASSUME NEW tx \in CreditTxs, LandCredit(tx)
      PROVE  /\ reserve'.pending = reserve.pending - tx.amount
             /\ reserve'.settled = reserve.settled + tx.amount
  <2>1. tx.amount \in Amount
    BY DEF CreditTxs
  <2> QED
    BY <1>0, <1>4, <2>1, SettleType DEF LandCredit, MayCredit, CreditTip
<1>6. ASSUME NEW n \in Nonce, Payout(n)
      PROVE  reserve'.pending = reserve.pending /\ reserve'.settled = reserve.settled
  <2>1. reserve' = [actual_assets |-> vault - permits[n].amount,
                    pending |-> reserve.pending, settled |-> reserve.settled]
    BY <1>6, PayoutShape
  <2> QED
    BY <2>1
<1>7. ASSUME NEW t \in LegacyTip, NEW a \in Amount, InitializeLegacyLiability(t, a)
      PROVE  reserve'.settled = reserve.settled + a
  <2>1. reserve.settled + a \in Nat
    BY <1>0, CounterTypes, AmountIsNat
  <2>2. reserve' = [actual_assets |-> reserve.actual_assets, pending |-> reserve.pending,
                    settled |-> reserve.settled + a]
    BY <1>0, <1>7, <2>1, Counters DEF InitializeLegacyLiability
  <2> QED
    BY <2>2
<1> QED
  BY <1>1, <1>2, <1>3, <1>4, <1>6, <1>7

\* What no step but these changes: the vault, the counters, the permits,
\* the balances and the root move together.
LEMMA AccountsKept ==
    ASSUME \/ Prepare \/ Expire \/ Govern \/ UNCHANGED vars
           \/ \E t \in Tip : InitializeTip(t)
           \/ \E tx : LandConsume(tx)
    PROVE  /\ vault' = vault /\ gifts' = gifts /\ reserve' = reserve /\ permits' = permits
           /\ liability' = liability /\ root' = root
BY DEF Prepare, Expire, Govern, vars, tipVars, fundingVars, InitializeTip, LandConsume

BackedInv == ReserveShape /\ ReserveBacked

LEMMA BackedInit == TcapInit => BackedInv
<1> SUFFICES ASSUME TcapInit PROVE ReserveShape /\ ReserveBacked
  BY DEF BackedInv
<1>1. ReserveShape
  BY ReserveInitShape
<1>2. Due(permits) \in [Nonce -> Int] /\ \A n \in Nonce : Due(permits)[n] = 0
  BY DEF TcapInit, Due
<1>3. Outstanding = 0
  BY <1>1, <1>2, TheSums, SumType, FiniteAssumption
<1>4. reserve.pending = 0 /\ reserve.settled = 0 /\ vault = 0 /\ gifts = 0
  BY DEF TcapInit
<1> QED
  BY <1>1, <1>3, <1>4 DEF ReserveBacked, TotalLiabilities

LEMMA BackedStep ==
    ASSUME LegacyTip = {}, BackedInv, [TcapNext]_vars
    PROVE  BackedInv'
<1>0. /\ ReserveShape /\ ReserveShape'
      /\ vault = gifts + (reserve.pending + reserve.settled) + Outstanding
  BY ReserveStepShape DEF BackedInv, ReserveBacked, TotalLiabilities
<1>1. /\ vault \in Nat /\ gifts \in Nat /\ reserve.pending \in Nat /\ reserve.settled \in Nat
      /\ Outstanding \in Int
  BY <1>0, CounterTypes, SumsAreNat DEF ReserveShape, TcapTypeOK
<1> DEFINE Goal == vault' = gifts' + (reserve'.pending + reserve'.settled) + Outstanding'
<1>2. SUFFICES Goal
  BY <1>0 DEF BackedInv, ReserveBacked, TotalLiabilities
<1>3. permits' = permits => Outstanding' = Outstanding
  BY <1>0, PermitsMove
<1>4. ASSUME NEW a \in Amount, DepositAsset(a) PROVE Goal
  <2>1. a \in Nat
    BY AmountIsNat
  <2>2. vault' = vault + a /\ gifts' = gifts /\ permits' = permits
    BY <1>4 DEF DepositAsset
  <2>3. reserve'.pending = reserve.pending + a /\ reserve'.settled = reserve.settled
    BY <1>0, <1>4, CountersMove
  <2> QED
    BY <1>0, <1>1, <1>3, <2>1, <2>2, <2>3
<1>5. ASSUME NEW tx \in outbox, Land(tx) PROVE Goal
  <2>1. CASE tx.kind = "fund" /\ LandFunding(tx)
    <3>1. tx \in FundingTxs
      BY <1>0, <1>5, <2>1, TxForms
    <3>2. tx.amount \in Nat
      BY <3>1, AmountIsNat DEF FundingTxs
    <3>3. vault' = vault + tx.amount /\ gifts' = gifts /\ permits' = permits
      BY <2>1 DEF LandFunding
    <3>4. reserve'.pending = reserve.pending + tx.amount /\ reserve'.settled = reserve.settled
      BY <1>0, <2>1, <3>1, CountersMove
    <3> QED
      BY <1>0, <1>1, <1>3, <3>2, <3>3, <3>4
  <2>2. CASE tx.kind = "memo" /\ LandMemo(tx)
    <3>1. tx \in MemoTxs
      BY <1>0, <1>5, <2>2, TxForms
    <3>2. tx.amount \in Nat
      BY <3>1, AmountIsNat DEF MemoTxs
    <3>3. vault' = vault /\ gifts' = gifts /\ permits' = permits
      BY <2>2 DEF LandMemo
    <3>4. /\ reserve'.pending = reserve.pending - tx.amount
          /\ reserve'.settled = reserve.settled + tx.amount
      BY <1>0, <2>2, <3>1, CountersMove
    <3> QED
      BY <1>0, <1>1, <1>3, <3>2, <3>3, <3>4
  <2>3. CASE tx.kind = "credit" /\ LandCredit(tx)
    <3>1. tx \in CreditTxs
      BY <1>0, <1>5, <2>3, TxForms
    <3>2. tx.amount \in Nat
      BY <3>1, AmountIsNat DEF CreditTxs
    <3>3. vault' = vault /\ gifts' = gifts /\ permits' = permits
      BY <2>3 DEF LandCredit, CreditTip
    <3>4. /\ reserve'.pending = reserve.pending - tx.amount
          /\ reserve'.settled = reserve.settled + tx.amount
      BY <1>0, <2>3, <3>1, CountersMove
    <3> QED
      BY <1>0, <1>1, <1>3, <3>2, <3>3, <3>4
  <2>4. CASE tx.kind = "consume" /\ LandConsume(tx)
    <3>1. vault' = vault /\ gifts' = gifts /\ reserve' = reserve /\ permits' = permits
      BY <2>4, AccountsKept
    <3> QED
      BY <1>0, <1>1, <1>3, <3>1
  <2>5. CASE tx.kind = "debit" /\ \E names \in Names : LandDebit(tx, names)
    <3>1. tx \in DebitTxs
      BY <1>0, <1>5, <2>5, TxForms
    <3>2. PICK names \in Names : LandDebit(tx, names)
      BY <2>5
    <3>3. tx.amount \in Nat /\ tx.nonce \in Nonce
      BY <3>1, AmountIsNat DEF DebitTxs
    <3> DEFINE taken == Counted("reserve" \in names, tx.amount)
    <3>4. vault' = vault /\ gifts' = gifts
      BY <3>2 DEF LandDebit, DebitTip
    <3>5. reserve'.pending = reserve.pending /\ reserve'.settled = reserve.settled - taken
      BY <1>0, <3>1, <3>2, DebitShape
    <3>6. /\ permits[tx.nonce] = NULL /\ permits'[tx.nonce] # NULL
          /\ permits'[tx.nonce] = NewPermit(tx.tip, tx.amount, names)
          /\ \A n \in Nonce \ {tx.nonce} : permits'[n] = permits[n]
      BY <1>0, <3>1, <3>2, DebitPermit
    <3>7. Due(permits)[tx.nonce] = 0 /\ Due(permits')[tx.nonce] = taken
      BY <3>3, <3>6, NewPermitCounts
    <3>8. Outstanding' = Outstanding - Due(permits)[tx.nonce] + Due(permits')[tx.nonce]
      BY <1>0, <3>3, <3>6, PermitsMove
    <3>9. taken \in Nat
      BY <3>3, CountedType
    <3> HIDE DEF taken
    <3> QED
      BY <1>0, <1>1, <3>4, <3>5, <3>7, <3>8, <3>9
  <2> QED
    BY <1>5, <2>1, <2>2, <2>3, <2>4, <2>5 DEF Land
<1>6. ASSUME NEW n \in Nonce, Payout(n) \/ PayoutElsewhere(n) PROVE Goal
  <2>1. /\ permits[n] # NULL /\ ~permits[n].consumed /\ permits[n].amount \in Amount
        /\ permits'[n] # NULL /\ permits'[n].consumed
        /\ permits'[n].amount = permits[n].amount /\ permits'[n].names = permits[n].names
        /\ permits'[n].tip = permits[n].tip
        /\ \A m \in Nonce \ {n} : permits'[m] = permits[m]
    BY <1>0, <1>6, PayoutPermit
  <2>2. permits[n].amount \in Nat
    BY <2>1, AmountIsNat
  <2> DEFINE paid == Counted("mint" \in permits[n].names, permits[n].amount)
  <2>3. vault' = vault - paid /\ gifts' = gifts
    <3>1. CASE Payout(n)
      BY <3>1 DEF Payout, MayPay, Counted
    <3>2. CASE PayoutElsewhere(n)
      BY <1>1, <3>2 DEF PayoutElsewhere, Counted
    <3> QED
      BY <1>6, <3>1, <3>2
  <2>4. reserve'.pending = reserve.pending /\ reserve'.settled = reserve.settled
    <3>1. CASE Payout(n)
      BY <1>0, <3>1, CountersMove
    <3>2. CASE PayoutElsewhere(n)
      BY <3>2 DEF PayoutElsewhere
    <3> QED
      BY <1>6, <3>1, <3>2
  <2>5. Due(permits')[n] = Due(permits)[n] - paid
    BY <2>1, <2>2, PaidPermitCounts
  <2>6. Outstanding' = Outstanding - Due(permits)[n] + Due(permits')[n]
    BY <1>0, <2>1, PermitsMove
  <2>7. paid \in Nat /\ Due(permits)[n] \in Int
    BY <1>0, <2>2, CountedType, DueType DEF ReserveShape, TcapTypeOK
  <2> HIDE DEF paid
  <2> QED
    BY <1>0, <1>1, <2>3, <2>4, <2>5, <2>6, <2>7
<1>10. ASSUME NEW n \in Nonce, NEW a \in Amount, NEW names \in Names, DebitElsewhere(n, a, names)
       PROVE  Goal
  <2>1. a \in Nat
    BY AmountIsNat
  <2> DEFINE taken == Counted("reserve" \in names, a)
  <2>2. vault' = vault /\ gifts' = gifts
    BY <1>10 DEF DebitElsewhere
  <2>3. /\ permits[n] = NULL /\ permits'[n] # NULL /\ permits'[n] = NewPermit(NULL, a, names)
        /\ \A m \in Nonce \ {n} : permits'[m] = permits[m]
        /\ reserve'.pending = reserve.pending /\ reserve'.settled = reserve.settled - taken
    BY <1>0, <1>10, ElsewhereShape
  <2>4. Due(permits)[n] = 0 /\ Due(permits')[n] = taken
    BY <2>1, <2>3, NewPermitCounts
  <2>5. Outstanding' = Outstanding - Due(permits)[n] + Due(permits')[n]
    BY <1>0, <2>3, PermitsMove
  <2>6. taken \in Nat
    BY <2>1, CountedType
  <2> HIDE DEF taken
  <2> QED
    BY <1>0, <1>1, <2>2, <2>3, <2>4, <2>5, <2>6
<1>7. CASE Gift
  <2>1. vault' = vault + 1 /\ gifts' = gifts + 1 /\ reserve' = reserve /\ permits' = permits
    BY <1>7 DEF Gift
  <2> QED
    BY <1>0, <1>1, <1>3, <2>1
<1>8. ASSUME NEW t \in Tip, InitializeTipLiability(t) PROVE Goal
  <2>1. vault' = vault /\ gifts' = gifts /\ reserve' = reserve /\ permits' = permits
    BY <1>8 DEF InitializeTipLiability
  <2> QED
    BY <1>0, <1>1, <1>3, <2>1
<1>9. CASE Prepare \/ Expire \/ Govern \/ UNCHANGED vars \/ \E t \in Tip : InitializeTip(t)
  <2>1. vault' = vault /\ gifts' = gifts /\ reserve' = reserve /\ permits' = permits
    BY <1>9, AccountsKept
  <2> QED
    BY <1>0, <1>1, <1>3, <2>1
<1> QED
  BY <1>4, <1>5, <1>6, <1>7, <1>8, <1>9, <1>10 DEF TcapNext

(* Conservation: every token in the vault came by a plain transfer, is     *)
(* pending, settled or outstanding, and the vault falls short of what it   *)
(* owes by exactly what it paid for permits debited from other reserves;   *)
(* for any number of depositors, TIPs and nonces, where governance opens   *)
(* no TIN TIP with a balance nobody deposited.                             *)
THEOREM ReserveIsAlwaysBacked == LegacyTip = {} => (TcapSpec => []ReserveBacked)
<1> SUFFICES ASSUME LegacyTip = {} PROVE TcapSpec => []ReserveBacked
  OBVIOUS
<1>1. BackedInv /\ [TcapNext]_vars => BackedInv'
  BY BackedStep
<1>2. BackedInv => ReserveBacked
  BY DEF BackedInv
<1> QED
  BY <1>1, <1>2, BackedInit, PTL DEF TcapSpec

\* Every permit paid from this vault was debited from this reserve, and every
\* unpaid permit debited from this reserve has its tokens.
PaidFromTheirReserve ==
    \A n \in Nonce : permits[n] # NULL /\ permits[n].consumed /\ "mint" \in permits[n].names
                      => "reserve" \in permits[n].names
PermitsCovered ==
    \A n \in Nonce : permits[n] # NULL /\ ~permits[n].consumed /\ "reserve" \in permits[n].names
                      => vault >= permits[n].amount

(* A permit debited from this reserve has its tokens in the vault until it *)
(* is paid, as long as the vault paid no permit that was debited from      *)
(* another asset's reserve: payout_tcap_exit_v1 then never finds the vault *)
(* short.  debit_tcap_exit_v1 does not enforce the condition.              *)
THEOREM PermitsAreAlwaysCovered ==
    LegacyTip = {} => (TcapSpec => [](PaidFromTheirReserve => PermitsCovered))
<1> SUFFICES ASSUME LegacyTip = {}
             PROVE  TcapSpec => [](PaidFromTheirReserve => PermitsCovered)
  OBVIOUS
<1>1. BackedInv /\ [TcapNext]_vars => BackedInv'
  BY BackedStep
<1>2. BackedInv => (PaidFromTheirReserve => PermitsCovered)
  <2> SUFFICES ASSUME BackedInv, PaidFromTheirReserve PROVE PermitsCovered
    OBVIOUS
  <2>1. /\ ReserveShape /\ vault = gifts + (reserve.pending + reserve.settled) + Outstanding
    BY DEF BackedInv, ReserveBacked, TotalLiabilities
  <2>2. \A n \in Nonce : permits[n] # NULL => permits[n] \in Permit /\ permits[n].amount \in Nat
    BY <2>1, AmountIsNat DEF ReserveShape, TcapTypeOK, Optional, Permit
  <2>3. Due(permits) \in [Nonce -> Nat]
    <3> SUFFICES ASSUME NEW n \in Nonce, permits[n] # NULL PROVE Owed(permits[n]) \in Nat
      BY DEF Due
    <3>1. permits[n].amount \in Nat /\ permits[n].amount - permits[n].amount = 0
      BY <2>2
    <3>2. CASE "reserve" \in permits[n].names
      BY <3>1, <3>2 DEF Owed, Counted
    <3>3. CASE "reserve" \notin permits[n].names
      BY <3>1, <3>3 DEF PaidFromTheirReserve, Owed, Counted
    <3> QED
      BY <3>2, <3>3
  <2>4. Outstanding \in Nat /\ \A n \in Nonce : Due(permits)[n] <= Outstanding
    BY <2>1, <2>3, SumsAreNat
  <2>5. gifts \in Nat /\ reserve.pending \in Nat /\ reserve.settled \in Nat
    BY <2>1, CounterTypes DEF ReserveShape, TcapTypeOK
  <2> SUFFICES ASSUME NEW n \in Nonce, permits[n] # NULL, ~permits[n].consumed,
                      "reserve" \in permits[n].names
               PROVE  vault >= permits[n].amount
    BY DEF PermitsCovered
  <2>6. Due(permits)[n] = permits[n].amount /\ permits[n].amount \in Nat
    BY <2>2 DEF Due, Owed, Counted
  <2> QED
    BY <2>1, <2>4, <2>5, <2>6
<1> QED
  BY <1>1, <1>2, BackedInit, PTL DEF TcapSpec

AccountedInv == ReserveShape /\ SettledIsAccounted

\* The balance of one TIP changes, and the sum with it.
LEMMA HeldMoves ==
    ASSUME ReserveShape, ReserveShape', NEW t \in Tip \cup LegacyTip,
           liability[t] # NULL, liability'[t] # NULL,
           \A u \in (Tip \cup LegacyTip) \ {t} : liability'[u] = liability[u]
    PROVE  Available' = Available - liability[t].available + liability'[t].available
<1>1. /\ Held(liability)[t] = liability[t].available
      /\ Held(liability')[t] = liability'[t].available
  BY DEF Held
<1> QED
  BY <1>1, AvailableMoves

LEMMA AccountedInit == TcapInit => AccountedInv
<1> SUFFICES ASSUME TcapInit PROVE ReserveShape /\ SettledIsAccounted
  BY DEF AccountedInv
<1>1. ReserveShape
  BY ReserveInitShape
<1>2. /\ Held(liability) \in [Tip \cup LegacyTip -> Int]
      /\ \A t \in Tip \cup LegacyTip : Held(liability)[t] = 0
  BY DEF TcapInit, Held
<1>3. Available = 0
  BY <1>1, <1>2, TheSums, SumType, FiniteAssumption
<1>4. Credited = 0
  <2>1. root \in Seq(Memo) /\ Len(root) = 0
    BY <1>1 DEF TcapInit, ReserveShape, TcapTypeOK
  <2>2. Given(root) \in [1..Len(root) -> Int] /\ IsFiniteSet(1..Len(root))
    <3>1. Given(root) \in [1..Len(root) -> Nat] /\ IsFiniteSet(1..Len(root))
      BY <2>1, GivenType
    <3> QED
      BY <3>1
  <2>3. \A i \in 1..Len(root) : Given(root)[i] = 0
    BY <2>1
  <2> QED
    BY <1>1, <2>2, <2>3, TheSums, SumType
<1>5. reserve.settled = 0
  BY DEF TcapInit
<1>6. Stray(permits) \in [Nonce -> Int] /\ \A n \in Nonce : Stray(permits)[n] = 0
  BY DEF TcapInit, Stray
<1>7. Misdirected = 0
  BY <1>1, <1>6, TheSums, SumType, FiniteAssumption
<1> QED
  BY <1>1, <1>3, <1>4, <1>5, <1>7 DEF SettledIsAccounted

LEMMA AccountedStep == AccountedInv /\ [TcapNext]_vars => AccountedInv'
<1> SUFFICES ASSUME AccountedInv, [TcapNext]_vars PROVE AccountedInv'
  OBVIOUS
<1>0. ReserveShape /\ ReserveShape' /\ reserve.settled = Available + Credited + Misdirected
  BY ReserveStepShape DEF AccountedInv, SettledIsAccounted
<1>1. /\ reserve.settled \in Nat /\ Available \in Nat /\ Credited \in Nat
      /\ Misdirected \in Int
  BY <1>0, CounterTypes, SumsAreNat DEF ReserveShape, TcapTypeOK
<1> DEFINE Goal == reserve'.settled = Available' + Credited' + Misdirected'
<1>2. SUFFICES Goal
  BY <1>0 DEF AccountedInv, SettledIsAccounted
<1>3. /\ liability' = liability => Available' = Available
      /\ root' = root => Credited' = Credited
      /\ permits' = permits => Misdirected' = Misdirected
  BY <1>0, AvailableMoves, CreditedMoves, PermitsMove
<1>4. ASSUME NEW a \in Amount, DepositAsset(a) PROVE Goal
  BY <1>0, <1>3, <1>4, CountersMove DEF DepositAsset, tipVars
<1>5. ASSUME NEW tx \in outbox, Land(tx) PROVE Goal
  <2>1. CASE tx.kind = "fund" /\ LandFunding(tx)
    <3>1. tx \in FundingTxs
      BY <1>0, <1>5, <2>1, TxForms
    <3>2. reserve'.settled = reserve.settled
      BY <1>0, <2>1, <3>1, CountersMove
    <3> QED
      BY <1>0, <1>3, <2>1, <3>2 DEF LandFunding, tipVars
  <2>2. CASE tx.kind = "memo" /\ LandMemo(tx)
    <3>1. tx \in MemoTxs
      BY <1>0, <1>5, <2>2, TxForms
    <3>2. tx.amount \in Nat /\ tx.amount \in Amount /\ tx.nonce \in Nonce
      BY <3>1, AmountIsNat DEF MemoTxs
    <3> DEFINE e == [nullifier |-> tx.nonce, amount |-> tx.amount]
    <3>3. e \in Memo /\ e.amount = tx.amount
      BY <3>2 DEF Memo
    <3>4. liability' = liability /\ root' = Append(root, e) /\ permits' = permits
      BY <2>2 DEF LandMemo, tipVars
    <3> HIDE DEF e
    <3>5. Credited' = Credited + tx.amount
      BY <1>0, <3>3, <3>4, CreditedMoves
    <3>6. reserve'.settled = reserve.settled + tx.amount
      BY <1>0, <2>2, <3>1, CountersMove
    <3> QED
      BY <1>0, <1>1, <1>3, <3>2, <3>4, <3>5, <3>6
  <2>3. CASE tx.kind = "credit" /\ LandCredit(tx)
    <3>1. tx \in CreditTxs
      BY <1>0, <1>5, <2>3, TxForms
    <3>2. tx.amount \in Nat /\ tx.amount \in Amount /\ tx.tip \in Tip
      BY <3>1, AmountIsNat DEF CreditTxs
    <3>3. liability[tx.tip] # NULL /\ root' = root /\ permits' = permits
      BY <2>3 DEF LandCredit, MayCredit, CreditTip
    <3>4. liability \in [Tip \cup LegacyTip -> Optional(Balance)]
      BY <1>0 DEF ReserveShape, TcapTypeOK
    <3>5. /\ liability'[tx.tip] # NULL
          /\ liability'[tx.tip].available = liability[tx.tip].available + tx.amount
          /\ \A u \in (Tip \cup LegacyTip) \ {tx.tip} : liability'[u] = liability[u]
      BY <2>3, <3>2, <3>3, <3>4, CreditBalance DEF LandCredit
    <3>6. Available' = Available + tx.amount
      <4>1. liability[tx.tip].available \in Nat
        BY <3>2, <3>3, <3>4 DEF Optional, Balance
      <4>2. Available' = Available - liability[tx.tip].available + liability'[tx.tip].available
        BY <1>0, <3>2, <3>3, <3>5, HeldMoves
      <4> QED
        BY <1>1, <3>2, <3>5, <4>1, <4>2
    <3>7. reserve'.settled = reserve.settled + tx.amount
      BY <1>0, <2>3, <3>1, CountersMove
    <3> QED
      BY <1>0, <1>1, <1>3, <3>2, <3>3, <3>6, <3>7
  <2>4. CASE tx.kind = "consume" /\ LandConsume(tx)
    <3>1. reserve' = reserve /\ liability' = liability /\ root' = root /\ permits' = permits
      BY <2>4, AccountsKept
    <3> QED
      BY <1>0, <1>3, <3>1
  <2>5. CASE tx.kind = "debit" /\ \E names \in Names : LandDebit(tx, names)
    <3>1. tx \in DebitTxs
      BY <1>0, <1>5, <2>5, TxForms
    <3>2. PICK names \in Names : LandDebit(tx, names)
      BY <2>5
    <3>3. tx.amount \in Nat /\ tx.amount \in Amount /\ tx.tip \in Tip /\ tx.nonce \in Nonce
      BY <3>1, AmountIsNat DEF DebitTxs
    <3>4. /\ liability[tx.tip] # NULL /\ liability[tx.tip].available >= tx.amount
          /\ root' = root
      BY <3>2 DEF LandDebit, MayDebit, DebitTip
    <3>5. liability \in [Tip \cup LegacyTip -> Optional(Balance)]
      BY <1>0 DEF ReserveShape, TcapTypeOK
    <3>6. liability' = [liability EXCEPT ![tx.tip].available = @ - tx.amount,
                                         ![tx.tip].spent = @ + tx.amount]
      BY <3>2 DEF LandDebit, DebitTip
    <3>7. /\ liability'[tx.tip] # NULL
          /\ liability'[tx.tip].available = liability[tx.tip].available - tx.amount
          /\ \A u \in (Tip \cup LegacyTip) \ {tx.tip} : liability'[u] = liability[u]
      BY <3>3, <3>4, <3>5, <3>6, DebitBalance, ZenonT(40)
    <3>8. Available' = Available - tx.amount
      <4>1. liability[tx.tip].available \in Nat
        BY <3>3, <3>4, <3>5 DEF Optional, Balance
      <4>2. Available' = Available - liability[tx.tip].available + liability'[tx.tip].available
        BY <1>0, <3>3, <3>4, <3>7, HeldMoves
      <4> QED
        BY <1>1, <3>3, <3>7, <4>1, <4>2
    <3> DEFINE taken == Counted("reserve" \in names, tx.amount)
    <3>9. reserve'.settled = reserve.settled - taken
      BY <1>0, <3>1, <3>2, DebitShape
    <3>10. /\ permits[tx.nonce] = NULL /\ permits'[tx.nonce] # NULL
           /\ permits'[tx.nonce] = NewPermit(tx.tip, tx.amount, names)
           /\ \A n \in Nonce \ {tx.nonce} : permits'[n] = permits[n]
      BY <1>0, <3>1, <3>2, DebitPermit
    <3>11. /\ Stray(permits)[tx.nonce] = 0
           /\ Stray(permits')[tx.nonce] = tx.amount - taken
      <4>1. tx.tip # NULL
        BY <3>3, AbsentAssumption
      <4>3. tx.nonce \in Nonce /\ tx.amount \in Nat
        BY <3>3
      <4> DEFINE n == tx.nonce
                 a == tx.amount
                 tip == tx.tip
      <4>2. /\ Stray(permits)[n] = 0
            /\ Stray(permits')[n] = (IF tip = NULL THEN 0 ELSE a) - Counted("reserve" \in names, a)
        <5>1. /\ n \in Nonce /\ a \in Nat /\ permits[n] = NULL /\ permits'[n] # NULL
              /\ permits'[n] = NewPermit(tip, a, names)
          BY <3>10, <4>3
        <5> HIDE DEF n, a, tip
        <5> QED
          BY <5>1, NewPermitCounts
      <4> QED
        BY <4>1, <4>2
    <3>13. Misdirected' = Misdirected - Stray(permits)[tx.nonce] + Stray(permits')[tx.nonce]
      BY <1>0, <3>3, <3>10, PermitsMove
    <3>14. taken \in Nat
      BY <3>3, CountedType
    <3> HIDE DEF taken
    <3> QED
      BY <1>0, <1>1, <1>3, <3>3, <3>4, <3>8, <3>9, <3>11, <3>13, <3>14
  <2> QED
    BY <1>5, <2>1, <2>2, <2>3, <2>4, <2>5 DEF Land
<1>6. ASSUME NEW n \in Nonce, Payout(n) \/ PayoutElsewhere(n) PROVE Goal
  <2>1. liability' = liability /\ root' = root
    BY <1>6 DEF Payout, PayoutElsewhere, tipVars
  <2>2. reserve'.settled = reserve.settled
    <3>1. CASE Payout(n)
      BY <1>0, <3>1, CountersMove
    <3>2. CASE PayoutElsewhere(n)
      BY <3>2 DEF PayoutElsewhere
    <3> QED
      BY <1>6, <3>1, <3>2
  <2>3. /\ permits[n] # NULL /\ ~permits[n].consumed /\ permits[n].amount \in Amount
        /\ permits'[n] # NULL /\ permits'[n].consumed
        /\ permits'[n].amount = permits[n].amount /\ permits'[n].names = permits[n].names
        /\ permits'[n].tip = permits[n].tip
        /\ \A m \in Nonce \ {n} : permits'[m] = permits[m]
    BY <1>0, <1>6, PayoutPermit
  <2>4. Stray(permits')[n] = Stray(permits)[n]
    BY <2>3, AmountIsNat, PaidPermitCounts
  <2>5. Misdirected' = Misdirected - Stray(permits)[n] + Stray(permits')[n]
    BY <1>0, <2>3, PermitsMove
  <2>6. Stray(permits)[n] \in Int
    BY <1>0, DueType DEF ReserveShape, TcapTypeOK
  <2> QED
    BY <1>0, <1>1, <1>3, <2>1, <2>2, <2>4, <2>5, <2>6
<1>11. ASSUME NEW n \in Nonce, NEW a \in Amount, NEW names \in Names, DebitElsewhere(n, a, names)
       PROVE  Goal
  <2>1. a \in Nat /\ liability' = liability /\ root' = root
    BY <1>11, AmountIsNat DEF DebitElsewhere, tipVars
  <2> DEFINE taken == Counted("reserve" \in names, a)
  <2>2. /\ permits[n] = NULL /\ permits'[n] # NULL /\ permits'[n] = NewPermit(NULL, a, names)
        /\ \A m \in Nonce \ {n} : permits'[m] = permits[m]
        /\ reserve'.settled = reserve.settled - taken
    BY <1>0, <1>11, ElsewhereShape
  <2>3. Stray(permits)[n] = 0 /\ Stray(permits')[n] = 0 - taken
    <3>1. Stray(permits)[n] = 0 /\ Stray(permits')[n] = (IF NULL = NULL THEN 0 ELSE a) - taken
      BY <2>1, <2>2, NewPermitCounts
    <3> QED
      BY <3>1
  <2>5. Misdirected' = Misdirected - Stray(permits)[n] + Stray(permits')[n]
    BY <1>0, <2>2, PermitsMove
  <2>6. taken \in Nat
    BY <2>1, CountedType
  <2> HIDE DEF taken
  <2> QED
    BY <1>0, <1>1, <1>3, <2>1, <2>2, <2>3, <2>5, <2>6
<1>7. CASE Gift
  BY <1>0, <1>3, <1>7 DEF Gift, tipVars
<1>8. ASSUME NEW t \in Tip, InitializeTipLiability(t) PROVE Goal
  <2>1. liability[t] = NULL /\ reserve' = reserve /\ root' = root /\ permits' = permits
    BY <1>8 DEF InitializeTipLiability
  <2>2. /\ Held(liability)[t] = 0 /\ Held(liability')[t] = 0
        /\ \A u \in (Tip \cup LegacyTip) \ {t} : liability'[u] = liability[u]
    BY <1>0, <1>8, <2>1 DEF InitializeTipLiability, Held, ReserveShape, TcapTypeOK
  <2>3. Available' = Available - Held(liability)[t] + Held(liability')[t]
    BY <1>0, <2>2, AvailableMoves
  <2> QED
    BY <1>0, <1>1, <1>3, <2>1, <2>2, <2>3
<1>9. ASSUME NEW t \in LegacyTip, NEW a \in Amount, InitializeLegacyLiability(t, a) PROVE Goal
  <2>1. liability[t] = NULL /\ root' = root /\ a \in Nat /\ permits' = permits
    BY <1>9, AmountIsNat DEF InitializeLegacyLiability
  <2> DEFINE opened == [available |-> a, spent |-> 0]
  <2>2. opened \in Balance /\ opened # NULL /\ opened.available = a
    BY <2>1, AbsentAssumption DEF Balance
  <2>3. liability' = [liability EXCEPT ![t] = opened]
    BY <1>9 DEF InitializeLegacyLiability
  <2> HIDE DEF opened
  <2>4. /\ Held(liability)[t] = 0 /\ Held(liability')[t] = a
        /\ \A u \in (Tip \cup LegacyTip) \ {t} : liability'[u] = liability[u]
    BY <1>0, <2>1, <2>2, <2>3 DEF Held, ReserveShape, TcapTypeOK
  <2>5. Available' = Available - Held(liability)[t] + Held(liability')[t]
    BY <1>0, <2>4, AvailableMoves
  <2>6. reserve'.settled = reserve.settled + a
    BY <1>0, <1>9, CountersMove
  <2> QED
    BY <1>0, <1>1, <1>3, <2>1, <2>4, <2>5, <2>6
<1>10. CASE Prepare \/ Expire \/ Govern \/ UNCHANGED vars \/ \E t \in Tip : InitializeTip(t)
  <2>1. reserve' = reserve /\ liability' = liability /\ root' = root /\ permits' = permits
    BY <1>10, AccountsKept
  <2> QED
    BY <1>0, <1>3, <2>1
<1> QED
  BY <1>4, <1>5, <1>6, <1>7, <1>8, <1>9, <1>10, <1>11 DEF TcapNext

(* The settled counter is the sum of the balances of the TIPs and of the   *)
(* memo credits in the shared root, opening balances included, but for     *)
(* what debits naming the reserve of another asset than their TIP's moved. *)
THEOREM SettledIsAlwaysAccounted == TcapSpec => []SettledIsAccounted
<1>1. AccountedInv => SettledIsAccounted
  BY DEF AccountedInv
<1> QED
  BY <1>1, AccountedInit, AccountedStep, PTL DEF TcapSpec

\* No debit of another asset's TIP named this reserve, and no TIP has more
\* than the settled counter.
DebitedByOwnTips ==
    \A n \in Nonce : permits[n] # NULL /\ "reserve" \in permits[n].names => permits[n].tip # NULL
DebitsFit ==
    \A t \in Tip \cup LegacyTip : liability[t] # NULL => liability[t].available <= reserve.settled

(* While no debit of another asset's TIP has named this reserve, a debit   *)
(* the TIP can afford is never refused by the reserve's counter:           *)
(* debit_tcap_exit_v1's checked_sub of it cannot fail where the check of   *)
(* the balance holds.  The handler does not enforce the condition.         *)
THEOREM AffordableDebitsAlwaysFit == TcapSpec => [](DebitedByOwnTips => DebitsFit)
<1>1. AccountedInv => (DebitedByOwnTips => DebitsFit)
  <2> SUFFICES ASSUME AccountedInv, DebitedByOwnTips,
                      NEW t \in Tip \cup LegacyTip, liability[t] # NULL
               PROVE  liability[t].available <= reserve.settled
    BY DEF DebitsFit
  <2>1. ReserveShape /\ reserve.settled = Available + Credited + Misdirected
    BY DEF AccountedInv, SettledIsAccounted
  <2>2. \A n \in Nonce : permits[n] # NULL => permits[n].amount \in Nat
    BY <2>1, AmountIsNat DEF ReserveShape, TcapTypeOK, Optional, Permit
  <2>3. Stray(permits) \in [Nonce -> Nat]
    <3> SUFFICES ASSUME NEW n \in Nonce, permits[n] # NULL PROVE Diverted(permits[n]) \in Nat
      BY DEF Stray
    <3>1. permits[n].amount \in Nat /\ permits[n].amount - permits[n].amount = 0
      BY <2>2
    <3>2. CASE "reserve" \in permits[n].names
      BY <3>1, <3>2 DEF DebitedByOwnTips, Diverted, Counted
    <3>3. CASE "reserve" \notin permits[n].names
      BY <3>1, <3>3 DEF Diverted, Counted
    <3> QED
      BY <3>2, <3>3
  <2>4. Available \in Nat /\ Credited \in Nat /\ Misdirected \in Nat
    BY <2>1, <2>3, SumsAreNat
  <2>5. Held(liability)[t] = liability[t].available /\ Held(liability)[t] \in Nat
    BY <2>1, HeldType DEF Held, ReserveShape, TcapTypeOK
  <2>6. Held(liability)[t] <= Available
    BY <2>1, SumsAreNat
  <2> QED
    BY <2>1, <2>4, <2>5, <2>6
<1> QED
  BY <1>1, AccountedInit, AccountedStep, PTL DEF TcapSpec

-----------------------------------------------------------------------------
(* The funding claims *)

\* The funding root chains the claims there are, each once and where its claim
\* says, and no depositor's nonce has two claims.
FundingsAreChained ==
    /\ \A f \in FundingId : claims[f] # NULL =>
          /\ claims[f].sequence \in 1..Len(fundingRoot)
          /\ fundingRoot[claims[f].sequence] = f
          /\ claims[f].nonce < nonces[claims[f].depositor]
    /\ \A i \in 1..Len(fundingRoot) :
          claims[fundingRoot[i]] # NULL /\ claims[fundingRoot[i]].sequence = i
    /\ \A f, g \in FundingId :
          /\ claims[f] # NULL /\ claims[g] # NULL
          /\ claims[f].depositor = claims[g].depositor /\ claims[f].nonce = claims[g].nonce
          => f = g

ChainedInv == ReserveShape /\ FundingsAreChained

LEMMA ChainedInit == TcapInit => ChainedInv
BY ReserveInitShape DEF TcapInit, ChainedInv, FundingsAreChained

\* A claim is made, with the next link and the next nonce.
LEMMA FundingChains ==
    ASSUME ChainedInv, NEW tx \in FundingTxs, LandFunding(tx)
    PROVE  FundingsAreChained'
<1>1. tx.amount \in Amount /\ tx.id \in FundingId /\ tx.by \in Depositor /\ tx.nonce \in Nat
  BY DEF FundingTxs
<1>2. /\ fundingRoot \in Seq(FundingId) /\ claims \in [FundingId -> Optional(Claim)]
      /\ nonces \in [Depositor -> Nat] /\ FundingsAreChained
  BY DEF ChainedInv, ReserveShape, TcapTypeOK
<1>3. /\ Len(fundingRoot) \in Nat /\ Len(fundingRoot') = Len(fundingRoot) + 1
      /\ fundingRoot'[Len(fundingRoot) + 1] = tx.id
      /\ \A i \in 1..Len(fundingRoot) : fundingRoot'[i] = fundingRoot[i] /\ fundingRoot[i] \in FundingId
  BY <1>1, <1>2, LenProperties, AppendProperties, ElementOfSeq DEF LandFunding
<1> DEFINE claim == [depositor |-> tx.by, amount |-> tx.amount, nonce |-> tx.nonce,
                     sequence |-> Len(fundingRoot) + 1]
<1>4. /\ claim \in Claim /\ claim.depositor = tx.by /\ claim.nonce = tx.nonce
      /\ claim.sequence = Len(fundingRoot) + 1
  BY <1>1, <1>3 DEF Claim
<1>5. claims' = [claims EXCEPT ![tx.id] = claim]
  BY DEF LandFunding
<1> HIDE DEF claim
<1>6. /\ claims[tx.id] = NULL /\ claims'[tx.id] = claim /\ claim # NULL
      /\ \A f \in FundingId \ {tx.id} : claims'[f] = claims[f]
  BY <1>1, <1>2, <1>4, <1>5, AbsentAssumption DEF LandFunding
<1>7. /\ tx.nonce = nonces[tx.by] /\ nonces'[tx.by] = tx.nonce + 1
      /\ \A d \in Depositor \ {tx.by} : nonces'[d] = nonces[d]
  BY <1>1, <1>2 DEF LandFunding
<1>8. \A f \in FundingId : claims[f] # NULL =>
         /\ claims[f].depositor \in Depositor /\ claims[f].nonce \in Nat
         /\ nonces[claims[f].depositor] \in Nat
  BY <1>2 DEF Optional, Claim
<1>9. ASSUME NEW f \in FundingId, claims'[f] # NULL
      PROVE  /\ claims'[f].sequence \in 1..Len(fundingRoot')
             /\ fundingRoot'[claims'[f].sequence] = f
             /\ claims'[f].nonce < nonces'[claims'[f].depositor]
  <2>1. CASE f = tx.id
    BY <1>1, <1>3, <1>4, <1>6, <1>7, <2>1
  <2>2. CASE f # tx.id
    <3>1. claims'[f] = claims[f] /\ claims[f] # NULL
      BY <1>6, <1>9, <2>2
    <3>2. /\ claims[f].sequence \in 1..Len(fundingRoot) /\ fundingRoot[claims[f].sequence] = f
          /\ claims[f].nonce < nonces[claims[f].depositor]
      BY <1>2, <3>1 DEF FundingsAreChained
    <3>3. nonces[claims[f].depositor] <= nonces'[claims[f].depositor]
      BY <1>1, <1>7, <1>8, <3>1
    <3>4. nonces'[claims[f].depositor] \in Nat
      BY <1>1, <1>7, <1>8, <3>1
    <3> QED
      BY <1>3, <1>8, <3>1, <3>2, <3>3, <3>4
  <2> QED
    BY <2>1, <2>2
<1>10. ASSUME NEW i \in 1..Len(fundingRoot')
       PROVE  claims'[fundingRoot'[i]] # NULL /\ claims'[fundingRoot'[i]].sequence = i
  <2>1. CASE i = Len(fundingRoot) + 1
    BY <1>3, <1>4, <1>6, <2>1
  <2>2. CASE i \in 1..Len(fundingRoot)
    <3>1. claims[fundingRoot[i]] # NULL /\ claims[fundingRoot[i]].sequence = i
      BY <1>2, <2>2 DEF FundingsAreChained
    <3> QED
      BY <1>3, <1>6, <2>2, <3>1
  <2> QED
    BY <1>3, <2>1, <2>2
<1>11. ASSUME NEW f \in FundingId, NEW g \in FundingId, claims'[f] # NULL, claims'[g] # NULL,
              claims'[f].depositor = claims'[g].depositor, claims'[f].nonce = claims'[g].nonce
       PROVE  f = g
  <2>1. \A h \in FundingId \ {tx.id} : claims[h] # NULL /\ claims[h].depositor = tx.by
            => claims[h].nonce < tx.nonce
    BY <1>2, <1>7 DEF FundingsAreChained
  <2>2. \A h \in FundingId \ {tx.id} : claims[h] # NULL /\ claims[h].depositor = tx.by
            => claims[h].nonce # tx.nonce
    BY <1>1, <1>8, <2>1
  <2>3. CASE f = tx.id \/ g = tx.id
    BY <1>4, <1>6, <1>11, <2>2, <2>3
  <2>4. CASE f # tx.id /\ g # tx.id
    BY <1>2, <1>6, <1>11, <2>4 DEF FundingsAreChained
  <2> QED
    BY <2>3, <2>4
<1> QED
  BY <1>9, <1>10, <1>11 DEF FundingsAreChained

(* The funding root commits to every claim exactly once, at the sequence   *)
(* number the claim records, and a depositor's nonce makes one claim only: *)
(* a funding that is sent again, or prepared with a nonce another funding  *)
(* used meanwhile, changes nothing (deposit_with_funding_commitment_v2).   *)
THEOREM FundingsAreAlwaysChained == TcapSpec => []FundingsAreChained
<1>1. ChainedInv /\ [TcapNext]_vars => ChainedInv'
  <2> SUFFICES ASSUME ChainedInv, [TcapNext]_vars PROVE ChainedInv'
    OBVIOUS
  <2>1. ReserveShape /\ ReserveShape'
    BY ReserveStepShape DEF ChainedInv
  <2>2. ASSUME NEW tx \in outbox, tx.kind = "fund", LandFunding(tx) PROVE ChainedInv'
    <3>1. tx \in FundingTxs
      BY <2>1, <2>2, TxForms
    <3> QED
      BY <2>1, <2>2, <3>1, FundingChains DEF ChainedInv
  <2>3. CASE UNCHANGED fundingVars
    BY <2>1, <2>3 DEF ChainedInv, FundingsAreChained, fundingVars
  <2>4. UNCHANGED fundingVars \/ \E tx \in outbox : tx.kind = "fund" /\ LandFunding(tx)
    BY DEF TcapNext, DepositAsset, InitializeTip, InitializeTipLiability,
           InitializeLegacyLiability, Land, LandMemo, LandCredit, CreditTip, LandConsume,
           LandDebit, DebitTip, DebitElsewhere, Payout, PayoutElsewhere, Prepare, Expire, Gift, Govern, vars
  <2> QED
    BY <2>2, <2>3, <2>4
<1>2. ChainedInv => FundingsAreChained
  BY DEF ChainedInv
<1> QED
  BY <1>1, <1>2, ChainedInit, PTL DEF TcapSpec
=============================================================================
