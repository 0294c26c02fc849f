--------------------------- MODULE PrivateSessions ---------------------------
(***************************************************************************)
(* Devices, private sessions and private requests (tsn-sdk authorization/,  *)
(* device/ and sessions/). The owner's wallet registers a device for some   *)
(* permissions; the device opens sessions and signs requests made in them;  *)
(* a server verifies each with several awaits and consumes its nonce last.  *)
(* What was verified is saved, or answered, by the caller in a later step.  *)
(*                                                                         *)
(* A message's number is its nonce. Signatures are honest, so what can go   *)
(* wrong is time, order, repetition and what changed in between. The stores *)
(* are the caller's: reading and saving are modelled from how they are used. *)
(* The older functions of device/index.ts and sessions/index.ts are not     *)
(* here: they return records of other types, validateDeviceAuthorization    *)
(* consumes no nonce and the others consume one only if they are asked to.  *)
(***************************************************************************)
EXTENDS Naturals, Sequences, FiniteSets

CONSTANTS
    Phone,             \* devices
    Scope,             \* permissions besides the one to open sessions
    MaxMessages,       \* bound on the messages signed
    MaxCopies,         \* bound on messages delivered once more
    MaxSessTime,       \* bound on the clock
    MessageLife,       \* validity of a challenge or a proof
    SessionLife,       \* longest session the server opens (maxTtlMs)
    MaxRevocations,    \* bound on revocations
    NoSession          \* the absent value

ASSUME SessionAssumption ==
    /\ MaxMessages \in Nat /\ MaxCopies \in Nat /\ MaxSessTime \in Nat
    /\ MessageLife \in Nat \ {0} /\ SessionLife \in Nat \ {0} /\ MaxRevocations \in Nat

VARIABLES
    sessClock,
    devices,       \* the registered devices
    sessions,      \* the sessions opened
    messages,      \* what was signed and sent
    deliveries,    \* the verifications of each message
    usedNonces,    \* nonces consumed
    revocations

sessVars == <<sessClock, devices, sessions, messages, deliveries, usedNonces, revocations>>

Allows(d, scope) == devices[d] # NoSession /\ devices[d].status = "active" /\ scope \in devices[d].scopes

-----------------------------------------------------------------------------
(* What is signed. *)

Arriving == [pc |-> "arrived", session |-> NoSession, wasAllowed |-> FALSE]

SignMessage(m) ==
    /\ Len(messages) < MaxMessages
    /\ messages' = Append(messages, m)
    /\ deliveries' = Append(deliveries, <<Arriving>>)
    /\ UNCHANGED <<sessClock, devices, sessions, usedNonces, revocations>>

Message(kind, d, scopes, session, life) ==
    [kind |-> kind, device |-> d, scopes |-> scopes, session |-> session,
     issuedAt |-> sessClock, expiresAt |-> sessClock + MessageLife,
     until |-> sessClock + life]

\* createDeviceRegistrationChallenge and authorizeDevice: the challenge's nonce
\* and times are signed with the permissions
AuthorizePhone(d, scopes) == SignMessage(Message("register", d, scopes, NoSession, 0))

\* a session the device asks for, which is to last for life, with its proof of
\* possession
AskForSession(d, scopes, life) == SignMessage(Message("session", d, scopes, NoSession, life))

\* signSessionProof for a request made in session s
AskInSession(s, scope) == SignMessage(Message("request", sessions[s].device, {scope}, s, 0))

-----------------------------------------------------------------------------
(* Verification. *)

Copies == Cardinality({i \in DOMAIN deliveries : Len(deliveries[i]) > 1})

\* the message arrives a second time
Duplicate(i) ==
    /\ Len(deliveries[i]) = 1 /\ Copies < MaxCopies
    /\ deliveries' = [deliveries EXCEPT ![i] = Append(@, Arriving)]
    /\ UNCHANGED <<sessClock, devices, sessions, messages, usedNonces, revocations>>

InTime(m) == m.issuedAt <= sessClock /\ sessClock < m.expiresAt

Move(i, k, pc) == deliveries' = [deliveries EXCEPT ![i][k].pc = pc]

\* verifyTransientOwnerAuthorization, and the wait for the owner's check on chain
VerifyRegistration(i, k) ==
    /\ messages[i].kind = "register" /\ deliveries[i][k].pc = "arrived"
    /\ Move(i, k, IF InTime(messages[i]) /\ messages[i].scopes # {} THEN "consume" ELSE "rejected")
    /\ UNCHANGED <<sessClock, devices, sessions, messages, usedNonces, revocations>>

\* the session ends after now, and not too long after it was asked for
TimingIsValid(m) == sessClock < m.until /\ m.until - m.issuedAt <= SessionLife

\* verifyTsnPrivateSessionCreation up to its nonce
VerifyCreation(i, k) ==
    LET m == messages[i]
    IN  /\ m.kind = "session" /\ deliveries[i][k].pc = "arrived"
        /\ Move(i, k, IF /\ InTime(m)
                         /\ Allows(m.device, "create")
                         /\ m.scopes # {} /\ m.scopes \subseteq devices[m.device].scopes
                         /\ TimingIsValid(m)
                      THEN "consume" ELSE "rejected")
        /\ UNCHANGED <<sessClock, devices, sessions, messages, usedNonces, revocations>>

\* verifyTsnAuthorizedPrivateRequest up to the wait for the device
FindSession(i, k) ==
    LET m == messages[i]
        s == sessions[m.session]
    IN  /\ m.kind = "request" /\ deliveries[i][k].pc = "arrived"
        /\ deliveries' = [deliveries EXCEPT ![i][k] =
               IF s.status = "active" /\ m.scopes \subseteq s.scopes
               THEN [pc |-> "device", session |-> s,
                     wasAllowed |-> \A x \in m.scopes : Allows(s.device, x)]
               ELSE [@ EXCEPT !.pc = "rejected"]]
        /\ UNCHANGED <<sessClock, devices, sessions, messages, usedNonces, revocations>>

\* fault: the session's status is trusted for the device's
ProofIsValidUnlessExpired(m, s) == InTime(m) /\ sessClock < s.expiresAt

\* verifySessionProof, whose nonce callback always says yes here
ProofIsValid(m, s) ==
    /\ InTime(m)
    /\ sessClock < s.expiresAt
    /\ devices[s.device].status = "active"

\* the device is read, then the proof is checked against both records
FindDevice(i, k) ==
    LET m == messages[i]
        s == deliveries[i][k].session
    IN  /\ m.kind = "request" /\ deliveries[i][k].pc = "device"
        /\ Move(i, k, IF /\ devices[s.device] # NoSession
                         /\ m.scopes \subseteq devices[s.device].scopes
                         /\ ProofIsValid(m, s)
                      THEN "consume" ELSE "rejected")
        /\ UNCHANGED <<sessClock, devices, sessions, messages, usedNonces, revocations>>

\* fault: the callback inside verifySessionProof is taken for the real one
NonceIsNewAlways(i) == TRUE

NonceIsNew(i) == i \notin usedNonces

\* the nonce is consumed last, by an atomic insert, and the verifier returns
Consume(i, k) ==
    /\ deliveries[i][k].pc = "consume"
    /\ IF NonceIsNew(i)
       THEN usedNonces' = usedNonces \cup {i} /\ Move(i, k, "passed")
       ELSE Move(i, k, "rejected") /\ UNCHANGED usedNonces
    /\ UNCHANGED <<sessClock, devices, sessions, messages, revocations>>

NewSession(m) ==
    [device |-> m.device, scopes |-> m.scopes, expiresAt |-> m.until, status |-> "active"]

\* a verification in progress notes a registration that allows what it is about
Noted(ds) ==
    [i \in DOMAIN ds |-> [k \in DOMAIN ds[i] |->
        IF messages[i].kind = "request" /\ ds[i][k].pc \in {"device", "consume"}
        THEN [ds[i][k] EXCEPT !.wasAllowed =
                 @ \/ LET r == devices'[ds[i][k].session.device]
                      IN  r # NoSession /\ r.status = "active" /\ messages[i].scopes \subseteq r.scopes]
        ELSE ds[i][k]]]

\* the caller saves what the verifier returned, a device or a session, or
\* answers the request
Save(i, k) ==
    LET m == messages[i]
    IN  /\ deliveries[i][k].pc = "passed"
        /\ devices' = IF m.kind = "register"
                      THEN [devices EXCEPT ![m.device] = [status |-> "active", scopes |-> m.scopes]]
                      ELSE devices
        /\ sessions' = IF m.kind = "session" THEN Append(sessions, NewSession(m)) ELSE sessions
        /\ deliveries' = Noted([deliveries EXCEPT ![i][k].pc = "accepted"])
        /\ UNCHANGED <<sessClock, messages, usedNonces, revocations>>

-----------------------------------------------------------------------------

RevokePhone(d) ==
    /\ Allows(d, "create") /\ revocations < MaxRevocations
    /\ devices' = [devices EXCEPT ![d].status = "revoked"]
    /\ revocations' = revocations + 1
    /\ UNCHANGED <<sessClock, sessions, messages, deliveries, usedNonces>>

RevokeSession(s) ==
    /\ sessions[s].status = "active" /\ revocations < MaxRevocations
    /\ sessions' = [sessions EXCEPT ![s].status = "revoked"]
    /\ revocations' = revocations + 1
    /\ UNCHANGED <<sessClock, devices, messages, deliveries, usedNonces>>

SessTick ==
    /\ sessClock < MaxSessTime
    /\ sessClock' = sessClock + 1
    /\ UNCHANGED <<devices, sessions, messages, deliveries, usedNonces, revocations>>

SessInit ==
    /\ sessClock = 0
    \* a device may have been registered before, for everything
    /\ devices \in [Phone -> {NoSession, [status |-> "active", scopes |-> Scope \cup {"create"}]}]
    /\ sessions = <<>> /\ messages = <<>> /\ deliveries = <<>>
    /\ usedNonces = {} /\ revocations = 0

SessNext ==
    \/ \E d \in Phone, scopes \in SUBSET Scope : AuthorizePhone(d, scopes \cup {"create"})
    \/ \E d \in Phone, scopes \in (SUBSET Scope) \ {{}}, life \in 1 .. SessionLife + 1 :
           AskForSession(d, scopes, life)
    \/ \E d \in Phone : RevokePhone(d)
    \/ \E s \in DOMAIN sessions, scope \in Scope : AskInSession(s, scope)
    \/ \E s \in DOMAIN sessions : RevokeSession(s)
    \/ \E i \in DOMAIN messages : Duplicate(i)
    \/ \E i \in DOMAIN messages : \E k \in DOMAIN deliveries[i] :
           \/ VerifyRegistration(i, k) \/ VerifyCreation(i, k) \/ FindSession(i, k)
           \/ FindDevice(i, k) \/ Consume(i, k) \/ Save(i, k)
    \/ SessTick

SessSpec == SessInit /\ [][SessNext]_sessVars

-----------------------------------------------------------------------------

(* However often a signed message arrives and however the verifications of *)
(* its copies interleave, at most one of them passes, so that no device is   *)
(* registered, no session opened and no request answered twice; and its     *)
(* nonce is spent by that one, never by a verification that rejects: a copy *)
(* rejected while the device was not active, or for its session, does not   *)
(* cost the owner the message.                                              *)
NoncesWorkOnce ==
    \A i \in DOMAIN messages :
        LET through == {k \in DOMAIN deliveries[i] : deliveries[i][k].pc \in {"passed", "accepted"}}
        IN  (\A j, k \in through : j = k) /\ (i \in usedNonces <=> through # {})

(* A private request is answered only if the device was active and held the *)
(* permission at some moment after the request arrived. Sessions outlive    *)
(* the revocation or narrowing of their device, and may even be opened by a *)
(* verification that the revocation overtook: only reading the device again *)
(* for each request keeps them from being used.                             *)
AnsweredWhenAllowed ==
    \A i \in DOMAIN messages : \A k \in DOMAIN deliveries[i] :
        messages[i].kind = "request" /\ deliveries[i][k].pc \in {"passed", "accepted"}
            => deliveries[i][k].wasAllowed

=============================================================================
