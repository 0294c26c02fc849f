---------------------------- MODULE CrankerAuth ----------------------------
(***************************************************************************)
(* How the Receiver admits a Cranker (services/tsn-receiver/lib/           *)
(* cranker-auth.ts) and how the daemon keeps its session (receiverRequest  *)
(* in services/tsn-cranker-op-daemon/scripts/cranker.ts): a signed         *)
(* challenge buys a session, every request carries the session and a       *)
(* counter, leases are counted per minute, and whoever passes by deletes   *)
(* what is stale.                                                          *)
(*                                                                         *)
(* The Receiver serves several requests at a time; each reads the time and *)
(* queries the store before the transaction or the delete it prepares.     *)
(* The network may delay a message, deliver it again, or lose its answer.  *)
(*                                                                         *)
(* Abstractions.  Nonces and session ids are fresh random values: they are *)
(* positions in the sequence of all that were ever made, and a deleted     *)
(* document is marked gone.  Signatures and tokens are genuine, and an     *)
(* operator is registered (assertMotherDnaCranker) or its request fails.   *)
(* Fewer than a hundred documents are stale, so no query is cut off.       *)
(***************************************************************************)
EXTENDS Naturals, Sequences, FiniteSets

CONSTANTS
    Cranker,        \* Cranker operators, one daemon each
    Call,           \* requests the Receiver serves at a time
    NULL,
    ChallengeTTL,   \* CHALLENGE_TTL_MS, also how old a timestamp may be
    SessionTTL,     \* CRANKER_SESSION_TTL_MS
    IdleTTL,        \* CRANKER_SESSION_IDLE_TTL_MS and its twin in the daemon
    Margin,         \* time a cached session must still have (30 seconds)
    Minute,         \* length of a rate bucket
    MaxAttempts,    \* MAX_LEASE_ATTEMPTS_PER_MINUTE
    MaxClock,       \* bound: the clock stops here
    MaxChallenges,  \* bound: challenges issued
    MaxCounter,     \* bound: requests sent in a session
    MaxFaults       \* bound: failed fetches, repeated messages, restarts, failed handlers

ASSUME TimeAssumption ==
    /\ ChallengeTTL \in Nat \ {0} /\ IdleTTL \in Nat \ {0} /\ Margin \in Nat
    /\ SessionTTL \in Nat /\ SessionTTL > IdleTTL
    /\ Minute \in Nat \ {0}
ASSUME BoundAssumption ==
    /\ MaxAttempts \in Nat \ {0} /\ MaxClock \in Nat
    /\ MaxChallenges \in Nat /\ MaxCounter \in Nat /\ MaxFaults \in Nat

VARIABLES
    clock,
    challenges,  \* the challenges, by nonce
    sessions,    \* the sessions, by session id
    buckets,     \* buckets[b]: the rate document of bucket b
    call,        \* call[q]: the request served in slot q
    daemon,      \* daemon[c]: the daemon of operator c
    network,     \* messages on the way
    faults,      \* faults so far
    accepted,    \* history: accepted[s], the counters accepted in session s
    admitted     \* history: admitted[b], leases admitted to b in its own minute

vars == <<clock, challenges, sessions, buckets, call, daemon, network, faults, accepted,
          admitted>>
store == <<challenges, sessions, buckets, accepted, admitted>>

Optional(S) == S \cup {NULL}
Bucket == Cranker \X (0..(MaxClock \div Minute))
BucketAt(c, t) == <<c, t \div Minute>>

Challenge == [owner : Cranker, expiresAt : Nat, used : BOOLEAN, gone : BOOLEAN]
Session == [owner : Cranker, nonce : Nat, createdAt : Nat, expiresAt : Nat,
            lastSeenAt : Nat, lastCounter : Nat, gone : BOOLEAN]
RateLimit == [count : Nat, updatedAt : Nat]

(* What a daemon sends: it asks for a challenge, answers it, or makes a    *)
(* request in a session, for a lease or to report.                         *)
Ask == [kind : {"ask"}, owner : Cranker, timestamp : Nat]
Proof == [kind : {"proof"}, owner : Cranker, nonce : Nat, timestamp : Nat]
Request == [kind : {"request"}, owner : Cranker, session : Nat, counter : Nat,
            timestamp : Nat, lease : BOOLEAN]
Message == Ask \cup Proof \cup Request

ASSUME NullAssumption == NULL \notin Cranker \cup Message \cup RateLimit

Fault == faults < MaxFaults /\ faults' = faults + 1

(* A message is delivered, or a copy of it.                                *)
Delivered(m) ==
    \/ network' = network \ {m} /\ UNCHANGED faults
    \/ Fault /\ UNCHANGED network

ValidTimestamp(m) == clock <= m.timestamp + ChallengeTTL

-----------------------------------------------------------------------------
(* The daemon.                                                             *)

DaemonPC == {"idle", "challenge", "proof", "request"}
Daemon == [pc : DaemonPC, session : Nat, lastUsedAt : Nat, nextCounter : Nat,
           retried : BOOLEAN, lease : BOOLEAN, waiting : Optional(Message),
           served : BOOLEAN]

(* No session is session 0.  served is history: the request the daemon     *)
(* waits for was accepted.                                                 *)
Started == [pc |-> "idle", session |-> 0, lastUsedAt |-> 0, nextCounter |-> 1,
            retried |-> FALSE, lease |-> FALSE, waiting |-> NULL, served |-> FALSE]

Ended(d) == [d EXCEPT !.pc = "idle", !.retried = FALSE, !.lease = FALSE, !.waiting = NULL,
                      !.served = FALSE]

(* getSession: the cached session is used if it looks alive.               *)
Reusable(d) ==
    /\ d.session # 0
    /\ sessions[d.session].expiresAt > clock + Margin
    /\ clock < d.lastUsedAt + IdleTTL

(* The request proper: the counter is taken before anything can fail.      *)
RequestOf(c, d) ==
    [kind |-> "request", owner |-> c, session |-> d.session, counter |-> d.nextCounter,
     timestamp |-> clock, lease |-> d.lease]

Send(c, d) ==
    /\ network' = network \cup {RequestOf(c, d)}
    /\ daemon' = [daemon EXCEPT ![c] = [d EXCEPT !.pc = "request", !.waiting = RequestOf(c, d),
                                                 !.nextCounter = @ + 1]]

AskChallenge(c, d) ==
    LET m == [kind |-> "ask", owner |-> c, timestamp |-> clock] IN
    /\ network' = network \cup {m}
    /\ daemon' = [daemon EXCEPT ![c] = [d EXCEPT !.pc = "challenge", !.waiting = m]]

(* A poll or a report: receiverRequest is called.                          *)
Begin(c, lease) ==
    /\ daemon[c].pc = "idle"
    /\ LET d == [daemon[c] EXCEPT !.lease = lease] IN
       IF Reusable(d)
       THEN d.nextCounter <= MaxCounter /\ Send(c, d)
       ELSE AskChallenge(c, d)
    /\ UNCHANGED <<clock, faults, call, store>>

(* fetch throws: no connection, no answer.  A request that arrived is      *)
(* served all the same.                                                    *)
FetchFails(c) ==
    /\ Fault
    /\ daemon[c].pc \in {"challenge", "proof", "request"}
    /\ daemon' = [daemon EXCEPT ![c] = Ended(@)]
    /\ UNCHANGED <<clock, call, network, store>>

(* The daemon is restarted; the session is in its memory only.             *)
Restart(c) ==
    /\ Fault
    /\ daemon[c] # Started
    /\ daemon' = [daemon EXCEPT ![c] = Started]
    /\ UNCHANGED <<clock, call, network, store>>

(* The answers as the daemon takes them.  One that nobody waits for any    *)
(* more is dropped.                                                        *)
TakesNonce(m, n) ==
    LET c == m.owner
        proof == [kind |-> "proof", owner |-> c, nonce |-> n, timestamp |-> clock]
    IN
    IF daemon[c].waiting # m THEN UNCHANGED <<daemon, network>>
    ELSE /\ network' = network \cup {proof}
         /\ daemon' = [daemon EXCEPT ![c].pc = "proof", ![c].waiting = proof]

TakesSession(m, s) ==
    LET c == m.owner IN
    IF daemon[c].waiting # m THEN UNCHANGED <<daemon, network>>
    ELSE Send(c, [daemon[c] EXCEPT !.session = s, !.nextCounter = 1, !.lastUsedAt = clock])

Refused(m) ==
    LET c == m.owner IN
    daemon' = IF daemon[c].waiting # m THEN daemon ELSE [daemon EXCEPT ![c] = Ended(@)]

(* Any answer to a request, and a refusal of its session: the first one is *)
(* followed by a second attempt in a new session.                          *)
Answered(m) ==
    LET c == m.owner IN
    daemon' = IF daemon[c].waiting # m THEN daemon
              ELSE [daemon EXCEPT ![c] = [Ended(@) EXCEPT !.lastUsedAt = clock]]

SessionRefusal == {"CRANKER_SESSION_INVALID", "CRANKER_SESSION_EXPIRED"}

TakesVerdict(m, verdict) ==
    LET c == m.owner IN
    IF daemon[c].waiting = m /\ verdict \in SessionRefusal /\ ~daemon[c].retried
    THEN AskChallenge(c, [Started EXCEPT !.retried = TRUE, !.lease = daemon[c].lease])
    ELSE Answered(m) /\ UNCHANGED network

-----------------------------------------------------------------------------
(* The Receiver.                                                           *)

CallPC == {"free", "prune", "open", "authenticate", "unlist", "count"}
CallState ==
    [pc : CallPC, msg : Optional(Message), now : Nat,
     nonces : SUBSET Nat, ids : SUBSET Nat, rates : SUBSET Bucket]

Free == [pc |-> "free", msg |-> NULL, now |-> 0,
         nonces |-> {}, ids |-> {}, rates |-> {}]

Serves(m) == [Free EXCEPT !.msg = m]
Frees(q) == call' = [call EXCEPT ![q] = Free]

Stored(docs) == {i \in DOMAIN docs : ~docs[i].gone}

StaleChallenges(now) ==
    {n \in Stored(challenges) : challenges[n].used \/ challenges[n].expiresAt <= now}

StaleSessionsFresh(now) ==   \* fault: the idle limit is not subtracted
    {s \in Stored(sessions) : sessions[s].expiresAt <= now \/ sessions[s].lastSeenAt <= now}
StaleSessions(now) ==
    {s \in Stored(sessions) :
        sessions[s].expiresAt <= now \/ sessions[s].lastSeenAt + IdleTTL <= now}

(* issueCrankerChallenge: the prunes query before they delete.  (They read *)
(* the time a moment earlier; a later query for it finds no more.)         *)
ChallengeArrives(q, m) ==
    /\ call[q].pc = "free" /\ m.kind = "ask" /\ Delivered(m)
    /\ call' = [call EXCEPT ![q] = [Serves(m) EXCEPT !.pc = "prune",
                                                     !.nonces = StaleChallenges(clock),
                                                     !.ids = StaleSessions(clock)]]
    /\ UNCHANGED <<clock, daemon, store>>

PruneChallenge(q, n) ==
    /\ call[q].pc = "prune" /\ n \in call[q].nonces
    /\ challenges' = [challenges EXCEPT ![n].gone = TRUE]
    /\ call' = [call EXCEPT ![q].nonces = @ \ {n}]
    /\ UNCHANGED <<clock, faults, sessions, buckets, daemon, network, accepted, admitted>>

PruneSession(q, s) ==
    /\ call[q].pc = "prune" /\ s \in call[q].ids
    /\ sessions' = [sessions EXCEPT ![s].gone = TRUE]
    /\ call' = [call EXCEPT ![q].ids = @ \ {s}]
    /\ UNCHANGED <<clock, faults, challenges, buckets, daemon, network, accepted, admitted>>

IssueChallenge(q) ==
    LET m == call[q].msg IN
    /\ call[q].pc = "prune" /\ call[q].nonces = {} /\ call[q].ids = {}
    /\ Len(challenges) < MaxChallenges
    /\ challenges' = Append(challenges, [owner |-> m.owner, expiresAt |-> clock + ChallengeTTL,
                                         used |-> FALSE, gone |-> FALSE])
    /\ TakesNonce(m, Len(challenges) + 1)
    /\ Frees(q)
    /\ UNCHANGED <<clock, faults, sessions, buckets, accepted, admitted>>

(* issueCrankerSession: the challenge is consumed in a transaction, and    *)
(* the session, dated then, is created after it.                           *)
Usable(n, c) ==
    /\ ~challenges[n].gone /\ ~challenges[n].used
    /\ challenges[n].owner = c /\ clock < challenges[n].expiresAt

ConsumeTwice(q, m) ==   \* fault: the challenge is not marked used
    /\ call[q].pc = "free" /\ m.kind = "proof" /\ Delivered(m)
    /\ IF ValidTimestamp(m) /\ Usable(m.nonce, m.owner)
       THEN /\ call' = [call EXCEPT ![q] = [Serves(m) EXCEPT !.pc = "open", !.now = clock]]
            /\ UNCHANGED <<challenges, daemon>>
       ELSE Refused(m) /\ UNCHANGED <<call, challenges>>
    /\ UNCHANGED <<clock, sessions, buckets, accepted, admitted>>

Consume(q, m) ==
    /\ call[q].pc = "free" /\ m.kind = "proof" /\ Delivered(m)
    /\ IF ValidTimestamp(m) /\ Usable(m.nonce, m.owner)
       THEN /\ challenges' = [challenges EXCEPT ![m.nonce].used = TRUE]
            /\ call' = [call EXCEPT ![q] = [Serves(m) EXCEPT !.pc = "open", !.now = clock]]
            /\ UNCHANGED daemon
       ELSE Refused(m) /\ UNCHANGED <<call, challenges>>
    /\ UNCHANGED <<clock, sessions, buckets, accepted, admitted>>

NewSession(m, now) ==
    [owner |-> m.owner, nonce |-> m.nonce, createdAt |-> now,
     expiresAt |-> now + SessionTTL, lastSeenAt |-> now, lastCounter |-> 0,
     gone |-> FALSE]

OpenSession(q) ==
    LET m == call[q].msg IN
    /\ call[q].pc = "open"
    /\ sessions' = Append(sessions, NewSession(m, call[q].now))
    /\ accepted' = Append(accepted, <<>>)
    /\ TakesSession(m, Len(sessions) + 1)
    /\ Frees(q)
    /\ UNCHANGED <<clock, faults, challenges, buckets, admitted>>

(* authenticateCrankerRequest: the time is read before the transaction.    *)
RequestArrives(q, m) ==
    /\ call[q].pc = "free" /\ m.kind = "request" /\ Delivered(m)
    /\ IF ValidTimestamp(m)
       THEN /\ call' = [call EXCEPT ![q] = [Serves(m) EXCEPT !.pc = "authenticate",
                                                               !.now = clock]]
            /\ UNCHANGED daemon
       ELSE Answered(m) /\ UNCHANGED call
    /\ UNCHANGED <<clock, store>>

VerdictRepeated(m, now) ==   \* fault: the last counter is accepted again
    LET r == sessions[m.session] IN
    IF r.gone \/ r.owner # m.owner THEN "CRANKER_SESSION_INVALID"
    ELSE IF r.expiresAt <= now \/ now > r.lastSeenAt + IdleTTL THEN "CRANKER_SESSION_EXPIRED"
    ELSE IF m.counter < r.lastCounter THEN "CRANKER_REQUEST_REPLAYED"
    ELSE "OK"

Verdict(m, now) ==
    LET r == sessions[m.session] IN
    IF r.gone \/ r.owner # m.owner THEN "CRANKER_SESSION_INVALID"
    ELSE IF r.expiresAt <= now \/ now > r.lastSeenAt + IdleTTL THEN "CRANKER_SESSION_EXPIRED"
    ELSE IF m.counter <= r.lastCounter THEN "CRANKER_REQUEST_REPLAYED"
    ELSE "OK"

(* enforceCrankerLeaseRateLimit: stale buckets are found and deleted, and  *)
(* the bucket is computed, before the transaction that counts.             *)
StaleBucketsAtOnce(now) ==   \* fault: the minute is not subtracted
    {b \in DOMAIN buckets : buckets[b] # NULL /\ buckets[b].updatedAt <= now}
StaleBuckets(now) ==
    {b \in DOMAIN buckets : buckets[b] # NULL /\ buckets[b].updatedAt + Minute <= now}

Authenticate(q) ==
    LET m == call[q].msg
        verdict == Verdict(m, call[q].now)
    IN
    /\ call[q].pc = "authenticate"
    /\ IF verdict = "OK"
       THEN /\ sessions' = [sessions EXCEPT ![m.session].lastCounter = m.counter,
                                            ![m.session].lastSeenAt = call[q].now]
            /\ accepted' = [accepted EXCEPT ![m.session] = Append(@, m.counter)]
       ELSE UNCHANGED <<sessions, accepted>>
    /\ IF verdict = "OK" /\ m.lease
       THEN /\ call' = [call EXCEPT ![q].pc = "unlist", ![q].now = 0,
                                    ![q].rates = StaleBuckets(clock)]
            /\ daemon' = [daemon EXCEPT ![m.owner].served = @ \/ daemon[m.owner].waiting = m]
            /\ UNCHANGED network
       ELSE Frees(q) /\ TakesVerdict(m, verdict)
    /\ UNCHANGED <<clock, faults, challenges, buckets, admitted>>

PruneBucket(q, b) ==
    /\ call[q].pc = "unlist" /\ b \in call[q].rates
    /\ buckets' = [buckets EXCEPT ![b] = NULL]
    /\ call' = [call EXCEPT ![q].rates = @ \ {b}]
    /\ UNCHANGED <<clock, faults, challenges, sessions, daemon, network, accepted, admitted>>

ComputeBucket(q) ==
    /\ call[q].pc = "unlist" /\ call[q].rates = {}
    /\ call' = [call EXCEPT ![q].pc = "count", ![q].now = clock]
    /\ UNCHANGED <<clock, faults, daemon, network, store>>

(* The transaction may run when the minute of its bucket is over.          *)
CountLease(q) ==
    LET m == call[q].msg
        b == BucketAt(m.owner, call[q].now)
        count == IF buckets[b] = NULL THEN 0 ELSE buckets[b].count
    IN
    /\ call[q].pc = "count"
    /\ IF count < MaxAttempts
       THEN /\ buckets' = [buckets EXCEPT ![b] = [count |-> count + 1, updatedAt |-> clock]]
            /\ admitted' = [admitted EXCEPT ![b] = IF b = BucketAt(m.owner, clock)
                                                   THEN @ + 1 ELSE @]
       ELSE UNCHANGED <<buckets, admitted>>
    /\ Answered(m)
    /\ Frees(q)
    /\ UNCHANGED <<clock, faults, challenges, sessions, network, accepted>>

(* A handler throws: the RPC or the store is not available.                *)
CallFails(q) ==
    /\ Fault
    /\ call[q].pc # "free"
    /\ Frees(q)
    /\ LET m == call[q].msg IN IF m.kind = "request" THEN Answered(m) ELSE Refused(m)
    /\ UNCHANGED <<clock, network, store>>

Tick == clock < MaxClock /\ clock' = clock + 1 /\ UNCHANGED <<call, daemon, network, faults, store>>

-----------------------------------------------------------------------------
AuthInit ==
    /\ clock = 0
    /\ challenges = <<>> /\ sessions = <<>>
    /\ buckets = [b \in Bucket |-> NULL]
    /\ call = [q \in Call |-> Free]
    /\ daemon = [c \in Cranker |-> Started]
    /\ network = {}
    /\ faults = 0
    /\ accepted = <<>>
    /\ admitted = [b \in Bucket |-> 0]

DaemonStep(c) ==
    \/ \E lease \in BOOLEAN : Begin(c, lease)
    \/ FetchFails(c) \/ Restart(c)

ChallengeStep(q) ==
    \/ \E m \in network : ChallengeArrives(q, m)
    \/ \E n \in call[q].nonces : PruneChallenge(q, n)
    \/ \E s \in call[q].ids : PruneSession(q, s)
    \/ IssueChallenge(q)

SessionStep(q) == OpenSession(q) \/ \E m \in network : Consume(q, m)

RequestStep(q) ==
    \/ \E m \in network : RequestArrives(q, m)
    \/ Authenticate(q)
    \/ \E b \in call[q].rates : PruneBucket(q, b)
    \/ ComputeBucket(q) \/ CountLease(q)

AuthNext ==
    \/ \E c \in Cranker : DaemonStep(c)
    \/ \E q \in Call : ChallengeStep(q) \/ SessionStep(q) \/ RequestStep(q) \/ CallFails(q)
    \/ Tick

AuthSpec == AuthInit /\ [][AuthNext]_vars

-----------------------------------------------------------------------------
(* Properties.                                                             *)

(* The documents of cranker-auth.ts, the requests it serves and the state  *)
(* of the daemons have their types.                                        *)
AuthTypeOK ==
    /\ clock \in Nat
    /\ challenges \in Seq(Challenge)
    /\ sessions \in Seq(Session)
    /\ buckets \in [Bucket -> Optional(RateLimit)]
    /\ call \in [Call -> CallState]
    /\ daemon \in [Cranker -> Daemon]
    /\ network \subseteq Message
    /\ faults \in 0..MaxFaults
    /\ Len(accepted) = Len(sessions)
    /\ admitted \in [Bucket -> Nat]

(* A challenge buys one session, however often its answer is delivered and *)
(* whatever is pruned meanwhile (issueCrankerSession's transaction).       *)
ChallengesUsedOnce ==
    \A s, t \in DOMAIN sessions : sessions[s].nonce = sessions[t].nonce => s = t

(* The Receiver accepts the counters of a session in increasing order and  *)
(* none twice, though its requests are delivered late and repeatedly and   *)
(* authenticated concurrently (authenticateCrankerRequest).  What a route  *)
(* does once the request is accepted is not ordered: a lease awaits its    *)
(* rate limit and its transaction and may overtake another.                *)
AcceptedInOrder ==
    \A s \in DOMAIN accepted : \A i, j \in DOMAIN accepted[s] :
        i < j => accepted[s][i] < accepted[s][j]

(* The second attempt of receiverRequest is not refused for its session    *)
(* unless the session was idle for the whole idle limit by then: pruning   *)
(* that races with the daemon costs it one attempt, never two.             *)
RetryGetsThrough ==
    \A c \in Cranker :
        LET m == daemon[c].waiting IN
        daemon[c].pc = "request" /\ daemon[c].retried /\ Verdict(m, clock) \in SessionRefusal =>
            clock >= sessions[m.session].createdAt + IdleTTL

(* No more than MaxAttempts leases are admitted to a bucket during its     *)
(* minute: the concurrent prunes never forget a count that is still in use *)
(* (enforceCrankerLeaseRateLimit).  A request whose transaction runs after *)
(* its minute is over is counted in a bucket that may be gone.             *)
RateHolds == \A b \in Bucket : admitted[b] <= MaxAttempts

=============================================================================
