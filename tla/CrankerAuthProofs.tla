------------------------- MODULE CrankerAuthProofs -------------------------
(***************************************************************************)
(* Proofs about CrankerAuth, for every set of Crankers and of concurrent   *)
(* requests, every time limit and every bound.                             *)
(***************************************************************************)
EXTENDS CrankerAuth, SequenceTheorems, TLAPS

Nonces == 1..Len(challenges)
SessionIds == 1..Len(sessions)

(* An answered challenge was issued, and a request is made in a session of *)
(* its sender's.                                                           *)
MessageSound(m) ==
    /\ m.kind = "proof" => m.nonce \in Nonces
    /\ m.kind = "request" => m.session \in SessionIds /\ sessions[m.session].owner = m.owner

(* A daemon's session is its own, and it waits for its own message.        *)
DaemonSound(c, d) ==
    /\ d.session # 0 => d.session \in SessionIds /\ sessions[d.session].owner = c
    /\ d.waiting # NULL => d.waiting.owner = c /\ MessageSound(d.waiting)
    /\ d.pc = "request" => d.waiting \in Request

(* Old enough to be deleted: nobody may rely on it any more.               *)
Aged(s) == s \in SessionIds /\ sessions[s].createdAt + IdleTTL <= clock
Over(b) == b \in Bucket /\ b[2] < clock \div Minute

(* What a handler has read and carries to its next step.                   *)
CallSound(k) ==
    /\ k.now <= clock
    /\ k.nonces \subseteq Nonces
    /\ \A s \in k.ids : Aged(s)
    /\ \A b \in k.rates : Over(b)
    /\ k.pc # "free" => k.msg \in Message /\ MessageSound(k.msg)
    /\ k.pc = "prune" => k.msg.kind = "ask"
    /\ k.pc = "open" => k.msg.kind = "proof" /\ challenges[k.msg.nonce].used
    /\ k.pc \in {"authenticate", "unlist", "count"} => k.msg.kind = "request"
    /\ k.pc = "authenticate" => sessions[k.msg.session].createdAt <= k.now

SessionSound(s) ==
    LET r == sessions[s] IN
    /\ r.nonce \in Nonces /\ challenges[r.nonce].used
    /\ r.createdAt <= clock /\ r.createdAt <= r.lastSeenAt
    /\ r.expiresAt = r.createdAt + SessionTTL
    /\ r.gone => Aged(s)

ClientsSound ==
    /\ network \subseteq Message /\ \A m \in network : MessageSound(m)
    /\ daemon \in [Cranker -> Daemon] /\ \A c \in Cranker : DaemonSound(c, daemon[c])

CallsSound == call \in [Call -> CallState] /\ \A q \in Call : CallSound(call[q])

SessionsSound ==
    /\ challenges \in Seq(Challenge)
    /\ sessions \in Seq(Session) /\ \A s \in SessionIds : SessionSound(s)

(* A consumed challenge that has no session yet is in the hands of one     *)
(* handler.                                                                *)
OpensOnce ==
    \A q \in Call : call[q].pc = "open" =>
        /\ \A s \in SessionIds : sessions[s].nonce # call[q].msg.nonce
        /\ \A r \in Call : call[r].pc = "open" /\ call[r].msg.nonce = call[q].msg.nonce => r = q

(* The counters accepted in a session increase up to the last one.         *)
AcceptedUpTo(a, n) ==
    /\ \A i \in 1..Len(a) : a[i] <= n
    /\ \A i, j \in 1..Len(a) : i < j => a[i] < a[j]
AcceptedSound ==
    /\ accepted \in Seq(Seq(Nat)) /\ Len(accepted) = Len(sessions)
    /\ \A s \in SessionIds : AcceptedUpTo(accepted[s], sessions[s].lastCounter)

(* While its minute lasts, a bucket's document knows of every admission.   *)
Count(b) == IF buckets[b] = NULL THEN 0 ELSE buckets[b].count
RateSound(b) ==
    /\ Count(b) <= MaxAttempts
    /\ admitted[b] <= MaxAttempts
    /\ b[2] >= clock \div Minute => admitted[b] <= Count(b)
    /\ buckets[b] # NULL => b[2] <= buckets[b].updatedAt \div Minute
RatesSound ==
    /\ buckets \in [Bucket -> Optional(RateLimit)] /\ admitted \in [Bucket -> Nat]
    /\ \A b \in Bucket : RateSound(b)

AuthInv ==
    /\ clock \in 0..MaxClock /\ faults \in 0..MaxFaults
    /\ ClientsSound /\ CallsSound /\ SessionsSound
    /\ OpensOnce /\ ChallengesUsedOnce
    /\ AcceptedSound /\ RatesSound

-----------------------------------------------------------------------------
(* Data.                                                                   *)

LEMMA DivMonotone ==
  ASSUME NEW t \in Nat, NEW u \in Nat
  PROVE  /\ t \div Minute \in Nat
         /\ t <= u => t \div Minute <= u \div Minute
         /\ t + Minute <= u => t \div Minute < u \div Minute
  BY TimeAssumption, Z3

LEMMA BucketType ==
  ASSUME NEW c \in Cranker, NEW t \in 0..MaxClock
  PROVE  /\ BucketAt(c, t) \in Bucket
         /\ BucketAt(c, t)[2] = t \div Minute
<1>1. t \div Minute \in 0..(MaxClock \div Minute)
  BY DivMonotone, BoundAssumption
<1> QED
  BY <1>1 DEF BucketAt, Bucket

LEMMA MessageKinds ==
  ASSUME NEW m \in Message
  PROVE  /\ m.owner \in Cranker /\ m # NULL
         /\ m.kind \in {"ask", "proof", "request"}
         /\ m.kind = "proof" => m \in Proof
         /\ m.kind = "request" => m \in Request
  BY NullAssumption DEF Message, Ask, Proof, Request

LEMMA StartedType == Started \in Daemon
  BY DEF Started, Daemon, DaemonPC, Optional

LEMMA EndedType ==
  ASSUME NEW d \in Daemon
  PROVE  /\ Ended(d) \in Daemon
         /\ Ended(d).session = d.session /\ Ended(d).waiting = NULL
         /\ Ended(d).pc = "idle"
  BY DEF Ended, Daemon, DaemonPC, Optional

LEMMA FreeType == Free \in CallState
  BY DEF Free, CallState, CallPC, Optional

LEMMA RequestType ==
  ASSUME NEW c \in Cranker, NEW d \in Daemon, clock \in Nat
  PROVE  /\ RequestOf(c, d) \in Request /\ RequestOf(c, d) \in Message
         /\ RequestOf(c, d).owner = c /\ RequestOf(c, d).session = d.session
         /\ RequestOf(c, d).kind = "request"
<1>1. d.session \in Nat /\ d.nextCounter \in Nat /\ d.lease \in BOOLEAN
  BY DEF Daemon
<1>2. RequestOf(c, d) \in Request
  BY <1>1, Zenon DEF RequestOf, Request
<1> QED
  BY <1>2 DEF RequestOf, Message

-----------------------------------------------------------------------------
(* Challenges and sessions are only added, marked used and marked gone.    *)

Grows ==
    /\ clock \in Nat /\ clock' \in Nat /\ clock <= clock'
    /\ Len(challenges) \in Nat /\ Len(challenges)' \in Nat
    /\ Len(challenges) <= Len(challenges)'
    /\ \A n \in Nonces : challenges[n].used => challenges'[n].used
    /\ Len(sessions) \in Nat /\ Len(sessions)' \in Nat
    /\ Len(sessions) <= Len(sessions)'
    /\ \A s \in SessionIds : /\ sessions'[s].owner = sessions[s].owner
                             /\ sessions'[s].createdAt = sessions[s].createdAt
                             /\ sessions'[s].nonce = sessions[s].nonce

LEMMA GrowsFrame ==
  ASSUME AuthInv, UNCHANGED <<challenges, sessions>>, clock' \in Nat, clock <= clock'
  PROVE  Grows
<1>1. Len(challenges) \in Nat /\ Len(sessions) \in Nat /\ clock \in Nat
  BY BoundAssumption DEF AuthInv, SessionsSound
<1>2. Len(challenges)' = Len(challenges) /\ Len(sessions)' = Len(sessions)
  OBVIOUS
<1> QED
  BY <1>1, <1>2 DEF Grows

LEMMA IdsGrow ==
  ASSUME Grows
  PROVE  Nonces \subseteq Nonces' /\ SessionIds \subseteq SessionIds'
  BY DEF Grows, Nonces, SessionIds

LEMMA MessageKept ==
  ASSUME Grows, NEW m, MessageSound(m)
  PROVE  MessageSound(m)'
  BY IdsGrow DEF Grows, MessageSound

LEMMA DaemonKept ==
  ASSUME Grows, NEW c, NEW d, DaemonSound(c, d)
  PROVE  DaemonSound(c, d)'
  BY IdsGrow, MessageKept DEF Grows, DaemonSound

LEMMA AgedKept ==
  ASSUME Grows, AuthInv, NEW s, Aged(s)
  PROVE  Aged(s)'
<1>1. s \in SessionIds /\ sessions[s] \in Session
  BY DEF Aged, SessionIds, AuthInv, SessionsSound
<1>2. sessions[s].createdAt \in Nat /\ IdleTTL \in Nat
  BY <1>1, TimeAssumption DEF Session
<1> QED
  BY <1>1, <1>2, IdsGrow DEF Grows, Aged

LEMMA OverKept ==
  ASSUME Grows, NEW b, Over(b)
  PROVE  Over(b)'
<1>1. b[2] \in Nat
  BY DEF Over, Bucket
<1>2. clock \div Minute <= clock' \div Minute /\ clock \div Minute \in Nat /\ clock' \div Minute \in Nat
  BY DivMonotone DEF Grows
<1> QED
  BY <1>1, <1>2 DEF Over, Bucket

LEMMA CallKept ==
  ASSUME Grows, AuthInv, NEW k \in CallState, CallSound(k)
  PROVE  CallSound(k)'
<1>1. k.now \in Nat /\ k.now <= clock'
  BY DEF CallState, CallSound, Grows
<1>2. k.nonces \subseteq Nonces'
  BY IdsGrow DEF CallSound
<1>3. (\A s \in k.ids : Aged(s)') /\ (\A b \in k.rates : Over(b)')
  BY AgedKept, OverKept DEF CallSound
<1>4. k.pc # "free" => k.msg \in Message /\ MessageSound(k.msg)'
  BY MessageKept DEF CallSound
<1>5. k.pc = "open" => challenges'[k.msg.nonce].used
  BY DEF CallSound, MessageSound, Grows
<1>6. k.pc = "authenticate" => sessions'[k.msg.session].createdAt <= k.now
  BY DEF CallSound, MessageSound, Grows
<1> QED
  BY <1>1, <1>2, <1>3, <1>4, <1>5, <1>6 DEF CallSound

(* Parts of the invariant that a step leaves alone.                        *)
LEMMA DaemonsFrame ==
  ASSUME AuthInv, Grows, daemon' = daemon
  PROVE  daemon' \in [Cranker -> Daemon] /\ \A c \in Cranker : DaemonSound(c, daemon[c])'
  BY DaemonKept DEF AuthInv, ClientsSound

LEMMA NetworkFrame ==
  ASSUME AuthInv, Grows, network' \subseteq network
  PROVE  network' \subseteq Message /\ \A m \in network' : MessageSound(m)'
  BY MessageKept DEF AuthInv, ClientsSound

(* A daemon's new state is sound, and so are the others'.                  *)
LEMMA NewDaemon ==
  ASSUME AuthInv, Grows, NEW c \in Cranker, NEW d \in Daemon, DaemonSound(c, d)',
         daemon' = [daemon EXCEPT ![c] = d]
  PROVE  daemon' \in [Cranker -> Daemon] /\ \A e \in Cranker : DaemonSound(e, daemon[e])'
<1>1. daemon \in [Cranker -> Daemon]
  BY DEF AuthInv, ClientsSound
<1>2. \A e \in Cranker : e # c => DaemonSound(e, daemon[e])'
  <2> SUFFICES ASSUME NEW e \in Cranker, e # c
               PROVE  DaemonSound(e, daemon[e])'
    OBVIOUS
  <2>1. daemon'[e] = daemon[e]
    BY <1>1
  <2> QED
    BY <2>1, DaemonKept DEF AuthInv, ClientsSound
<1>3. daemon'[c] = d
  BY <1>1
<1> QED
  BY <1>1, <1>2, <1>3

LEMMA NewCall ==
  ASSUME AuthInv, Grows, NEW q \in Call, NEW k \in CallState, CallSound(k)',
         call' = [call EXCEPT ![q] = k]
  PROVE  CallsSound'
<1>1. call \in [Call -> CallState]
  BY DEF AuthInv, CallsSound
<1>2. ASSUME NEW r \in Call, r # q
      PROVE  CallSound(call[r])'
  <2>1. call'[r] = call[r] /\ call[r] \in CallState
    BY <1>1, <1>2
  <2> QED
    BY <2>1, CallKept DEF AuthInv, CallsSound
<1>3. call'[q] = k
  BY <1>1
<1> QED
  BY <1>1, <1>2, <1>3 DEF CallsSound

LEMMA CallsFrame ==
  ASSUME AuthInv, Grows, call' = call
  PROVE  CallsSound'
  BY CallKept DEF AuthInv, CallsSound

LEMMA FreeCall ==
  ASSUME AuthInv, Grows, NEW q \in Call, Frees(q)
  PROVE  CallsSound'
<1>1. CallSound(Free)'
  BY DEF CallSound, Free, Grows
<1> QED
  BY <1>1, FreeType, NewCall DEF Frees

-----------------------------------------------------------------------------
(* The daemon's steps, within whatever step of the Receiver they are taken. *)

LEMMA MoreMessages ==
  ASSUME AuthInv, Grows, NEW m \in Message, MessageSound(m)', network' = network \cup {m}
  PROVE  network' \subseteq Message /\ \A x \in network' : MessageSound(x)'
  BY MessageKept DEF AuthInv, ClientsSound

LEMMA SendSound ==
  ASSUME AuthInv, Grows, NEW c \in Cranker, NEW d \in Daemon, Send(c, d),
         d.session \in SessionIds', sessions'[d.session].owner = c
  PROVE  ClientsSound'
<1> DEFINE m == RequestOf(c, d)
           e == [d EXCEPT !.pc = "request", !.waiting = m, !.nextCounter = @ + 1]
<1>1. m \in Request /\ m \in Message /\ m.owner = c /\ m.session = d.session /\ m.kind = "request"
  BY RequestType DEF Grows
<1> HIDE DEF m
<1>2. \A x : x = m => MessageSound(x)'
  BY <1>1 DEF MessageSound
<1> DEFINE n == d.nextCounter + 1
<1>0. n \in Nat
  BY DEF Daemon
<1> HIDE DEF n
<1>3. [d EXCEPT !.pc = "request", !.waiting = m, !.nextCounter = n] \in Daemon
  BY <1>0, <1>1 DEF Daemon, DaemonPC, Optional
<1>4. e \in Daemon /\ e.session = d.session /\ e.waiting = m
  BY <1>3 DEF Daemon, n
<1>5. \A x : x = e => DaemonSound(c, x)'
  BY <1>1, <1>2, <1>4 DEF DaemonSound
<1>6. network' = network \cup {m} /\ daemon' = [daemon EXCEPT ![c] = e]
  BY DEF Send, m
<1> HIDE DEF e
<1>7. network' \subseteq Message /\ \A x \in network' : MessageSound(x)'
  BY <1>1, <1>2, <1>6, MoreMessages
<1>8. daemon' \in [Cranker -> Daemon] /\ \A x \in Cranker : DaemonSound(x, daemon[x])'
  BY <1>4, <1>5, <1>6, NewDaemon
<1> QED
  BY <1>7, <1>8 DEF ClientsSound

LEMMA AskSound ==
  ASSUME AuthInv, Grows, NEW c \in Cranker, NEW d \in Daemon, AskChallenge(c, d),
         d.session # 0 => d.session \in SessionIds' /\ sessions'[d.session].owner = c
  PROVE  ClientsSound'
<1> DEFINE m == [kind |-> "ask", owner |-> c, timestamp |-> clock]
           e == [d EXCEPT !.pc = "challenge", !.waiting = m]
<1>1. m \in Message /\ m.owner = c /\ m.kind = "ask"
  BY DEF Grows, Message, Ask
<1>2. network' = network \cup {m} /\ daemon' = [daemon EXCEPT ![c] = e]
  BY DEF AskChallenge
<1> HIDE DEF m
<1>3. \A x : x = m => MessageSound(x)'
  BY <1>1 DEF MessageSound
<1>4. e \in Daemon
  BY <1>1 DEF Daemon, DaemonPC, Optional
<1>5. e.session = d.session /\ e.waiting = m /\ e.pc = "challenge"
  BY DEF Daemon
<1>6. \A x : x = e => DaemonSound(c, x)'
  BY <1>1, <1>3, <1>5 DEF DaemonSound
<1> HIDE DEF e
<1>7. network' \subseteq Message /\ \A x \in network' : MessageSound(x)'
  BY <1>1, <1>2, <1>3, MoreMessages
<1>8. daemon' \in [Cranker -> Daemon] /\ \A x \in Cranker : DaemonSound(x, daemon[x])'
  BY <1>2, <1>4, <1>6, NewDaemon
<1> QED
  BY <1>7, <1>8 DEF ClientsSound

LEMMA TakesNonceSound ==
  ASSUME AuthInv, Grows, NEW m \in Message, NEW n \in Nonces', TakesNonce(m, n)
  PROVE  ClientsSound'
<1> DEFINE c == m.owner
           p == [kind |-> "proof", owner |-> c, nonce |-> n, timestamp |-> clock]
           e == [daemon[c] EXCEPT !.pc = "proof", !.waiting = p]
<1>1. CASE UNCHANGED <<daemon, network>>
  BY <1>1, DaemonsFrame, NetworkFrame DEF ClientsSound
<1>2. CASE /\ network' = network \cup {p}
           /\ daemon' = [daemon EXCEPT ![c].pc = "proof", ![c].waiting = p]
  <2>1. c \in Cranker /\ n \in Nat
    BY MessageKinds DEF Nonces, Grows
  <2>2. p \in Message /\ p.owner = c /\ p.kind = "proof" /\ p.nonce = n
    BY <2>1 DEF Grows, Message, Proof
  <2>3. daemon[c] \in Daemon /\ DaemonSound(c, daemon[c])
    BY <2>1 DEF AuthInv, ClientsSound
  <2>4. daemon' = [daemon EXCEPT ![c] = e]
    BY <1>2
  <2> HIDE DEF p
  <2>5. \A x : x = p => MessageSound(x)'
    BY <2>2 DEF MessageSound
  <2>6. e \in Daemon /\ e.session = daemon[c].session /\ e.waiting = p /\ e.pc = "proof"
    BY <2>2, <2>3 DEF Daemon, DaemonPC, Optional
  <2>7. \A x : x = e => DaemonSound(c, x)'
    BY <2>2, <2>3, <2>5, <2>6, IdsGrow DEF DaemonSound, Grows
  <2> HIDE DEF e, c
  <2>8. network' \subseteq Message /\ \A x \in network' : MessageSound(x)'
    BY <1>2, <2>2, <2>5, MoreMessages
  <2>9. daemon' \in [Cranker -> Daemon] /\ \A x \in Cranker : DaemonSound(x, daemon[x])'
    BY <2>1, <2>4, <2>6, <2>7, NewDaemon
  <2> QED
    BY <2>8, <2>9 DEF ClientsSound
<1> QED
  BY <1>1, <1>2 DEF TakesNonce

LEMMA TakesSessionSound ==
  ASSUME AuthInv, Grows, NEW m \in Message, NEW s \in SessionIds', TakesSession(m, s),
         sessions'[s].owner = m.owner
  PROVE  ClientsSound'
<1> DEFINE c == m.owner
           d == [daemon[c] EXCEPT !.session = s, !.nextCounter = 1, !.lastUsedAt = clock]
<1>1. CASE UNCHANGED <<daemon, network>>
  BY <1>1, DaemonsFrame, NetworkFrame DEF ClientsSound
<1>2. CASE Send(c, d)
  <2>1. c \in Cranker /\ s \in Nat /\ clock \in Nat
    BY MessageKinds DEF SessionIds, Grows
  <2>2. d \in Daemon /\ d.session = s
    BY <2>1 DEF AuthInv, ClientsSound, Daemon
  <2> HIDE DEF d
  <2> QED
    BY <1>2, <2>1, <2>2, SendSound
<1> QED
  BY <1>1, <1>2 DEF TakesSession

(* The daemon stops waiting and keeps its session.                         *)
LEMMA StopsWaiting ==
  ASSUME AuthInv, Grows, NEW c \in Cranker, NEW t \in Nat,
         \/ daemon' = daemon
         \/ daemon' = [daemon EXCEPT ![c] = Ended(@)]
         \/ daemon' = [daemon EXCEPT ![c] = [Ended(@) EXCEPT !.lastUsedAt = t]],
         network' \subseteq network
  PROVE  ClientsSound'
<1> DEFINE d == Ended(daemon[c])
           e == [d EXCEPT !.lastUsedAt = t]
<1>1. daemon[c] \in Daemon /\ DaemonSound(c, daemon[c])
  BY DEF AuthInv, ClientsSound
<1>2. d \in Daemon /\ d.session = daemon[c].session /\ d.waiting = NULL /\ d.pc = "idle"
  BY <1>1, EndedType
<1>3. daemon' = daemon \/ daemon' = [daemon EXCEPT ![c] = d] \/ daemon' = [daemon EXCEPT ![c] = e]
  BY DEF AuthInv, ClientsSound
<1> HIDE DEF d
<1>4. e \in Daemon /\ e.session = d.session /\ e.waiting = NULL /\ e.pc = "idle"
  BY <1>2 DEF Daemon
<1> HIDE DEF e
<1>5. \A x : x.session = d.session /\ x.waiting = NULL /\ x.pc = "idle" => DaemonSound(c, x)'
  BY <1>1, <1>2, IdsGrow DEF DaemonSound, Grows
<1>6. daemon' \in [Cranker -> Daemon] /\ \A x \in Cranker : DaemonSound(x, daemon[x])'
  BY <1>2, <1>3, <1>4, <1>5, NewDaemon, DaemonsFrame
<1> QED
  BY <1>6, NetworkFrame DEF ClientsSound

LEMMA TakesVerdictSound ==
  ASSUME AuthInv, Grows, NEW m \in Message, NEW verdict, TakesVerdict(m, verdict)
  PROVE  ClientsSound'
<1>1. m.owner \in Cranker /\ clock \in Nat
  BY MessageKinds DEF Grows
<1>2. CASE Answered(m) /\ UNCHANGED network
  BY <1>1, <1>2, StopsWaiting DEF Answered
<1> DEFINE d == [Started EXCEPT !.retried = TRUE, !.lease = daemon[m.owner].lease]
<1>3. CASE AskChallenge(m.owner, d)
  <2>1. daemon[m.owner].lease \in BOOLEAN
    BY <1>1 DEF AuthInv, ClientsSound, Daemon
  <2>2. d \in Daemon /\ d.session = 0
    BY <2>1 DEF Started, Daemon, DaemonPC, Optional
  <2> HIDE DEF d
  <2> QED
    BY <1>1, <1>3, <2>2, AskSound
<1> QED
  BY <1>2, <1>3 DEF TakesVerdict

-----------------------------------------------------------------------------
(* The documents, where a step leaves them alone.                          *)

LEMMA SessionKept ==
  ASSUME AuthInv, Grows, NEW s \in SessionIds, sessions'[s] = sessions[s]
  PROVE  SessionSound(s)'
<1>1. SessionSound(s) /\ sessions[s] \in Session
  BY DEF AuthInv, SessionsSound, SessionIds
<1>2. sessions[s].createdAt \in Nat
  BY <1>1 DEF Session
<1>3. sessions[s].gone => Aged(s)'
  BY <1>1, AgedKept DEF SessionSound
<1>4. sessions[s].nonce \in Nonces' /\ challenges'[sessions[s].nonce].used
  BY <1>1, IdsGrow DEF SessionSound, Grows
<1> QED
  BY <1>1, <1>2, <1>3, <1>4 DEF SessionSound, Grows

LEMMA SessionsFrame ==
  ASSUME AuthInv, Grows, challenges' \in Seq(Challenge), sessions' = sessions
  PROVE  SessionsSound'
  BY SessionKept DEF AuthInv, SessionsSound, SessionIds

LEMMA UsedOnceFrame ==
  ASSUME AuthInv, sessions' = sessions
  PROVE  ChallengesUsedOnce'
  BY DEF AuthInv, ChallengesUsedOnce

LEMMA AcceptedFrame ==
  ASSUME AuthInv, sessions' = sessions, accepted' = accepted
  PROVE  AcceptedSound'
  BY DEF AuthInv, AcceptedSound, SessionIds, AcceptedUpTo

LEMMA OpensFrame ==
  ASSUME AuthInv, sessions' = sessions,
         \A q \in Call : call'[q].pc = "open" =>
             call[q].pc = "open" /\ call'[q].msg = call[q].msg
  PROVE  OpensOnce'
  BY DEF AuthInv, OpensOnce, SessionIds

LEMMA RatesFrame ==
  ASSUME AuthInv, Grows, buckets' = buckets, admitted' = admitted
  PROVE  RatesSound'
<1> SUFFICES ASSUME NEW b \in Bucket
             PROVE  RateSound(b)'
  BY DEF AuthInv, RatesSound
<1>1. RateSound(b) /\ b[2] \in Nat
  BY DEF AuthInv, RatesSound, Bucket
<1>2. clock \div Minute <= clock' \div Minute /\ clock \div Minute \in Nat /\ clock' \div Minute \in Nat
  BY DivMonotone DEF Grows
<1> QED
  BY <1>1, <1>2 DEF RateSound, Count

(* One handler's record changes and opens nothing.                         *)
LEMMA OneCall ==
  ASSUME AuthInv, sessions' = sessions, NEW q \in Call, NEW k, k.pc # "open",
         call' = [call EXCEPT ![q] = k]
  PROVE  OpensOnce'
<1>1. call \in [Call -> CallState]
  BY DEF AuthInv, CallsSound
<1> QED
  BY <1>1, OpensFrame

(* A step of the daemons alone, a failure of a handler, and time.          *)
LEMMA ClientStep ==
  ASSUME AuthInv, ClientsSound', faults' \in 0..MaxFaults,
         UNCHANGED <<clock, call, store>>
  PROVE  AuthInv'
<1>1. UNCHANGED <<challenges, sessions, buckets, accepted, admitted>>
  BY DEF store
<1>2. Grows
  BY <1>1, GrowsFrame, BoundAssumption DEF AuthInv
<1>3. CallsSound'
  BY <1>2, CallsFrame
<1>4. SessionsSound' /\ ChallengesUsedOnce' /\ AcceptedSound' /\ OpensOnce'
  BY <1>1, <1>2, SessionsFrame, UsedOnceFrame, AcceptedFrame, OpensFrame
     DEF AuthInv, SessionsSound
<1>5. RatesSound'
  BY <1>1, <1>2, RatesFrame
<1> QED
  BY <1>3, <1>4, <1>5 DEF AuthInv

LEMMA BeginStep ==
  ASSUME AuthInv, NEW c \in Cranker, NEW lease \in BOOLEAN, Begin(c, lease)
  PROVE  AuthInv'
<1> DEFINE d == [daemon[c] EXCEPT !.lease = lease]
<1>1. daemon[c] \in Daemon /\ DaemonSound(c, daemon[c])
  BY DEF AuthInv, ClientsSound
<1>2. d \in Daemon /\ d.session = daemon[c].session
  BY <1>1 DEF Daemon
<1>3. UNCHANGED <<clock, faults, call, store>>
  BY DEF Begin
<1>4. Grows
  BY <1>3, GrowsFrame, BoundAssumption DEF AuthInv, store
<1>5. (Reusable(d) /\ Send(c, d)) \/ AskChallenge(c, d)
  BY DEF Begin
<1>6. d.session # 0 => d.session \in SessionIds' /\ sessions'[d.session].owner = c
  BY <1>1, <1>2, <1>3 DEF DaemonSound, SessionIds, store
<1> HIDE DEF d
<1>7. ClientsSound'
  BY <1>2, <1>4, <1>5, <1>6, SendSound, AskSound DEF Reusable
<1> QED
  BY <1>3, <1>7, ClientStep DEF AuthInv

LEMMA FaultType ==
  ASSUME AuthInv, Fault
  PROVE  faults' \in 0..MaxFaults
  BY BoundAssumption DEF AuthInv, Fault

LEMMA DaemonFaultStep ==
  ASSUME AuthInv, NEW c \in Cranker, FetchFails(c) \/ Restart(c)
  PROVE  AuthInv'
<1>1. UNCHANGED <<clock, call, store, network>>
  BY DEF FetchFails, Restart
<1>2. Grows
  BY <1>1, GrowsFrame, BoundAssumption DEF AuthInv, store
<1>3. faults' \in 0..MaxFaults
  BY FaultType DEF FetchFails, Restart
<1>4. CASE FetchFails(c)
  <2>1. ClientsSound'
    BY <1>1, <1>2, <1>4, StopsWaiting DEF FetchFails, Grows
  <2> QED
    BY <1>1, <1>3, <2>1, ClientStep
<1>5. CASE Restart(c)
  <2>1. DaemonSound(c, Started)'
    BY DEF DaemonSound, Started
  <2>2. ClientsSound'
    BY <1>1, <1>2, <1>5, <2>1, StartedType, NewDaemon, NetworkFrame DEF Restart, ClientsSound
  <2> QED
    BY <1>1, <1>3, <2>2, ClientStep
<1> QED
  BY <1>4, <1>5

LEMMA TickStep ==
  ASSUME AuthInv, Tick
  PROVE  AuthInv'
<1>1. UNCHANGED <<call, daemon, network, faults>>
      /\ UNCHANGED <<challenges, sessions, buckets, accepted, admitted>>
  BY DEF Tick, store
<1>2. clock' \in 0..MaxClock /\ clock' \in Nat /\ clock <= clock'
  BY BoundAssumption DEF AuthInv, Tick
<1>3. Grows
  BY <1>1, <1>2, GrowsFrame
<1>4. ClientsSound' /\ CallsSound'
  BY <1>1, <1>3, DaemonsFrame, NetworkFrame, CallsFrame DEF ClientsSound
<1>5. SessionsSound' /\ ChallengesUsedOnce' /\ AcceptedSound' /\ OpensOnce'
  BY <1>1, <1>3, SessionsFrame, UsedOnceFrame, AcceptedFrame, OpensFrame
     DEF AuthInv, SessionsSound
<1>6. RatesSound'
  BY <1>1, <1>3, RatesFrame
<1> QED
  BY <1>1, <1>2, <1>4, <1>5, <1>6 DEF AuthInv

LEMMA CallFailsStep ==
  ASSUME AuthInv, NEW q \in Call, CallFails(q)
  PROVE  AuthInv'
<1>1. UNCHANGED <<clock, network, challenges, sessions, buckets, accepted, admitted>>
  BY DEF CallFails, store
<1>2. Grows
  BY <1>1, GrowsFrame, BoundAssumption DEF AuthInv
<1>3. faults' \in 0..MaxFaults /\ Frees(q)
  BY FaultType DEF CallFails
<1>4. CallsSound'
  BY <1>2, <1>3, FreeCall
<1>5. OpensOnce'
  BY <1>1, <1>3, OneCall DEF Frees, Free
<1>6. ClientsSound'
  <2> DEFINE m == call[q].msg
  <2>1. m \in Message
    BY DEF CallFails, AuthInv, CallsSound, CallSound
  <2>2. m.owner \in Cranker /\ clock \in Nat
    BY <1>2, <2>1, MessageKinds DEF Grows
  <2>3. Answered(m) \/ Refused(m)
    BY DEF CallFails
  <2> HIDE DEF m
  <2> QED
    BY <1>1, <1>2, <2>2, <2>3, StopsWaiting DEF Answered, Refused
<1>7. SessionsSound' /\ ChallengesUsedOnce' /\ AcceptedSound' /\ RatesSound'
  BY <1>1, <1>2, SessionsFrame, UsedOnceFrame, AcceptedFrame, RatesFrame DEF AuthInv, SessionsSound
<1> QED
  BY <1>1, <1>3, <1>4, <1>5, <1>6, <1>7 DEF AuthInv

-----------------------------------------------------------------------------
(* The Receiver's steps.                                                   *)

LEMMA DeliveredSound ==
  ASSUME AuthInv, NEW m, Delivered(m)
  PROVE  network' \subseteq network /\ faults' \in 0..MaxFaults
  BY FaultType DEF Delivered, AuthInv

(* The documents a prune may delete: challenges that were issued, sessions *)
(* that reached the idle limit.                                            *)
LEMMA StaleSound ==
  ASSUME AuthInv
  PROVE  /\ StaleChallenges(clock) \subseteq Nonces
         /\ \A s \in StaleSessions(clock) : Aged(s)
<1>1. DOMAIN challenges = Nonces /\ DOMAIN sessions = SessionIds
  BY DEF AuthInv, SessionsSound, Nonces, SessionIds
<1>2. ASSUME NEW s \in StaleSessions(clock)
      PROVE  Aged(s)
  <2>1. s \in SessionIds /\ sessions[s] \in Session /\ SessionSound(s)
    BY <1>1 DEF StaleSessions, Stored, AuthInv, SessionsSound, SessionIds
  <2>2. /\ sessions[s].createdAt \in Nat /\ sessions[s].lastSeenAt \in Nat
        /\ sessions[s].expiresAt = sessions[s].createdAt + SessionTTL
        /\ sessions[s].createdAt <= sessions[s].lastSeenAt
    BY <2>1 DEF Session, SessionSound
  <2>3. sessions[s].expiresAt <= clock \/ sessions[s].lastSeenAt + IdleTTL <= clock
    BY DEF StaleSessions
  <2>4. clock \in Nat
    BY BoundAssumption DEF AuthInv
  <2> QED
    BY <2>1, <2>2, <2>3, <2>4, TimeAssumption DEF Aged
<1> QED
  BY <1>1, <1>2 DEF StaleChallenges, Stored

LEMMA ChallengeArrivesStep ==
  ASSUME AuthInv, NEW q \in Call, NEW m \in network, ChallengeArrives(q, m)
  PROVE  AuthInv'
<1> DEFINE k == [Serves(m) EXCEPT !.pc = "prune", !.nonces = StaleChallenges(clock),
                                  !.ids = StaleSessions(clock)]
<1>1. UNCHANGED <<clock, daemon, challenges, sessions, buckets, accepted, admitted>>
  BY DEF ChallengeArrives, store
<1>2. Grows
  BY <1>1, GrowsFrame, BoundAssumption DEF AuthInv
<1>3. network' \subseteq network /\ faults' \in 0..MaxFaults
  BY DeliveredSound DEF ChallengeArrives
<1>4. ClientsSound'
  BY <1>1, <1>2, <1>3, DaemonsFrame, NetworkFrame DEF ClientsSound
<1>5. m \in Message /\ MessageSound(m) /\ m.kind = "ask"
  BY DEF AuthInv, ClientsSound, ChallengeArrives
<1>6. StaleChallenges(clock) \subseteq Nat /\ StaleSessions(clock) \subseteq Nat
  BY StaleSound DEF Nonces, SessionIds, Aged
<1>7. /\ k.pc = "prune" /\ k.msg = m /\ k.now = 0 /\ k.rates = {}
      /\ k.nonces = StaleChallenges(clock) /\ k.ids = StaleSessions(clock)
  BY DEF Serves, Free
<1>8. k \in CallState
  BY <1>5, <1>6 DEF Serves, Free, CallState, CallPC, Optional
<1>9. CallSound(k)
  BY <1>2, <1>5, <1>7, StaleSound DEF CallSound, Grows
<1>10. call' = [call EXCEPT ![q] = k]
  BY DEF ChallengeArrives
<1> HIDE DEF k
<1>11. \A x : x = k => CallSound(x)'
  BY <1>2, <1>8, <1>9, CallKept
<1>12. CallsSound'
  BY <1>2, <1>8, <1>10, <1>11, NewCall
<1>13. OpensOnce'
  BY <1>1, <1>7, <1>10, OneCall
<1>14. SessionsSound' /\ ChallengesUsedOnce' /\ AcceptedSound' /\ RatesSound'
  BY <1>1, <1>2, SessionsFrame, UsedOnceFrame, AcceptedFrame, RatesFrame DEF AuthInv, SessionsSound
<1> QED
  BY <1>1, <1>3, <1>4, <1>12, <1>13, <1>14 DEF AuthInv

(* A challenge is changed, and stays used if it was.                       *)
LEMMA ChallengeUpdate ==
  ASSUME AuthInv, NEW n \in Nonces, NEW r \in Challenge, challenges[n].used => r.used,
         challenges' = [challenges EXCEPT ![n] = r], sessions' = sessions, clock' = clock
  PROVE  Grows /\ challenges' \in Seq(Challenge) /\ challenges'[n] = r
<1>1. challenges \in Seq(Challenge) /\ n \in 1..Len(challenges)
  BY DEF AuthInv, SessionsSound, Nonces
<1>2. /\ challenges' \in Seq(Challenge) /\ Len(challenges') = Len(challenges)
      /\ \A j \in 1..Len(challenges) : challenges'[j] = IF j = n THEN r ELSE challenges[j]
  BY <1>1, ExceptSeq
<1>3. Len(challenges) \in Nat /\ Len(sessions) \in Nat /\ clock \in Nat
  BY BoundAssumption DEF AuthInv, SessionsSound
<1>4. Len(challenges)' = Len(challenges) /\ Len(sessions)' = Len(sessions)
  BY <1>2
<1> QED
  BY <1>1, <1>2, <1>3, <1>4 DEF Grows, Nonces

LEMMA PruneChallengeStep ==
  ASSUME AuthInv, NEW q \in Call, NEW n, PruneChallenge(q, n)
  PROVE  AuthInv'
<1> DEFINE r == [challenges[n] EXCEPT !.gone = TRUE]
           k == [call[q] EXCEPT !.nonces = @ \ {n}]
<1>1. UNCHANGED <<clock, daemon, network, faults, sessions, buckets, accepted, admitted>>
  BY DEF PruneChallenge
<1>2. call[q] \in CallState /\ CallSound(call[q]) /\ call[q].pc = "prune" /\ n \in Nonces
  BY DEF AuthInv, CallsSound, CallSound, PruneChallenge
<1>3. challenges[n] \in Challenge
  BY <1>2 DEF AuthInv, SessionsSound, Nonces
<1>4. r \in Challenge /\ r.used = challenges[n].used
  BY <1>3 DEF Challenge
<1>5. challenges' = [challenges EXCEPT ![n] = r] /\ call' = [call EXCEPT ![q] = k]
  BY DEF PruneChallenge
<1> HIDE DEF r
<1>6. Grows /\ challenges' \in Seq(Challenge)
  BY <1>1, <1>2, <1>4, <1>5, ChallengeUpdate
<1>7. k \in CallState /\ k.nonces \subseteq call[q].nonces
      /\ k.pc = "prune" /\ k.msg = call[q].msg /\ k.now = call[q].now /\ k.ids = call[q].ids
      /\ k.rates = call[q].rates
  BY <1>2 DEF CallState
<1> HIDE DEF k
<1>8. CallSound(k)
  BY <1>2, <1>7 DEF CallSound
<1>9. \A x : x = k => CallSound(x)'
  BY <1>6, <1>7, <1>8, CallKept
<1>10. CallsSound' /\ OpensOnce'
  BY <1>1, <1>5, <1>6, <1>7, <1>9, NewCall, OneCall
<1>11. ClientsSound'
  BY <1>1, <1>6, DaemonsFrame, NetworkFrame DEF ClientsSound
<1>12. SessionsSound' /\ ChallengesUsedOnce' /\ AcceptedSound' /\ RatesSound'
  BY <1>1, <1>6, SessionsFrame, UsedOnceFrame, AcceptedFrame, RatesFrame
<1> QED
  BY <1>1, <1>10, <1>11, <1>12 DEF AuthInv

(* A session is changed, but not whose it is and since when.               *)
LEMMA SessionUpdate ==
  ASSUME AuthInv, NEW s \in SessionIds, NEW r \in Session,
         r.owner = sessions[s].owner, r.createdAt = sessions[s].createdAt,
         r.nonce = sessions[s].nonce, r.expiresAt = sessions[s].expiresAt,
         r.createdAt <= r.lastSeenAt, r.gone => Aged(s),
         sessions' = [sessions EXCEPT ![s] = r], challenges' = challenges, clock' = clock
  PROVE  /\ Grows /\ SessionsSound' /\ ChallengesUsedOnce' /\ SessionIds' = SessionIds
         /\ \A t \in SessionIds : sessions'[t] = IF t = s THEN r ELSE sessions[t]
<1>1. sessions \in Seq(Session) /\ s \in 1..Len(sessions)
  BY DEF AuthInv, SessionsSound, SessionIds
<1>2. /\ sessions' \in Seq(Session) /\ Len(sessions') = Len(sessions)
      /\ \A j \in 1..Len(sessions) : sessions'[j] = IF j = s THEN r ELSE sessions[j]
  BY <1>1, ExceptSeq
<1>3. Len(challenges) \in Nat /\ Len(sessions) \in Nat /\ clock \in Nat
  BY BoundAssumption DEF AuthInv, SessionsSound
<1>4. Len(challenges)' = Len(challenges) /\ Len(sessions)' = Len(sessions)
  BY <1>2
<1>5. Grows
  BY <1>1, <1>2, <1>3, <1>4 DEF Grows, SessionIds
<1>6. SessionIds' = SessionIds
  BY <1>4 DEF SessionIds
<1>7. ASSUME NEW t \in SessionIds
      PROVE  SessionSound(t)'
  <2>1. CASE t = s
    <3>1. sessions'[s] = r /\ SessionSound(s)
      BY <1>1, <1>2 DEF AuthInv, SessionsSound
    <3>2. r.gone => Aged(s)'
      BY <1>5, AgedKept
    <3> QED
      BY <1>4, <2>1, <3>1, <3>2 DEF SessionSound, Nonces
  <2>2. CASE t # s
    <3>1. sessions'[t] = sessions[t]
      BY <1>2, <2>2 DEF SessionIds
    <3> QED
      BY <1>5, <3>1, SessionKept
  <2> QED
    BY <2>1, <2>2
<1>8. SessionsSound'
  BY <1>2, <1>6, <1>7 DEF AuthInv, SessionsSound
<1>9. ChallengesUsedOnce'
  <2>1. DOMAIN sessions = SessionIds /\ DOMAIN sessions' = SessionIds
    BY <1>1, <1>2 DEF SessionIds
  <2>2. \A t \in SessionIds : sessions'[t].nonce = sessions[t].nonce
    BY <1>2 DEF SessionIds
  <2> QED
    BY <2>1, <2>2 DEF AuthInv, ChallengesUsedOnce
<1> QED
  BY <1>2, <1>5, <1>6, <1>8, <1>9 DEF SessionIds

LEMMA PruneSessionStep ==
  ASSUME AuthInv, NEW q \in Call, NEW s, PruneSession(q, s)
  PROVE  AuthInv'
<1> DEFINE r == [sessions[s] EXCEPT !.gone = TRUE]
           k == [call[q] EXCEPT !.ids = @ \ {s}]
<1>1. UNCHANGED <<clock, daemon, network, faults, challenges, buckets, accepted, admitted>>
  BY DEF PruneSession
<1>2. call[q] \in CallState /\ CallSound(call[q]) /\ call[q].pc = "prune" /\ Aged(s)
  BY DEF AuthInv, CallsSound, CallSound, PruneSession
<1>3. s \in SessionIds /\ sessions[s] \in Session /\ SessionSound(s)
  BY <1>2 DEF AuthInv, SessionsSound, SessionIds, Aged
<1>4. /\ r \in Session /\ r.owner = sessions[s].owner /\ r.createdAt = sessions[s].createdAt
      /\ r.nonce = sessions[s].nonce /\ r.expiresAt = sessions[s].expiresAt
      /\ r.lastSeenAt = sessions[s].lastSeenAt /\ r.lastCounter = sessions[s].lastCounter
  BY <1>3 DEF Session
<1>5. sessions' = [sessions EXCEPT ![s] = r] /\ call' = [call EXCEPT ![q] = k]
  BY DEF PruneSession
<1> HIDE DEF r
<1>6. r.createdAt <= r.lastSeenAt
  BY <1>3, <1>4 DEF SessionSound
<1>7. /\ Grows /\ SessionsSound' /\ ChallengesUsedOnce' /\ SessionIds' = SessionIds
      /\ \A t \in SessionIds : sessions'[t] = IF t = s THEN r ELSE sessions[t]
  BY <1>1, <1>2, <1>3, <1>4, <1>5, <1>6, SessionUpdate
<1>8. k \in CallState /\ k.ids \subseteq call[q].ids
      /\ k.pc = "prune" /\ k.msg = call[q].msg /\ k.now = call[q].now /\ k.nonces = call[q].nonces
      /\ k.rates = call[q].rates
  BY <1>2 DEF CallState
<1> HIDE DEF k
<1>9. CallSound(k)
  BY <1>2, <1>8 DEF CallSound
<1>10. \A x : x = k => CallSound(x)'
  BY <1>7, <1>8, <1>9, CallKept
<1>11. CallsSound'
  BY <1>5, <1>7, <1>8, <1>10, NewCall
<1>12. OpensOnce'
  <2>1. \A p \in Call : call'[p].pc = "open" => call[p].pc = "open" /\ call'[p].msg = call[p].msg
    BY <1>5, <1>8 DEF AuthInv, CallsSound
  <2>2. \A t \in SessionIds : sessions'[t].nonce = sessions[t].nonce
    BY <1>4, <1>7
  <2> QED
    BY <1>7, <2>1, <2>2 DEF AuthInv, OpensOnce
<1>13. ClientsSound'
  BY <1>1, <1>7, DaemonsFrame, NetworkFrame DEF ClientsSound
<1>14. AcceptedSound'
  <2>1. Len(sessions') = Len(sessions)
    BY <1>3, <1>5 DEF AuthInv, SessionsSound, SessionIds
  <2>2. \A t \in SessionIds : sessions'[t].lastCounter = sessions[t].lastCounter
    BY <1>4, <1>7
  <2> QED
    BY <1>1, <1>7, <2>1, <2>2 DEF AuthInv, AcceptedSound, AcceptedUpTo
<1>15. RatesSound'
  BY <1>1, <1>7, RatesFrame
<1> QED
  BY <1>1, <1>7, <1>11, <1>12, <1>13, <1>14, <1>15 DEF AuthInv

LEMMA IssueChallengeStep ==
  ASSUME AuthInv, NEW q \in Call, IssueChallenge(q)
  PROVE  AuthInv'
<1> DEFINE m == call[q].msg
           r == [owner |-> m.owner, expiresAt |-> clock + ChallengeTTL,
                 used |-> FALSE, gone |-> FALSE]
<1>1. UNCHANGED <<clock, faults, sessions, buckets, accepted, admitted>> /\ Frees(q)
  BY DEF IssueChallenge
<1>2. m \in Message /\ m.owner \in Cranker
  BY MessageKinds DEF AuthInv, CallsSound, CallSound, IssueChallenge
<1>3. clock \in Nat /\ clock + ChallengeTTL \in Nat
  BY BoundAssumption, TimeAssumption DEF AuthInv
<1>4. r \in Challenge
  BY <1>2, <1>3 DEF Challenge
<1>5. challenges' = Append(challenges, r) /\ TakesNonce(m, Len(challenges) + 1)
  BY DEF IssueChallenge
<1> HIDE DEF r
<1>6. /\ challenges' \in Seq(Challenge) /\ Len(challenges') = Len(challenges) + 1
      /\ \A i \in 1..Len(challenges) : challenges'[i] = challenges[i]
  BY <1>4, <1>5, AppendProperties DEF AuthInv, SessionsSound
<1>7. Len(challenges) \in Nat /\ Len(sessions) \in Nat /\ Len(sessions)' = Len(sessions)
      /\ Len(challenges)' = Len(challenges) + 1
  BY <1>1, <1>6 DEF AuthInv, SessionsSound
<1>8. Grows
  BY <1>1, <1>3, <1>6, <1>7 DEF Grows, Nonces
<1>9. Len(challenges) + 1 \in Nonces'
  BY <1>7 DEF Nonces
<1> HIDE DEF m
<1>10. ClientsSound'
  BY <1>2, <1>5, <1>8, <1>9, TakesNonceSound
<1>11. CallsSound' /\ OpensOnce'
  BY <1>1, <1>8, FreeCall, OneCall DEF Frees, Free
<1>12. SessionsSound' /\ ChallengesUsedOnce' /\ AcceptedSound' /\ RatesSound'
  BY <1>1, <1>6, <1>8, SessionsFrame, UsedOnceFrame, AcceptedFrame, RatesFrame
<1> QED
  BY <1>1, <1>10, <1>11, <1>12 DEF AuthInv

(* The consumed challenge was unused, so nobody else holds it and no       *)
(* session has it.                                                         *)
LEMMA ConsumeStep ==
  ASSUME AuthInv, NEW q \in Call, NEW m \in network, Consume(q, m)
  PROVE  AuthInv'
<1>1. UNCHANGED <<clock, sessions, buckets, accepted, admitted>>
  BY DEF Consume
<1>2. network' \subseteq network /\ faults' \in 0..MaxFaults
  BY DeliveredSound DEF Consume
<1>3. m \in Message /\ MessageSound(m) /\ m.kind = "proof" /\ m.owner \in Cranker
  BY MessageKinds DEF AuthInv, ClientsSound, Consume
<1>4. clock \in Nat
  BY BoundAssumption DEF AuthInv
<1>5. CASE Refused(m) /\ UNCHANGED <<call, challenges>>
  <2>1. Grows
    BY <1>1, <1>4, <1>5, GrowsFrame
  <2>2. ClientsSound'
    BY <1>2, <1>3, <1>4, <1>5, <2>1, StopsWaiting DEF Refused
  <2>3. UNCHANGED store
    BY <1>1, <1>5 DEF store
  <2> QED
    BY <1>1, <1>2, <1>5, <2>2, <2>3, ClientStep
<1> DEFINE r == [challenges[m.nonce] EXCEPT !.used = TRUE]
           k == [Serves(m) EXCEPT !.pc = "open", !.now = clock]
<1>6. CASE /\ Usable(m.nonce, m.owner)
           /\ challenges' = [challenges EXCEPT ![m.nonce].used = TRUE]
           /\ call' = [call EXCEPT ![q] = k]
           /\ UNCHANGED daemon
  <2>1. m.nonce \in Nonces /\ challenges[m.nonce] \in Challenge
    BY <1>3 DEF MessageSound, AuthInv, SessionsSound, Nonces
  <2>2. r \in Challenge /\ r.used
    BY <2>1 DEF Challenge
  <2>3. challenges' = [challenges EXCEPT ![m.nonce] = r]
    BY <1>6
  <2> HIDE DEF r
  <2>4. Grows /\ challenges' \in Seq(Challenge) /\ challenges'[m.nonce] = r
    BY <1>1, <2>1, <2>2, <2>3, ChallengeUpdate
  <2>5. ClientsSound'
    BY <1>2, <1>6, <2>4, DaemonsFrame, NetworkFrame DEF ClientsSound
  <2>6. k.pc = "open" /\ k.msg = m /\ k.now = clock /\ k.nonces = {} /\ k.ids = {} /\ k.rates = {}
    BY DEF Serves, Free
  <2>7. k \in CallState
    BY <1>3, <1>4 DEF Serves, Free, CallState, CallPC, Optional
  <2>8. call' = [call EXCEPT ![q] = k]
    BY <1>6
  <2> HIDE DEF k
  <2>9. MessageSound(m)'
    BY <1>3, <2>4, MessageKept
  <2>10. \A x : x = k => CallSound(x)'
    BY <1>1, <1>3, <1>4, <2>2, <2>4, <2>6, <2>9 DEF CallSound
  <2>11. CallsSound'
    BY <2>4, <2>7, <2>8, <2>10, NewCall
  <2>12. OpensOnce'
    <3>1. \A s \in SessionIds : sessions[s].nonce # m.nonce
      BY <1>6 DEF Usable, AuthInv, SessionsSound, SessionSound
    <3>2. \A p \in Call : call[p].pc = "open" => call[p].msg.nonce # m.nonce
      BY <1>6 DEF Usable, AuthInv, CallsSound, CallSound
    <3>3. \A p \in Call : call'[p] = IF p = q THEN k ELSE call[p]
      BY <2>8 DEF AuthInv, CallsSound
    <3> QED
      BY <1>1, <2>6, <3>1, <3>2, <3>3 DEF AuthInv, OpensOnce, SessionIds
  <2>13. SessionsSound' /\ ChallengesUsedOnce' /\ AcceptedSound' /\ RatesSound'
    BY <1>1, <2>4, SessionsFrame, UsedOnceFrame, AcceptedFrame, RatesFrame
  <2> QED
    BY <1>1, <1>2, <2>5, <2>11, <2>12, <2>13 DEF AuthInv
<1> QED
  BY <1>5, <1>6 DEF Consume

LEMMA OpenSessionStep ==
  ASSUME AuthInv, NEW q \in Call, OpenSession(q)
  PROVE  AuthInv'
<1> DEFINE m == call[q].msg
           r == NewSession(m, call[q].now)
<1>1. UNCHANGED <<clock, faults, challenges, buckets, admitted>> /\ Frees(q)
  BY DEF OpenSession
<1>2. call[q].pc = "open" /\ call[q] \in CallState /\ CallSound(call[q])
  BY DEF OpenSession, AuthInv, CallsSound
<1>3. m \in Message /\ m \in Proof /\ m.owner \in Cranker /\ m.nonce \in Nonces
      /\ challenges[m.nonce].used
  BY <1>2, MessageKinds DEF CallSound, MessageSound
<1>4. call[q].now \in Nat /\ call[q].now <= clock /\ call[q].now + SessionTTL \in Nat
      /\ m.nonce \in Nat /\ clock \in Nat
  BY <1>2, <1>3, TimeAssumption, BoundAssumption DEF CallState, CallSound, Proof, AuthInv
<1>5. /\ r \in Session /\ r.owner = m.owner /\ r.nonce = m.nonce /\ r.createdAt = call[q].now
      /\ r.lastSeenAt = call[q].now /\ r.expiresAt = call[q].now + SessionTTL
      /\ r.lastCounter = 0 /\ ~r.gone
  BY <1>3, <1>4 DEF NewSession, Session
<1>6. /\ sessions' = Append(sessions, r) /\ accepted' = Append(accepted, <<>>)
      /\ TakesSession(m, Len(sessions) + 1)
  BY DEF OpenSession
<1> HIDE DEF r
<1>7. /\ sessions' \in Seq(Session) /\ Len(sessions') = Len(sessions) + 1
      /\ \A i \in 1..Len(sessions) : sessions'[i] = sessions[i]
      /\ sessions'[Len(sessions) + 1] = r
  BY <1>5, <1>6, AppendProperties DEF AuthInv, SessionsSound
<1>8. /\ Len(challenges) \in Nat /\ Len(sessions) \in Nat
      /\ Len(sessions)' = Len(sessions) + 1 /\ Len(challenges)' = Len(challenges)
  BY <1>1, <1>7 DEF AuthInv, SessionsSound
<1>9. SessionIds' = SessionIds \cup {Len(sessions) + 1}
  BY <1>8 DEF SessionIds
<1>10. Grows
  BY <1>1, <1>4, <1>7, <1>8 DEF Grows, SessionIds
<1>11. ClientsSound'
  BY <1>3, <1>5, <1>6, <1>7, <1>9, <1>10, TakesSessionSound
<1>12. CallsSound'
  BY <1>1, <1>10, FreeCall
<1>13. SessionsSound'
  <2>1. \A s \in SessionIds : SessionSound(s)'
    BY <1>7, <1>10, SessionKept DEF SessionIds
  <2>2. \A s : s = Len(sessions) + 1 => SessionSound(s)'
    BY <1>1, <1>3, <1>4, <1>5, <1>7, <1>8 DEF SessionSound, Nonces
  <2> QED
    BY <1>1, <1>7, <1>9, <2>1, <2>2 DEF SessionsSound, AuthInv
<1>14. ChallengesUsedOnce'
  <2>1. \A s \in SessionIds : sessions[s].nonce # m.nonce
    BY <1>2 DEF AuthInv, OpensOnce
  <2>2. DOMAIN sessions = SessionIds /\ DOMAIN sessions' = SessionIds \cup {Len(sessions) + 1}
    BY <1>7, <1>8, <1>9 DEF SessionIds, AuthInv, SessionsSound
  <2> QED
    BY <1>5, <1>7, <2>1, <2>2 DEF AuthInv, ChallengesUsedOnce, SessionIds
<1>15. OpensOnce'
  <2>1. \A p \in Call : call'[p] = IF p = q THEN Free ELSE call[p]
    BY <1>1 DEF Frees, AuthInv, CallsSound
  <2>2. Free.pc # "open"
    BY DEF Free
  <2>3. \A p \in Call : p # q /\ call[p].pc = "open" => call[p].msg.nonce # m.nonce
    BY <1>2 DEF AuthInv, OpensOnce
  <2> QED
    BY <1>5, <1>7, <1>9, <2>1, <2>2, <2>3 DEF AuthInv, OpensOnce, SessionIds
<1>16. AcceptedSound'
  <2>1. /\ accepted' \in Seq(Seq(Nat)) /\ Len(accepted') = Len(accepted) + 1
        /\ \A i \in 1..Len(accepted) : accepted'[i] = accepted[i]
        /\ accepted'[Len(accepted) + 1] = <<>>
    <3>1. <<>> \in Seq(Nat)
      OBVIOUS
    <3> QED
      BY <1>6, <3>1, AppendProperties DEF AuthInv, AcceptedSound
  <2>2. AcceptedUpTo(<<>>, r.lastCounter)
    BY DEF AcceptedUpTo
  <2> QED
    BY <1>7, <1>8, <1>9, <2>1, <2>2 DEF AuthInv, AcceptedSound, SessionIds
<1>17. RatesSound'
  BY <1>1, <1>10, RatesFrame
<1> QED
  BY <1>1, <1>11, <1>12, <1>13, <1>14, <1>15, <1>16, <1>17 DEF AuthInv

LEMMA RequestArrivesStep ==
  ASSUME AuthInv, NEW q \in Call, NEW m \in network, RequestArrives(q, m)
  PROVE  AuthInv'
<1> DEFINE k == [Serves(m) EXCEPT !.pc = "authenticate", !.now = clock]
<1>1. UNCHANGED <<clock, challenges, sessions, buckets, accepted, admitted>> /\ UNCHANGED store
  BY DEF RequestArrives, store
<1>2. network' \subseteq network /\ faults' \in 0..MaxFaults
  BY DeliveredSound DEF RequestArrives
<1>3. m \in Message /\ MessageSound(m) /\ m.kind = "request" /\ m.owner \in Cranker
  BY MessageKinds DEF AuthInv, ClientsSound, RequestArrives
<1>4. Grows /\ clock \in Nat
  BY <1>1, GrowsFrame, BoundAssumption DEF AuthInv
<1>5. CASE Answered(m) /\ UNCHANGED call
  <2>1. ClientsSound'
    BY <1>2, <1>3, <1>4, <1>5, StopsWaiting DEF Answered
  <2> QED
    BY <1>1, <1>2, <1>5, <2>1, ClientStep
<1>6. CASE call' = [call EXCEPT ![q] = k] /\ UNCHANGED daemon
  <2>1. k.pc = "authenticate" /\ k.msg = m /\ k.now = clock /\ k.nonces = {} /\ k.ids = {}
        /\ k.rates = {}
    BY DEF Serves, Free
  <2>2. k \in CallState
    BY <1>3, <1>4 DEF Serves, Free, CallState, CallPC, Optional
  <2>3. call' = [call EXCEPT ![q] = k]
    BY <1>6
  <2> HIDE DEF k
  <2>4. sessions[m.session].createdAt <= clock
    BY <1>3 DEF MessageSound, AuthInv, SessionsSound, SessionSound
  <2>5. CallSound(k)
    BY <1>3, <1>4, <2>1, <2>4 DEF CallSound
  <2>6. \A x : x = k => CallSound(x)'
    BY <1>4, <2>2, <2>5, CallKept
  <2>7. CallsSound' /\ OpensOnce'
    BY <1>1, <1>4, <2>1, <2>2, <2>3, <2>6, NewCall, OneCall
  <2>8. ClientsSound'
    BY <1>2, <1>4, <1>6, DaemonsFrame, NetworkFrame DEF ClientsSound
  <2>9. SessionsSound' /\ ChallengesUsedOnce' /\ AcceptedSound' /\ RatesSound'
    BY <1>1, <1>4, SessionsFrame, UsedOnceFrame, AcceptedFrame, RatesFrame
       DEF AuthInv, SessionsSound
  <2> QED
    BY <1>1, <1>2, <2>7, <2>8, <2>9 DEF AuthInv
<1> QED
  BY <1>5, <1>6 DEF RequestArrives

(* An accepted counter is above all that were accepted before.             *)
LEMMA AcceptedAppend ==
  ASSUME NEW a \in Seq(Nat), NEW n \in Nat, NEW c \in Nat, AcceptedUpTo(a, n), c > n
  PROVE  Append(a, c) \in Seq(Nat) /\ AcceptedUpTo(Append(a, c), c)
<1>1. /\ Append(a, c) \in Seq(Nat) /\ Len(Append(a, c)) = Len(a) + 1
      /\ \A i \in 1..Len(a) : Append(a, c)[i] = a[i]
      /\ Append(a, c)[Len(a) + 1] = c
  BY AppendProperties
<1>2. \A i \in 1..Len(a) : a[i] \in Nat /\ a[i] < c
  BY DEF AcceptedUpTo
<1>3. Len(a) \in Nat
  OBVIOUS
<1> DEFINE b == Append(a, c)
<1> HIDE DEF b
<1>4. \A i \in 1..Len(b) : i \in 1..Len(a) \/ i = Len(a) + 1
  BY <1>1, <1>3 DEF b
<1>5. \A i \in 1..Len(b) : b[i] <= c
  BY <1>1, <1>2, <1>4 DEF b
<1>6. \A i, j \in 1..Len(b) : i < j => b[i] < b[j]
  BY <1>1, <1>2, <1>3, <1>4 DEF b, AcceptedUpTo
<1> QED
  BY <1>1, <1>5, <1>6 DEF b, AcceptedUpTo

(* The transaction of authenticateCrankerRequest, on the documents.        *)
LEMMA AuthenticateStore ==
  ASSUME AuthInv, NEW q \in Call, Authenticate(q)
  PROVE  /\ Grows /\ SessionsSound' /\ ChallengesUsedOnce' /\ AcceptedSound'
         /\ SessionIds' = SessionIds
         /\ \A t \in SessionIds : sessions'[t].nonce = sessions[t].nonce
<1> DEFINE m == call[q].msg
           s == m.session
           now == call[q].now
<1>1. UNCHANGED <<clock, challenges>>
  BY DEF Authenticate
<1>2. call[q].pc = "authenticate" /\ call[q] \in CallState /\ CallSound(call[q])
  BY DEF Authenticate, AuthInv, CallsSound
<1>3. m \in Request /\ s \in SessionIds /\ sessions[s].createdAt <= now
  BY <1>2, MessageKinds DEF CallSound, MessageSound
<1>4. now \in Nat /\ m.counter \in Nat
  BY <1>2, <1>3 DEF CallState, Request
<1>5. CASE UNCHANGED <<sessions, accepted>>
  <2>1. Grows
    BY <1>1, <1>5, GrowsFrame, BoundAssumption DEF AuthInv
  <2> QED
    BY <1>1, <1>5, <2>1, SessionsFrame, UsedOnceFrame, AcceptedFrame
       DEF AuthInv, SessionsSound, SessionIds
<1> DEFINE r == [sessions[s] EXCEPT !.lastCounter = m.counter, !.lastSeenAt = now]
<1>6. CASE /\ Verdict(m, now) = "OK"
           /\ sessions' = [sessions EXCEPT ![s].lastCounter = m.counter, ![s].lastSeenAt = now]
           /\ accepted' = [accepted EXCEPT ![s] = Append(@, m.counter)]
  <2>1. sessions[s] \in Session /\ SessionSound(s)
    BY <1>3 DEF AuthInv, SessionsSound, SessionIds
  <2>2. /\ r \in Session /\ r.owner = sessions[s].owner /\ r.createdAt = sessions[s].createdAt
        /\ r.nonce = sessions[s].nonce /\ r.expiresAt = sessions[s].expiresAt
        /\ r.lastSeenAt = now /\ r.lastCounter = m.counter /\ r.gone = sessions[s].gone
    BY <1>4, <2>1 DEF Session
  <2>3. sessions' = [sessions EXCEPT ![s] = r]
    BY <1>6
  <2>4. ~(m.counter <= sessions[s].lastCounter)
    BY <1>6 DEF Verdict
  <2> HIDE DEF r, m, s, now
  <2>5. r.gone => Aged(s)
    BY <2>1, <2>2 DEF SessionSound
  <2>6. /\ Grows /\ SessionsSound' /\ ChallengesUsedOnce' /\ SessionIds' = SessionIds
        /\ \A t \in SessionIds : sessions'[t] = IF t = s THEN r ELSE sessions[t]
    BY <1>1, <1>3, <2>2, <2>3, <2>5, SessionUpdate
  <2>7. AcceptedSound'
    <3> DEFINE a == Append(accepted[s], m.counter)
    <3>1. /\ accepted \in Seq(Seq(Nat)) /\ Len(accepted) = Len(sessions) /\ s \in 1..Len(accepted)
          /\ AcceptedUpTo(accepted[s], sessions[s].lastCounter)
      BY <1>3 DEF AuthInv, AcceptedSound, SessionIds
    <3>2. accepted[s] \in Seq(Nat) /\ sessions[s].lastCounter \in Nat
      BY <2>1, <3>1 DEF Session
    <3>3. a \in Seq(Nat) /\ AcceptedUpTo(a, m.counter)
      BY <1>4, <2>4, <3>1, <3>2, AcceptedAppend
    <3>4. accepted' = [accepted EXCEPT ![s] = a]
      BY <1>6
    <3> HIDE DEF a
    <3>5. /\ accepted' \in Seq(Seq(Nat)) /\ Len(accepted') = Len(accepted)
          /\ \A j \in 1..Len(accepted) : accepted'[j] = IF j = s THEN a ELSE accepted[j]
      BY <3>1, <3>3, <3>4, ExceptSeq
    <3>6. Len(sessions') = Len(sessions)
      BY <1>3, <2>2, <2>3, ExceptSeq DEF AuthInv, SessionsSound, SessionIds
    <3>7. \A t \in SessionIds : AcceptedUpTo(accepted'[t], sessions'[t].lastCounter)
      BY <2>2, <2>6, <3>1, <3>3, <3>5 DEF AuthInv, AcceptedSound, SessionIds
    <3> QED
      BY <2>6, <3>1, <3>5, <3>6, <3>7 DEF AcceptedSound
  <2> QED
    BY <2>2, <2>6, <2>7
<1> QED
  BY <1>5, <1>6 DEF Authenticate

LEMMA AuthenticateStep ==
  ASSUME AuthInv, NEW q \in Call, Authenticate(q)
  PROVE  AuthInv'
<1> DEFINE m == call[q].msg
<1>1. UNCHANGED <<clock, faults, challenges, buckets, admitted>>
  BY DEF Authenticate
<1>2. call[q].pc = "authenticate" /\ call[q] \in CallState /\ CallSound(call[q])
  BY DEF Authenticate, AuthInv, CallsSound
<1>3. m \in Message /\ m.owner \in Cranker /\ m.kind = "request"
  BY <1>2, MessageKinds DEF CallSound
<1>4. /\ Grows /\ SessionsSound' /\ ChallengesUsedOnce' /\ AcceptedSound'
      /\ SessionIds' = SessionIds
      /\ \A t \in SessionIds : sessions'[t].nonce = sessions[t].nonce
  BY AuthenticateStore
<1>5. RatesSound'
  BY <1>1, <1>4, RatesFrame
<1>6. (\A p \in Call : call'[p].pc = "open" => call[p].pc = "open" /\ call'[p].msg = call[p].msg)
      => OpensOnce'
  BY <1>4 DEF AuthInv, OpensOnce
<1>7. CASE Frees(q) /\ TakesVerdict(m, Verdict(m, call[q].now))
  <2>1. ClientsSound' /\ CallsSound'
    BY <1>3, <1>4, <1>7, TakesVerdictSound, FreeCall
  <2>2. \A p \in Call : call'[p].pc = "open" => call[p].pc = "open" /\ call'[p].msg = call[p].msg
    BY <1>7 DEF Frees, Free, AuthInv, CallsSound
  <2> QED
    BY <1>1, <1>4, <1>5, <1>6, <2>1, <2>2 DEF AuthInv
<1> DEFINE k == [call[q] EXCEPT !.pc = "unlist", !.now = 0, !.rates = StaleBuckets(clock)]
           b == daemon[m.owner].served \/ daemon[m.owner].waiting = m
           d == [daemon[m.owner] EXCEPT !.served = b]
<1>8. CASE /\ call' = [call EXCEPT ![q].pc = "unlist", ![q].now = 0,
                                   ![q].rates = StaleBuckets(clock)]
           /\ daemon' = [daemon EXCEPT ![m.owner].served = @ \/ daemon[m.owner].waiting = m]
           /\ UNCHANGED network
  <2>1. daemon[m.owner] \in Daemon /\ DaemonSound(m.owner, daemon[m.owner])
    BY <1>3 DEF AuthInv, ClientsSound
  <2>2. daemon' = [daemon EXCEPT ![m.owner] = d]
    BY <1>8
  <2>3. b \in BOOLEAN
    OBVIOUS
  <2> HIDE DEF b
  <2>4. d \in Daemon /\ d.session = daemon[m.owner].session
        /\ d.waiting = daemon[m.owner].waiting /\ d.pc = daemon[m.owner].pc
    BY <2>1, <2>3, Zenon DEF Daemon
  <2> HIDE DEF d
  <2>5. DaemonSound(m.owner, d)
    BY <2>1, <2>4 DEF DaemonSound
  <2>6. \A x, c : x = d /\ c = m.owner => DaemonSound(c, x)'
    BY <1>4, <2>5, DaemonKept
  <2>7. daemon' \in [Cranker -> Daemon] /\ \A c \in Cranker : DaemonSound(c, daemon[c])'
    BY <1>3, <1>4, <2>2, <2>4, <2>6, NewDaemon
  <2>8. ClientsSound'
    BY <1>4, <1>8, <2>7, NetworkFrame DEF ClientsSound
  <2>9. \A x \in StaleBuckets(clock) : Over(x)
    <3> SUFFICES ASSUME NEW x \in StaleBuckets(clock)
                 PROVE  Over(x)
      OBVIOUS
    <3>1. x \in Bucket /\ buckets[x] # NULL /\ buckets[x].updatedAt + Minute <= clock
      BY DEF StaleBuckets, AuthInv, RatesSound
    <3>2. buckets[x].updatedAt \in Nat /\ clock \in Nat /\ x[2] \in Nat
      BY <3>1, BoundAssumption DEF AuthInv, RatesSound, Optional, RateLimit, Bucket
    <3>3. buckets[x].updatedAt \div Minute < clock \div Minute
          /\ buckets[x].updatedAt \div Minute \in Nat /\ clock \div Minute \in Nat
      BY <3>1, <3>2, DivMonotone
    <3>4. x[2] <= buckets[x].updatedAt \div Minute
      BY <3>1 DEF AuthInv, RatesSound, RateSound
    <3> QED
      BY <3>1, <3>2, <3>3, <3>4 DEF Over
  <2>10. k \in CallState /\ k.pc = "unlist" /\ k.now = 0 /\ k.rates = StaleBuckets(clock)
         /\ k.msg = m /\ k.ids = call[q].ids /\ k.nonces = call[q].nonces
    <3>1. StaleBuckets(clock) \subseteq Bucket
      BY <2>9 DEF Over
    <3> QED
      BY <1>2, <3>1 DEF CallState, CallPC
  <2>11. call' = [call EXCEPT ![q] = k]
    BY <1>8
  <2> HIDE DEF k
  <2>12. CallSound(k)
    BY <1>2, <1>3, <1>4, <2>9, <2>10 DEF CallSound, Grows
  <2>13. \A x : x = k => CallSound(x)'
    BY <1>4, <2>10, <2>12, CallKept
  <2>14. CallsSound'
    BY <1>4, <2>10, <2>11, <2>13, NewCall
  <2>15. \A p \in Call : call'[p].pc = "open" => call[p].pc = "open" /\ call'[p].msg = call[p].msg
    BY <2>10, <2>11 DEF AuthInv, CallsSound
  <2> QED
    BY <1>1, <1>4, <1>5, <1>6, <2>8, <2>14, <2>15 DEF AuthInv
<1> QED
  BY <1>7, <1>8 DEF Authenticate

(* A deleted bucket's minute is over.                                      *)
LEMMA PruneBucketStep ==
  ASSUME AuthInv, NEW q \in Call, NEW b, PruneBucket(q, b)
  PROVE  AuthInv'
<1> DEFINE k == [call[q] EXCEPT !.rates = @ \ {b}]
<1>1. UNCHANGED <<clock, faults, challenges, sessions, daemon, network, accepted, admitted>>
  BY DEF PruneBucket
<1>2. Grows
  BY <1>1, GrowsFrame, BoundAssumption DEF AuthInv
<1>3. call[q].pc = "unlist" /\ call[q] \in CallState /\ CallSound(call[q]) /\ Over(b)
  BY DEF PruneBucket, AuthInv, CallsSound, CallSound
<1>4. k \in CallState /\ k.rates \subseteq call[q].rates
      /\ k.pc = "unlist" /\ k.msg = call[q].msg /\ k.now = call[q].now /\ k.nonces = call[q].nonces
      /\ k.ids = call[q].ids
  BY <1>3 DEF CallState
<1>5. call' = [call EXCEPT ![q] = k]
  BY DEF PruneBucket
<1> HIDE DEF k
<1>6. CallSound(k)
  BY <1>3, <1>4 DEF CallSound
<1>7. \A x : x = k => CallSound(x)'
  BY <1>2, <1>4, <1>6, CallKept
<1>8. CallsSound' /\ OpensOnce'
  BY <1>1, <1>2, <1>4, <1>5, <1>7, NewCall, OneCall
<1>9. ClientsSound'
  BY <1>1, <1>2, DaemonsFrame, NetworkFrame DEF ClientsSound
<1>10. SessionsSound' /\ ChallengesUsedOnce' /\ AcceptedSound'
  BY <1>1, <1>2, SessionsFrame, UsedOnceFrame, AcceptedFrame DEF AuthInv, SessionsSound
<1>11. RatesSound'
  <2>1. buckets \in [Bucket -> Optional(RateLimit)] /\ b \in Bucket
    BY <1>3 DEF AuthInv, RatesSound, Over
  <2>2. buckets' = [buckets EXCEPT ![b] = NULL]
    BY DEF PruneBucket
  <2>3. buckets' \in [Bucket -> Optional(RateLimit)]
    BY <2>1, <2>2 DEF Optional
  <2>4. RateSound(b)'
    <3>1. buckets'[b] = NULL /\ RateSound(b)
      BY <2>1, <2>2 DEF AuthInv, RatesSound
    <3>2. ~(b[2] >= clock' \div Minute)
      <4>1. b[2] \in Nat /\ clock \div Minute \in Nat
        BY <2>1, DivMonotone, BoundAssumption DEF Bucket, AuthInv
      <4> QED
        BY <1>1, <1>3, <4>1 DEF Over
    <3> QED
      BY <1>1, <3>1, <3>2, BoundAssumption DEF RateSound, Count
  <2>5. ASSUME NEW x \in Bucket, x # b
        PROVE  RateSound(x)'
    <3>1. buckets'[x] = buckets[x] /\ RateSound(x)
      BY <2>1, <2>2, <2>5 DEF AuthInv, RatesSound
    <3> QED
      BY <1>1, <3>1 DEF RateSound, Count
  <2> QED
    BY <1>1, <2>3, <2>4, <2>5 DEF AuthInv, RatesSound
<1> QED
  BY <1>1, <1>8, <1>9, <1>10, <1>11 DEF AuthInv

LEMMA ComputeBucketStep ==
  ASSUME AuthInv, NEW q \in Call, ComputeBucket(q)
  PROVE  AuthInv'
<1> DEFINE k == [call[q] EXCEPT !.pc = "count", !.now = clock]
<1>1. UNCHANGED <<clock, faults, daemon, network, challenges, sessions, buckets, accepted, admitted>>
  BY DEF ComputeBucket, store
<1>2. Grows /\ clock \in Nat
  BY <1>1, GrowsFrame, BoundAssumption DEF AuthInv
<1>3. call[q].pc = "unlist" /\ call[q] \in CallState /\ CallSound(call[q])
  BY DEF ComputeBucket, AuthInv, CallsSound
<1>4. k \in CallState /\ k.rates = call[q].rates
      /\ k.pc = "count" /\ k.msg = call[q].msg /\ k.now = clock /\ k.nonces = call[q].nonces
      /\ k.ids = call[q].ids
  BY <1>2, <1>3 DEF CallState, CallPC
<1>5. call' = [call EXCEPT ![q] = k]
  BY DEF ComputeBucket
<1> HIDE DEF k
<1>6. CallSound(k)
  BY <1>2, <1>3, <1>4 DEF CallSound
<1>7. \A x : x = k => CallSound(x)'
  BY <1>2, <1>4, <1>6, CallKept
<1>8. CallsSound' /\ OpensOnce'
  BY <1>1, <1>2, <1>4, <1>5, <1>7, NewCall, OneCall
<1>9. ClientsSound'
  BY <1>1, <1>2, DaemonsFrame, NetworkFrame DEF ClientsSound
<1>10. SessionsSound' /\ ChallengesUsedOnce' /\ AcceptedSound' /\ RatesSound'
  BY <1>1, <1>2, SessionsFrame, UsedOnceFrame, AcceptedFrame, RatesFrame DEF AuthInv, SessionsSound
<1> QED
  BY <1>1, <1>8, <1>9, <1>10 DEF AuthInv

LEMMA CountLeaseStep ==
  ASSUME AuthInv, NEW q \in Call, CountLease(q)
  PROVE  AuthInv'
<1> DEFINE m == call[q].msg
           b == BucketAt(m.owner, call[q].now)
<1>1. UNCHANGED <<clock, faults, challenges, sessions, network, accepted>>
      /\ Frees(q) /\ Answered(m)
  BY DEF CountLease
<1>2. Grows /\ clock \in Nat
  BY <1>1, GrowsFrame, BoundAssumption DEF AuthInv
<1>3. call[q].pc = "count" /\ call[q] \in CallState /\ CallSound(call[q])
  BY DEF CountLease, AuthInv, CallsSound
<1>4. m.owner \in Cranker /\ call[q].now \in Nat /\ call[q].now <= clock
  BY <1>3, MessageKinds DEF CallSound, CallState
<1>5. ClientsSound'
  BY <1>1, <1>2, <1>4, StopsWaiting DEF Answered
<1>6. CallsSound' /\ OpensOnce'
  BY <1>1, <1>2, FreeCall, OneCall DEF Frees, Free
<1>7. SessionsSound' /\ ChallengesUsedOnce' /\ AcceptedSound'
  BY <1>1, <1>2, SessionsFrame, UsedOnceFrame, AcceptedFrame DEF AuthInv, SessionsSound
<1>8. RatesSound'
  <2>1. CASE UNCHANGED <<buckets, admitted>>
    BY <1>2, <2>1, RatesFrame
  <2> DEFINE r == [count |-> Count(b) + 1, updatedAt |-> clock]
             a == IF b = BucketAt(m.owner, clock) THEN admitted[b] + 1 ELSE admitted[b]
  <2>2. CASE /\ Count(b) < MaxAttempts
             /\ buckets' = [buckets EXCEPT ![b] = r]
             /\ admitted' = [admitted EXCEPT ![b] = a]
    <3>1. /\ b \in Bucket /\ b[2] = call[q].now \div Minute
          /\ b[2] <= clock \div Minute /\ b[2] \in Nat /\ clock \div Minute \in Nat
      <4>1. call[q].now \in 0..MaxClock
        BY <1>2, <1>4, BoundAssumption DEF AuthInv
      <4> QED
        BY <1>2, <1>4, <4>1, BucketType, DivMonotone
    <3>2. b = BucketAt(m.owner, clock) => b[2] = clock \div Minute
      BY DEF BucketAt
    <3>3. /\ buckets \in [Bucket -> Optional(RateLimit)] /\ admitted \in [Bucket -> Nat]
          /\ RateSound(b)
      BY <3>1 DEF AuthInv, RatesSound
    <3> HIDE DEF b
    <3>4. Count(b) \in Nat
      BY <3>1, <3>3 DEF Count, Optional, RateLimit
    <3>5. r \in RateLimit /\ a \in Nat
      BY <1>2, <3>1, <3>3, <3>4 DEF RateLimit
    <3>6. buckets' \in [Bucket -> Optional(RateLimit)] /\ admitted' \in [Bucket -> Nat]
      BY <2>2, <3>1, <3>3, <3>5 DEF Optional
    <3>7. buckets'[b] = r /\ admitted'[b] = a /\ r # NULL
      BY <2>2, <3>1, <3>3, <3>5, NullAssumption
    <3>8. \A x : x = b => RateSound(x)'
      <4>1. a <= Count(b) + 1 \/ ~(b[2] >= clock \div Minute)
        BY <3>1, <3>3, <3>4 DEF RateSound
      <4>2. a <= MaxAttempts
        BY <2>2, <3>1, <3>2, <3>3, <3>4, BoundAssumption DEF RateSound
      <4>3. Count(b) + 1 <= MaxAttempts
        BY <2>2, <3>4, BoundAssumption
      <4> QED
        BY <1>1, <3>1, <3>7, <4>1, <4>2, <4>3 DEF RateSound, Count
    <3>9. ASSUME NEW x \in Bucket, x # b
          PROVE  RateSound(x)'
      <4>1. buckets'[x] = buckets[x] /\ admitted'[x] = admitted[x] /\ RateSound(x)
        BY <2>2, <3>3, <3>9 DEF AuthInv, RatesSound
      <4> QED
        BY <1>1, <4>1 DEF RateSound, Count
    <3> QED
      BY <3>6, <3>8, <3>9 DEF RatesSound
  <2> QED
    BY <2>1, <2>2 DEF CountLease, Count
<1> QED
  BY <1>1, <1>5, <1>6, <1>7, <1>8 DEF AuthInv

-----------------------------------------------------------------------------
(* The invariant and what follows from it.                                 *)

LEMMA AuthInitInv ==
  ASSUME AuthInit
  PROVE  AuthInv
<1> USE DEF AuthInit
<1>1. Len(sessions) = 0 /\ Len(accepted) = 0 /\ SessionIds = {}
  BY DEF SessionIds
<1>2. clock \in 0..MaxClock /\ faults \in 0..MaxFaults
  BY BoundAssumption
<1>3. ClientsSound
  <2>1. \A c \in Cranker : DaemonSound(c, Started)
    BY DEF DaemonSound, Started
  <2> QED
    BY <2>1, StartedType DEF ClientsSound
<1>4. CallsSound
  <2>1. CallSound(Free)
    BY DEF CallSound, Free
  <2> QED
    BY <2>1, FreeType DEF CallsSound
<1>5. SessionsSound
  BY <1>1 DEF SessionsSound
<1>6. OpensOnce /\ ChallengesUsedOnce
  BY DEF OpensOnce, ChallengesUsedOnce, Free
<1>7. AcceptedSound
  BY <1>1 DEF AcceptedSound
<1>8. RatesSound
  <2>1. \A b \in Bucket : RateSound(b)
    BY BoundAssumption DEF RateSound, Count
  <2> QED
    BY <2>1 DEF RatesSound, Optional
<1> QED
  BY <1>2, <1>3, <1>4, <1>5, <1>6, <1>7, <1>8 DEF AuthInv

LEMMA AuthNextInv ==
  ASSUME AuthInv, [AuthNext]_vars
  PROVE  AuthInv'
<1>1. CASE UNCHANGED vars
  BY <1>1, ClientStep DEF vars, store, AuthInv, ClientsSound, MessageSound, DaemonSound,
                          Nonces, SessionIds
<1>2. ASSUME NEW c \in Cranker, DaemonStep(c)
      PROVE  AuthInv'
  BY <1>2, BeginStep, DaemonFaultStep DEF DaemonStep
<1>3. ASSUME NEW q \in Call, ChallengeStep(q)
      PROVE  AuthInv'
  BY <1>3, ChallengeArrivesStep, PruneChallengeStep, PruneSessionStep, IssueChallengeStep
     DEF ChallengeStep
<1>4. ASSUME NEW q \in Call, SessionStep(q)
      PROVE  AuthInv'
  BY <1>4, OpenSessionStep, ConsumeStep DEF SessionStep
<1>5. ASSUME NEW q \in Call, RequestStep(q)
      PROVE  AuthInv'
  BY <1>5, RequestArrivesStep, AuthenticateStep, PruneBucketStep, ComputeBucketStep,
     CountLeaseStep DEF RequestStep
<1>6. ASSUME NEW q \in Call, CallFails(q)
      PROVE  AuthInv'
  BY <1>6, CallFailsStep
<1>7. CASE Tick
  BY <1>7, TickStep
<1> QED
  BY <1>1, <1>2, <1>3, <1>4, <1>5, <1>6, <1>7 DEF AuthNext

(* The documents of cranker-auth.ts, the requests in progress and the      *)
(* daemons keep their types, and a session is never made without the place *)
(* for its counters.                                                       *)
THEOREM AuthTypeCorrect == AuthSpec => []AuthTypeOK
<1>1. AuthInit => AuthInv
  BY AuthInitInv
<1>2. AuthInv /\ [AuthNext]_vars => AuthInv'
  BY AuthNextInv
<1>3. AuthInv => AuthTypeOK
  BY BoundAssumption DEF AuthInv, AuthTypeOK, ClientsSound, CallsSound, SessionsSound, RatesSound,
         AcceptedSound
<1> QED
  BY <1>1, <1>2, <1>3, PTL DEF AuthSpec

(* However many handlers serve it at once and however often its answer is  *)
(* delivered, a challenge never buys two sessions (issueCrankerSession).   *)
THEOREM ChallengesAlwaysUsedOnce == AuthSpec => []ChallengesUsedOnce
<1>1. AuthInit => AuthInv
  BY AuthInitInv
<1>2. AuthInv /\ [AuthNext]_vars => AuthInv'
  BY AuthNextInv
<1>3. AuthInv => ChallengesUsedOnce
  BY DEF AuthInv
<1> QED
  BY <1>1, <1>2, <1>3, PTL DEF AuthSpec

(* In every session the accepted counters increase: no request is accepted *)
(* twice, and none after one with a later counter, for any number of calls *)
(* and sessions (authenticateCrankerRequest).                              *)
THEOREM AlwaysAcceptedInOrder == AuthSpec => []AcceptedInOrder
<1>1. AuthInit => AuthInv
  BY AuthInitInv
<1>2. AuthInv /\ [AuthNext]_vars => AuthInv'
  BY AuthNextInv
<1>3. AuthInv => AcceptedInOrder
  <2> SUFFICES ASSUME AuthInv, NEW s \in DOMAIN accepted, NEW i \in DOMAIN accepted[s],
                      NEW j \in DOMAIN accepted[s], i < j
               PROVE  accepted[s][i] < accepted[s][j]
    BY DEF AcceptedInOrder
  <2>1. s \in SessionIds /\ accepted[s] \in Seq(Nat)
    BY DEF AuthInv, AcceptedSound, SessionIds
  <2>2. i \in 1..Len(accepted[s]) /\ j \in 1..Len(accepted[s])
    BY <2>1
  <2> QED
    BY <2>1, <2>2 DEF AuthInv, AcceptedSound, AcceptedUpTo
<1> QED
  BY <1>1, <1>2, <1>3, PTL DEF AuthSpec

(* Before the idle limit has passed since it was made, a session that the  *)
(* daemon got for its second attempt is not refused: no prune, however     *)
(* old its query, deletes it (receiverRequest, issueCrankerChallenge).     *)
THEOREM RetryAlwaysGetsThrough == AuthSpec => []RetryGetsThrough
<1>1. AuthInit => AuthInv
  BY AuthInitInv
<1>2. AuthInv /\ [AuthNext]_vars => AuthInv'
  BY AuthNextInv
<1>3. AuthInv => RetryGetsThrough
  <2> SUFFICES ASSUME AuthInv, NEW c \in Cranker, daemon[c].pc = "request",
                      Verdict(daemon[c].waiting, clock) \in SessionRefusal
               PROVE  clock >= sessions[daemon[c].waiting.session].createdAt + IdleTTL
    BY DEF RetryGetsThrough
  <2> DEFINE m == daemon[c].waiting
             r == sessions[m.session]
  <2>1. m \in Request /\ m \in Message
    BY DEF AuthInv, ClientsSound, DaemonSound, Message
  <2>2. m.owner = c /\ MessageSound(m) /\ m.kind = "request"
    BY <2>1, MessageKinds DEF AuthInv, ClientsSound, DaemonSound, Request
  <2>3. m.session \in SessionIds /\ r.owner = m.owner
    BY <2>2 DEF MessageSound
  <2>4. r \in Session /\ SessionSound(m.session)
    BY <2>3 DEF AuthInv, SessionsSound, SessionIds
  <2>5. r.createdAt \in Nat /\ r.lastSeenAt \in Nat /\ clock \in Nat
    BY <2>4, BoundAssumption DEF Session, AuthInv
  <2>6. r.gone \/ r.expiresAt <= clock \/ clock > r.lastSeenAt + IdleTTL
    BY <2>3 DEF Verdict, SessionRefusal
  <2> QED
    BY <2>4, <2>5, <2>6, TimeAssumption DEF SessionSound, Aged
<1> QED
  BY <1>1, <1>2, <1>3, PTL DEF AuthSpec

(* In its own minute a bucket admits at most MaxAttempts leases, whatever  *)
(* the concurrent handlers prune and count (enforceCrankerLeaseRateLimit). *)
THEOREM RateAlwaysHolds == AuthSpec => []RateHolds
<1>1. AuthInit => AuthInv
  BY AuthInitInv
<1>2. AuthInv /\ [AuthNext]_vars => AuthInv'
  BY AuthNextInv
<1>3. AuthInv => RateHolds
  BY DEF AuthInv, RatesSound, RateSound, RateHolds
<1> QED
  BY <1>1, <1>2, <1>3, PTL DEF AuthSpec
=============================================================================
