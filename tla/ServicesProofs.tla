---------------------------- MODULE ServicesProofs ----------------------------
(***************************************************************************)
(* Proofs about the services beside the settlement: the RPC gateway never  *)
(* loses a failure of its leader and its requests run out of attempts, its *)
(* WebSockets open and close in pairs, and the Receiver's file store edits *)
(* its file atomically and consumes an item once.  They hold for any       *)
(* number of providers, requests, sockets, processes, items and crashes.   *)
(***************************************************************************)
EXTENDS RpcGateway, GatewaySockets, LocalStore, Sums, SequenceTheorems, TLAPS

-----------------------------------------------------------------------------
(* The RPC gateway *)

RequestFields == {"pc", "ranked", "entries"}

GatewayTypeOK ==
    /\ round \in [start : Nat, open : SUBSET Providers, number : Nat]
    /\ gclock \in Nat
    /\ unseen \in BOOLEAN
    /\ DOMAIN request = Requests
    /\ \A q \in Requests : DOMAIN request[q] = RequestFields

\* A request that has a provider left to try shows that the pool is not
\* empty, which is why a round begun by the leader's failure has open probes.
PoolIsUsed == \A q \in Requests : request[q].ranked # <<>> => Providers # {}

GatewayInv == GatewayTypeOK /\ PoolIsUsed /\ LeaderFailureIsSeen

\* An empty pool is sorted into the empty sequence (RankedProviders).
LEMMA EmptyPoolRanked ==
    ASSUME NEW st, NEW lead, NEW kind,
           NEW r \in RankedProviders(st, lead, kind), Providers = {}
    PROVE  r = <<>>
<1>1. r \in [1..Cardinality({}) -> {}]
  BY DEF RankedProviders, SetToSeqs
<1>2. Cardinality({}) = 0
  BY FS_EmptySet
<1>3. r \in Seq({}) /\ Len(r) = 0
  <2>1. r \in [1..0 -> {}]
    BY <1>1, <1>2, Zenon
  <2> QED
    BY <2>1
<1> QED
  BY <1>3, EmptySeq

\* What a request is after its next entry was chosen (RequestFrom).
LEMMA RequestFromShape ==
    ASSUME NEW st, NEW lead, NEW entries, NEW next \in RequestFrom(st, lead, entries)
    PROVE  /\ DOMAIN next = RequestFields
           /\ next.ranked # <<>> => Providers # {}
<1> DEFINE i == Min(Forwarded(entries))
           rest == SubSeq(entries, i, Len(entries))
<1>1. CASE next = [pc |-> "done", ranked |-> <<>>, entries |-> <<>>]
  BY <1>1 DEF RequestFields
<1>2. ASSUME NEW r \in RankedProviders(st, lead, entries[i]),
             next = [pc |-> "trying", ranked |-> r, entries |-> rest]
      PROVE  /\ DOMAIN next = RequestFields
             /\ next.ranked # <<>> => Providers # {}
  <2> HIDE DEF rest
  <2>1. DOMAIN next = RequestFields /\ next.ranked = r
    BY <1>2 DEF RequestFields
  <2> HIDE DEF i
  <2> QED
    BY <2>1, EmptyPoolRanked
<1> QED
  BY <1>1, <1>2 DEF RequestFrom

\* A round that begins, or is in flight already, has a probe open
\* (runProbeRound) when there is a provider at all.
LEMMA RoundBegunOpen ==
    ASSUME GatewayTypeOK
    PROVE  /\ RoundBegun \in [start : Nat, open : SUBSET Providers, number : Nat]
           /\ Probing \/ Providers # {} => RoundBegun.open # {}
BY GatewayConstants DEF GatewayTypeOK, RoundBegun, Probing, Smaller

LEMMA GatewayInitInv == GatewayInit => GatewayInv
<1> SUFFICES ASSUME GatewayInit PROVE GatewayInv
  OBVIOUS
<1>1. /\ DOMAIN request = Requests
      /\ \A q \in Requests : DOMAIN request[q] = RequestFields /\ request[q].ranked = <<>>
  BY DEF GatewayInit, RequestFields
<1>2. round \in [start : Nat, open : SUBSET Providers, number : Nat]
  BY DEF GatewayInit
<1> QED
  BY <1>1, <1>2 DEF GatewayInit, GatewayInv, GatewayTypeOK, PoolIsUsed, LeaderFailureIsSeen

LEMMA GatewayStepInv == GatewayInv /\ [GatewayNext]_gatewayVars => GatewayInv'
<1> SUFFICES ASSUME GatewayInv, [GatewayNext]_gatewayVars
             PROVE  GatewayInv'
  OBVIOUS
<1> USE DEF GatewayInv
<1> DEFINE RoundSet == [start : Nat, open : SUBSET Providers, number : Nat]
<1>1. CASE UNCHANGED gatewayVars
  BY <1>1 DEF gatewayVars, GatewayTypeOK, PoolIsUsed, LeaderFailureIsSeen, Probing
<1>2. CASE GatewayTick
  BY <1>2 DEF GatewayTick, GatewayTypeOK, PoolIsUsed, LeaderFailureIsSeen, Probing
<1>3. CASE TimerFires
  <2>1. round' \in RoundSet /\ (Probing \/ Providers # {} => round'.open # {})
    BY <1>3, RoundBegunOpen DEF TimerFires
  <2>2. unseen' => Probing
    BY <1>3 DEF TimerFires, LeaderFailureIsSeen
  <2> QED
    BY <1>3, <2>1, <2>2 DEF TimerFires, GatewayTypeOK, PoolIsUsed, LeaderFailureIsSeen, Probing
<1>4. ASSUME NEW p \in Providers, NEW ok \in ProbeResults, ProbeAnswers(p, ok)
      PROVE  GatewayInv'
  <2>1. /\ round' \in RoundSet
        /\ round'.open = round.open \ {p}
    BY <1>4 DEF ProbeAnswers, GatewayTypeOK
  <2>2. unseen' \in BOOLEAN /\ (unseen' => round.open # {p} /\ unseen)
    BY <1>4 DEF ProbeAnswers, GatewayTypeOK
  <2>3. LeaderFailureIsSeen'
    BY <1>4, <2>1, <2>2 DEF LeaderFailureIsSeen, Probing, ProbeAnswers
  <2> QED
    BY <1>4, <2>1, <2>2, <2>3 DEF ProbeAnswers, GatewayTypeOK, PoolIsUsed
<1>5. ASSUME NEW q \in Requests, NEW e \in Payloads[q], Receives(q, e)
      PROVE  GatewayInv'
  <2>1. PICK next \in RequestFrom(stats, leader, e) : request' = [request EXCEPT ![q] = next]
    BY <1>5 DEF Receives
  <2>2. DOMAIN next = RequestFields /\ (next.ranked # <<>> => Providers # {})
    BY <2>1, RequestFromShape
  <2> QED
    BY <1>5, <2>1, <2>2 DEF Receives, GatewayTypeOK, PoolIsUsed, LeaderFailureIsSeen, Probing
<1>6. ASSUME NEW q \in Requests, NEW o \in Outcomes, AttemptEnds(q, o)
      PROVE  GatewayInv'
  <2>1. Providers # {}
    BY <1>6 DEF AttemptEnds, PoolIsUsed
  <2>2. /\ round' \in RoundSet
        /\ unseen' \in BOOLEAN
        /\ unseen' => round'.open # {}
    BY <1>6, <2>1, RoundBegunOpen DEF AttemptEnds, GatewayTypeOK, LeaderFailureIsSeen, Probing
  <2>3. /\ DOMAIN request' = Requests
        /\ \A z \in Requests : DOMAIN request'[z] = RequestFields
    <3>1. CASE request' = [request EXCEPT ![q].ranked = Tail(@)]
      BY <3>1 DEF GatewayTypeOK, RequestFields
    <3>2. ASSUME NEW next \in RequestFrom(stats', leader', Tail(request[q].entries)),
                 request' = [request EXCEPT ![q] = next]
          PROVE  /\ DOMAIN request' = Requests
                 /\ \A z \in Requests : DOMAIN request'[z] = RequestFields
      BY <3>2, RequestFromShape DEF GatewayTypeOK
    <3> QED
      BY <1>6, <3>1, <3>2 DEF AttemptEnds
  <2> QED
    BY <1>6, <2>1, <2>2, <2>3 DEF AttemptEnds, GatewayTypeOK, PoolIsUsed, LeaderFailureIsSeen, Probing
<1> QED
  BY <1>1, <1>2, <1>3, <1>4, <1>5, <1>6 DEF GatewayNext

\* Whatever the providers do and however requests and probes interleave, a
\* failure of the leader that no choice has seen yet has a probe round in
\* flight whose end will choose again (provider-pool.mjs recordOutcome,
\* runProbeRound).
THEOREM LeaderFailureIsAlwaysSeen == GatewaySpec => []LeaderFailureIsSeen
<1>1. GatewayInv => LeaderFailureIsSeen
  BY DEF GatewayInv
<1> QED
  BY <1>1, GatewayInitInv, GatewayStepInv, PTL DEF GatewaySpec

-----------------------------------------------------------------------------
(* The attempts of a request. The pool is never empty, since the default    *)
(* URL is always in it, and an order of the pool has every provider once;   *)
(* so a request that has not been answered has a provider left that its     *)
(* entry was not sent to, and every attempt leaves it with less to try.     *)

Entries == MethodKinds \cup {"invalid"}

\* an order of providers in which none comes twice
Distinct(ranked) ==
    /\ ranked \in Seq(Providers)
    /\ \A i, j \in 1..Len(ranked) : i # j => ranked[i] # ranked[j]

\* a request that is being tried has an entry and a provider to send it to
Triable(req) ==
    req.pc = "trying" => /\ req.ranked # <<>> /\ Distinct(req.ranked)
                         /\ req.entries # <<>> /\ req.entries \in Seq(Entries)

RequestsTriable == \A q \in Requests : Triable(request[q])

\* what is left of a request: an answer, fewer entries, or fewer providers
Advances(old, new) ==
    \/ new.pc = "done"
    \/ Len(new.entries) < Len(old.entries)
    \/ new.pc = "trying" /\ new.entries = old.entries /\ new.ranked = Tail(old.ranked)

AttemptsRunOut ==
    \A q \in Requests :
        request[q].pc = "trying" => request'[q] = request[q] \/ Advances(request[q], request'[q])

\* there is always the default URL
LEMMA PoolIsNotEmpty ==
    /\ Cardinality(Upstreams) \in Nat \ {0}
    /\ Cardinality(Providers) = Cardinality(Upstreams)
<1> DEFINE D == DOMAIN ConfiguredUrls
           T == {ConfiguredUrls[i] : i \in D}
           f == [i \in D |-> ConfiguredUrls[i]]
<1>1. IsFiniteSet(T)
  <2>1. f \in Surjection(D, T)
    BY DEF Surjection
  <2> HIDE DEF f, T
  <2> QED
    BY <2>1, FS_Surjection, GatewayConstants
<1>2. IsFiniteSet(Upstreams)
  <2> HIDE DEF T
  <2>1. IsFiniteSet(T \cup {DefaultUrl})
    BY <1>1, FS_AddElement
  <2> QED
    BY <2>1 DEF Upstreams, T
<1>3. Upstreams # {}
  BY DEF Upstreams
<1>4. Cardinality(Upstreams) \in Nat \ {0}
  BY <1>2, <1>3, FS_CardinalityType, FS_EmptySet
<1>5. Cardinality(1..Cardinality(Upstreams)) = Cardinality(Upstreams)
  <2> DEFINE n == Cardinality(Upstreams)
  <2> HIDE DEF n
  <2>1. n \in Nat \ {0}
    BY <1>4 DEF n
  <2>2. Cardinality(1..n) = IF 1 > n THEN 0 ELSE n - 1 + 1
    BY <2>1, FS_Interval
  <2>3. Cardinality(1..n) = n
    BY <2>1, <2>2
  <2> QED
    BY <2>3 DEF n
<1> QED
  BY <1>4, <1>5 DEF Providers

\* an order of the pool has every provider once
LEMMA RankedIsDistinct ==
    ASSUME NEW st, NEW lead, NEW kind, NEW r \in RankedProviders(st, lead, kind)
    PROVE  r # <<>> /\ Distinct(r)
<1> DEFINE n == Cardinality(Providers)
<1>1. /\ r \in [1..n -> Providers]
      /\ \A i, j \in 1..n : i # j => r[i] # r[j]
  BY DEF RankedProviders, SetToSeqs
<1>2. n \in Nat \ {0}
  BY PoolIsNotEmpty
<1> HIDE DEF n
<1>3. r \in Seq(Providers) /\ Len(r) = n
  BY <1>1, <1>2
<1>4. r # <<>>
  BY <1>2, <1>3
<1> QED
  BY <1>1, <1>3, <1>4 DEF Distinct

\* the next entry that is forwarded, if there is one
LEMMA RequestFromAdvances ==
    ASSUME NEW st, NEW lead, NEW entries \in Seq(Entries),
           NEW next \in RequestFrom(st, lead, entries)
    PROVE  /\ Triable(next) /\ next.pc \in {"trying", "done"}
           /\ next.pc = "trying" => Len(next.entries) <= Len(entries)
<1> DEFINE S == Forwarded(entries)
           i == Min(S)
           rest == SubSeq(entries, i, Len(entries))
<1>1. CASE next = [pc |-> "done", ranked |-> <<>>, entries |-> <<>>]
  BY <1>1 DEF Triable
<1>2. ASSUME S # {}, NEW r \in RankedProviders(st, lead, entries[i]),
             next = [pc |-> "trying", ranked |-> r, entries |-> rest]
      PROVE  /\ Triable(next) /\ next.pc \in {"trying", "done"}
             /\ next.pc = "trying" => Len(next.entries) <= Len(entries)
  <2> DEFINE n == Len(entries)
  <2>0. n \in Nat /\ S \in SUBSET (1..n)
    BY DEF Forwarded
  <2>1. i \in 1..n
    <3> HIDE DEF S, n
    <3>1. PICK k \in S : TRUE
      BY <1>2
    <3>2. k \in Nat /\ k \in 1..n
      BY <2>0, <3>1
    <3> DEFINE low == S \cap (0..k)
    <3>3. low \in SUBSET (0..k) /\ k \in low
      BY <3>1, <3>2
    <3>4. PICK m \in low : \A l \in low : m <= l
      <4> HIDE DEF low
      <4> QED
        BY <3>2, <3>3, LeastExists
    <3>5. m \in S /\ \A l \in S : m <= l
      <4>1. m \in S /\ m \in Nat /\ m <= k
        BY <3>2, <3>4
      <4>2. ASSUME NEW l \in S PROVE m <= l
        <5>1. l \in Nat
          BY <2>0
        <5>2. CASE l <= k
          BY <3>4, <5>1, <5>2
        <5>3. CASE ~ (l <= k)
          BY <3>2, <4>1, <5>1, <5>3
        <5> QED
          BY <5>2, <5>3
      <4> QED
        BY <4>1, <4>2
    <3>6. Min(S) \in S
      BY <3>5 DEF Min
    <3> QED
      BY <2>0, <3>6
  <2>2. \A j \in i..n : entries[j] \in Entries
    <3> HIDE DEF i
    <3>1. \A j \in i..n : j \in 1..n
      BY <2>0, <2>1
    <3> QED
      BY <3>1
  <2>3. rest \in Seq(Entries) /\ Len(rest) = n - i + 1
    <3> HIDE DEF i
    <3>1. i \in Int /\ n \in Int /\ i <= n
      BY <2>0, <2>1
    <3> QED
      BY <2>2, <3>1, SubSeqProperties
  <2>4. rest # <<>> /\ Len(rest) <= n
    <3> HIDE DEF i, rest, n
    <3> QED
      BY <2>0, <2>1, <2>3
  <2>5. r # <<>> /\ Distinct(r)
    <3> HIDE DEF i
    <3> QED
      BY RankedIsDistinct
  <2> HIDE DEF rest, i, S
  <2>6. next.pc = "trying" /\ next.ranked = r /\ next.entries = rest
    BY <1>2
  <2> QED
    BY <2>3, <2>4, <2>5, <2>6 DEF Triable
<1> QED
  BY <1>1, <1>2 DEF RequestFrom

\* one step keeps every request triable and advances the one it is about
LEMMA RequestsAdvance ==
    GatewayInv /\ RequestsTriable /\ [GatewayNext]_gatewayVars => RequestsTriable' /\ AttemptsRunOut
<1> SUFFICES ASSUME GatewayInv, RequestsTriable, [GatewayNext]_gatewayVars
             PROVE  RequestsTriable' /\ AttemptsRunOut
  OBVIOUS
<1>0. DOMAIN request = Requests /\ \A q \in Requests : DOMAIN request[q] = RequestFields
  BY DEF GatewayInv, GatewayTypeOK
<1>1. ASSUME UNCHANGED request PROVE RequestsTriable' /\ AttemptsRunOut
  BY <1>1 DEF RequestsTriable, Triable, AttemptsRunOut, Distinct
\* one request changes
<1>2. ASSUME NEW q \in Requests, NEW next, request' = [request EXCEPT ![q] = next],
             Triable(next), request[q].pc = "trying" => Advances(request[q], next)
      PROVE  RequestsTriable' /\ AttemptsRunOut
  <2>1. request'[q] = next /\ \A z \in Requests : z # q => request'[z] = request[z]
    BY <1>0, <1>2
  <2> QED
    BY <1>2, <2>1 DEF RequestsTriable, AttemptsRunOut, Triable, Distinct, Advances
<1>3. CASE UNCHANGED gatewayVars \/ GatewayTick \/ TimerFires
  BY <1>1, <1>3 DEF gatewayVars, GatewayTick, TimerFires
<1>4. ASSUME NEW p \in Providers, NEW ok \in ProbeResults, ProbeAnswers(p, ok)
      PROVE  RequestsTriable' /\ AttemptsRunOut
  BY <1>1, <1>4 DEF ProbeAnswers
<1>5. ASSUME NEW q \in Requests, NEW e \in Payloads[q], Receives(q, e)
      PROVE  RequestsTriable' /\ AttemptsRunOut
  <2>1. PICK next \in RequestFrom(stats, leader, e) : request' = [request EXCEPT ![q] = next]
    BY <1>5 DEF Receives
  <2>2. e \in Seq(Entries)
    BY GatewayConstants DEF Entries
  <2>3. Triable(next)
    BY <2>1, <2>2, RequestFromAdvances
  <2>4. request[q].pc # "trying"
    BY <1>5 DEF Receives
  <2> QED
    BY <1>2, <2>1, <2>3, <2>4
<1>6. ASSUME NEW q \in Requests, NEW o \in Outcomes, AttemptEnds(q, o)
      PROVE  RequestsTriable' /\ AttemptsRunOut
  <2> DEFINE ranked == request[q].ranked
             entries == request[q].entries
  <2>0. /\ request[q].pc = "trying" /\ ranked # <<>> /\ Distinct(ranked)
        /\ entries # <<>> /\ entries \in Seq(Entries)
    BY <1>6 DEF AttemptEnds, RequestsTriable, Triable
  <2>1. CASE request' = [request EXCEPT ![q].ranked = Tail(@)] /\ ~ LastProvider(q)
    <3> DEFINE next == [request[q] EXCEPT !.ranked = Tail(@)]
    <3>1. request' = [request EXCEPT ![q] = next]
      BY <1>0, <2>1
    <3>2. next.pc = "trying" /\ next.ranked = Tail(ranked) /\ next.entries = entries
      BY <1>0, <2>0 DEF RequestFields
    <3> HIDE DEF next
    <3>3. Len(ranked) # 1
      BY <2>1 DEF LastProvider
    <3> HIDE DEF ranked, entries
    <3>4. Tail(ranked) # <<>> /\ Distinct(Tail(ranked))
      <4>1. /\ ranked \in Seq(Providers) /\ Tail(ranked) \in Seq(Providers)
            /\ Len(Tail(ranked)) = Len(ranked) - 1
            /\ \A i \in 1..Len(Tail(ranked)) : Tail(ranked)[i] = ranked[i + 1]
        BY <2>0, HeadTailProperties DEF Distinct
      <4>2. Len(ranked) \in Nat /\ Len(ranked) # 0
        BY <2>0, <4>1
      <4>3. Len(Tail(ranked)) # 0
        BY <3>3, <4>1, <4>2
      <4>4. ASSUME NEW i \in 1..Len(Tail(ranked)), NEW j \in 1..Len(Tail(ranked)), i # j
            PROVE  Tail(ranked)[i] # Tail(ranked)[j]
        <5>1. i + 1 \in 1..Len(ranked) /\ j + 1 \in 1..Len(ranked) /\ i + 1 # j + 1
          BY <4>1, <4>2, <4>4
        <5>2. ranked[i + 1] # ranked[j + 1]
          BY <2>0, <5>1 DEF Distinct
        <5> QED
          BY <4>1, <5>2
      <4>5. Tail(ranked) # <<>>
        BY <4>1, <4>3, EmptySeq
      <4> QED
        BY <4>1, <4>4, <4>5 DEF Distinct
    <3>5. Triable(next)
      BY <2>0, <3>2, <3>4 DEF Triable
    <3>6. Advances(request[q], next)
      BY <3>2 DEF Advances, ranked, entries
    <3> QED
      BY <1>2, <3>1, <3>5, <3>6
  <2>2. ASSUME NEW next \in RequestFrom(stats', leader', Tail(entries)),
               request' = [request EXCEPT ![q] = next]
        PROVE  RequestsTriable' /\ AttemptsRunOut
    <3>1. Tail(entries) \in Seq(Entries) /\ Len(Tail(entries)) = Len(entries) - 1
      BY <2>0, HeadTailProperties
    <3>2. /\ Triable(next) /\ next.pc \in {"trying", "done"}
          /\ next.pc = "trying" => Len(next.entries) <= Len(Tail(entries))
      BY <2>2, <3>1, RequestFromAdvances
    <3>3. Len(entries) \in Nat /\ (next.pc = "trying" => Len(next.entries) \in Nat)
      BY <2>0, <3>2 DEF Triable
    <3>4. next.pc = "done" \/ Len(next.entries) < Len(entries)
      BY <3>1, <3>2, <3>3
    <3>5. Advances(request[q], next)
      BY <3>4 DEF Advances
    <3> QED
      BY <1>2, <2>2, <3>2, <3>5
  <2> QED
    BY <1>6, <2>1, <2>2 DEF AttemptEnds
<1> QED
  BY <1>3, <1>4, <1>5, <1>6 DEF GatewayNext

LEMMA RequestsTriableAtFirst == GatewayInit => RequestsTriable
  BY DEF GatewayInit, RequestsTriable, Triable

LEMMA GatewaySound == GatewaySpec => [](GatewayInv /\ RequestsTriable)
  BY GatewayInitInv, GatewayStepInv, RequestsTriableAtFirst, RequestsAdvance, PTL DEF GatewaySpec

\* A request that is not answered yet has an entry and a provider to send it
\* to next, and none of the providers left comes twice: an entry, a transaction
\* to submit included, is never sent to a provider a second time
\* (proxySinglePayload's loop over rankProviders).
THEOREM RequestsAreAlwaysTriable == GatewaySpec => []RequestsTriable
  BY GatewaySound, PTL

\* Every attempt leaves a request with less to try: it is answered, has fewer
\* entries, or has the same entry and one provider fewer. The pair of lengths
\* is what RequestsAreAnswered decreases, however requests and probes
\* interleave (proxyBatchPayload, proxySinglePayload).
THEOREM AttemptsAlwaysRunOut == GatewaySpec => [][AttemptsRunOut]_gatewayVars
<1>1. GatewayInv /\ RequestsTriable /\ [GatewayNext]_gatewayVars => [AttemptsRunOut]_gatewayVars
  BY RequestsAdvance
<1> QED
  BY <1>1, GatewaySound, PTL DEF GatewaySpec

-----------------------------------------------------------------------------
(* The Receiver's file store *)

Operations ==
    [pc : {"idle", "open", "look", "break", "held", "loaded", "closing", "dead"},
     kind : Kinds \cup {"none", "compact"}, fields : SUBSET Fields, age : Nat,
     data : SUBSET Fields, scanned : BOOLEAN, booted : BOOLEAN]

StoreTypeOK ==
    /\ file \subseteq Fields
    /\ lock \in [by : Workers \cup {"nobody"}, age : Nat]
    /\ op \in [Workers -> Operations]
    /\ intruded \in BOOLEAN
    /\ winners \in [Fields -> Nat]

\* Whoever is between opening and closing the lock file made the one there
\* is: so there is at most one such process.
InsideOwnsLock == \A w \in Workers : Inside(w) => lock.by = w

\* What a process is about to edit is still what the file holds.
LoadedIsFresh == \A w \in Workers : op[w].pc = "loaded" => op[w].data = file

\* An item that was won is in the file, so the next consume_once finds it.
WonIsStored == \A f \in Fields : winners[f] > 0 => f \in file

StoreInv ==
    /\ StoreTypeOK
    /\ ConsumedOnce
    /\ ~intruded => InsideOwnsLock /\ LoadedIsFresh /\ WonIsStored

LEMMA StoreInitInv == StoreInit => StoreInv
<1> SUFFICES ASSUME StoreInit PROVE StoreInv
  OBVIOUS
<1>1. Idle(FALSE) \in Operations /\ Idle(FALSE).pc = "idle"
  BY DEF Idle, Operations
<1>2. StoreTypeOK
  BY <1>1 DEF StoreInit, StoreTypeOK, NoLock
<1>3. \A w \in Workers : op[w].pc = "idle"
  BY <1>1 DEF StoreInit
<1>4. \A f \in Fields : winners[f] = 0
  BY DEF StoreInit
<1>5. InsideOwnsLock /\ LoadedIsFresh
  BY <1>3 DEF InsideOwnsLock, Inside, LoadedIsFresh
<1> QED
  BY <1>2, <1>4, <1>5 DEF StoreInv, ConsumedOnce, WonIsStored

\* A step of one process that leaves the file and the lock alone, and does
\* not let it into the critical section, disturbs nothing.
LEMMA OutsideStep ==
    ASSUME StoreInv, UNCHANGED <<file, winners, lock, intruded>>,
           NEW w \in Workers, op' \in [Workers -> Operations],
           \A v \in Workers \ {w} : op'[v] = op[v],
           op'[w].pc \in {"idle", "open", "look", "break", "dead"}
    PROVE  StoreInv'
<1>1. StoreTypeOK' /\ ConsumedOnce'
  BY DEF StoreInv, StoreTypeOK, ConsumedOnce
<1>2. ~intruded' => InsideOwnsLock' /\ LoadedIsFresh' /\ WonIsStored'
  BY DEF StoreInv, InsideOwnsLock, Inside, LoadedIsFresh, WonIsStored
<1> QED
  BY <1>1, <1>2 DEF StoreInv

\* Removing the lock file (Unlink): by the process inside when it leaves, or
\* by one outside; when that was the lock of another one inside, the history
\* says so.  A refusal leaves everything as it is.
LEMMA UnlinkStep ==
    ASSUME StoreInv, UNCHANGED <<file, winners>>,
           NEW w \in Workers, Unlink(w), op' \in [Workers -> Operations],
           \A v \in Workers \ {w} : op'[v] = op[v],
           op'[w].pc \in {"idle", "open"}
    PROVE  StoreInv'
<1>0. CASE UNCHANGED <<lock, intruded>>
  BY <1>0, OutsideStep
<1> SUFFICES ASSUME ~UNCHANGED <<lock, intruded>> PROVE StoreInv'
  BY <1>0
<1>1. lock' = NoLock /\ intruded' \in BOOLEAN /\ (intruded => intruded')
  BY DEF Unlink, StoreInv, StoreTypeOK
<1>2. StoreTypeOK'
  BY <1>1 DEF StoreInv, StoreTypeOK, NoLock
<1>3. ConsumedOnce'
  BY <1>1 DEF StoreInv, ConsumedOnce
<1>4. ASSUME ~intruded'
      PROVE  InsideOwnsLock' /\ LoadedIsFresh' /\ WonIsStored'
  <2>1. ASSUME NEW v \in Workers, Inside(v), v # w
        PROVE  FALSE
    <3>1. lock.by = v /\ lock # NoLock
      BY <1>1, <1>4, <2>1, StoreConstants DEF StoreInv, InsideOwnsLock, NoLock
    <3> QED
      BY <1>4, <2>1, <3>1 DEF Unlink
  <2>2. \A v \in Workers : ~(op'[v].pc \in {"held", "loaded", "closing"})
    BY <2>1 DEF Inside
  <2> QED
    BY <1>1, <1>4, <2>2 DEF StoreInv, InsideOwnsLock, Inside, LoadedIsFresh, WonIsStored
<1> QED
  BY <1>2, <1>3, <1>4 DEF StoreInv

\* The operations Start is called with.
LEMMA StartStep ==
    ASSUME StoreInv, NEW w \in Workers, NEW kind \in Kinds \cup {"compact"},
           NEW fields \in SUBSET Fields, Start(w, kind, fields)
    PROVE  StoreInv'
<1> DEFINE new == [op[w] EXCEPT !.pc = "open", !.kind = kind, !.fields = fields]
<1>1. op \in [Workers -> Operations] /\ op[w] \in Operations
  BY DEF StoreInv, StoreTypeOK
<1>2. new \in Operations /\ new.pc = "open"
  BY <1>1 DEF Operations
<1>3. op' = [op EXCEPT ![w] = new]
  BY DEF Start
<1>4. op' \in [Workers -> Operations] /\ op'[w].pc = "open"
      /\ \A v \in Workers \ {w} : op'[v] = op[v]
  <2> HIDE DEF new
  <2> QED
    BY <1>1, <1>2, <1>3
<1> QED
  BY <1>4, OutsideStep DEF Start

LEMMA StoreStepInv == StoreInv /\ [StoreNext]_storeVars => StoreInv'
<1> SUFFICES ASSUME StoreInv, [StoreNext]_storeVars
             PROVE  StoreInv'
  OBVIOUS
<1>0. op \in [Workers -> Operations] /\ StoreTypeOK
  BY DEF StoreInv, StoreTypeOK
<1>1. CASE UNCHANGED storeVars
  BY <1>1 DEF storeVars, StoreInv, StoreTypeOK, ConsumedOnce, InsideOwnsLock, Inside,
              LoadedIsFresh, WonIsStored
<1>2. CASE StoreTick
  <2>1. lock' \in [by : Workers \cup {"nobody"}, age : Nat] /\ lock'.by = lock.by
    BY <1>0, <1>2, StoreConstants DEF StoreTick, StoreTypeOK, Older, NoLock
  <2>2. op' \in [Workers -> Operations]
    BY <1>0, <1>2, StoreConstants DEF StoreTick, Operations, Older
  <2>3. \A w \in Workers : op'[w].pc = op[w].pc /\ op'[w].data = op[w].data
    BY <1>0, <1>2 DEF StoreTick, Operations
  <2> QED
    BY <1>2, <2>1, <2>2, <2>3 DEF StoreTick, StoreInv, StoreTypeOK, ConsumedOnce, InsideOwnsLock,
                                  Inside, LoadedIsFresh, WonIsStored
<1>3. ASSUME NEW w \in Workers, Crash(w)
      PROVE  StoreInv'
  <2>1. op' \in [Workers -> Operations] /\ op'[w].pc = "dead"
        /\ \A v \in Workers \ {w} : op'[v] = op[v]
    BY <1>0, <1>3 DEF Crash, Idle, Operations
  <2> QED
    BY <1>3, <2>1, OutsideStep DEF Crash
<1>4. ASSUME NEW w \in Workers, Restart(w)
      PROVE  StoreInv'
  <2>1. op' \in [Workers -> Operations] /\ op'[w].pc = "idle"
        /\ \A v \in Workers \ {w} : op'[v] = op[v]
    BY <1>0, <1>4 DEF Restart, Idle, Operations
  <2> QED
    BY <1>4, <2>1, OutsideStep DEF Restart
<1>5. ASSUME NEW w \in Workers, OpenLock(w)
      PROVE  StoreInv'
  <2>0. Idle(TRUE) \in Operations /\ Idle(TRUE).pc = "idle"
    BY DEF Idle, Operations
  <2>1. CASE UNCHANGED lock /\ (op' = [op EXCEPT ![w].pc = "look"] \/ op' = [op EXCEPT ![w] = Idle(TRUE)])
    <3> DEFINE looks == [op[w] EXCEPT !.pc = "look"]
    <3>0. looks \in Operations /\ looks.pc = "look"
      BY <1>0 DEF Operations
    <3>2. op' = [op EXCEPT ![w] = looks] \/ op' = [op EXCEPT ![w] = Idle(TRUE)]
      BY <2>1
    <3> HIDE DEF looks
    <3>1. op' \in [Workers -> Operations] /\ op'[w].pc \in {"look", "idle"}
          /\ \A v \in Workers \ {w} : op'[v] = op[v]
      BY <1>0, <2>0, <3>0, <3>2
    <3> QED
      BY <1>5, <2>1, <3>1, OutsideStep DEF OpenLock
  <2>2. CASE LockIsFree /\ lock' = [by |-> w, age |-> 0]
             /\ op' = [op EXCEPT ![w].pc = "held", ![w].age = 0]
    <3>1. op' \in [Workers -> Operations] /\ op'[w].pc = "held"
          /\ \A v \in Workers \ {w} : op'[v] = op[v]
      BY <1>0, <2>2 DEF Operations
    <3>2. lock' \in [by : Workers \cup {"nobody"}, age : Nat] /\ lock'.by = w
      BY <2>2
    <3>3. ~intruded => \A v \in Workers : ~Inside(v)
      BY <2>2, StoreConstants DEF LockIsFree, NoLock, StoreInv, InsideOwnsLock
    <3>4. UNCHANGED <<file, intruded, winners>>
      BY <1>5 DEF OpenLock
    <3>5. StoreTypeOK' /\ ConsumedOnce'
      BY <3>1, <3>2, <3>4 DEF StoreInv, StoreTypeOK, ConsumedOnce
    <3>6. ~intruded' => InsideOwnsLock' /\ LoadedIsFresh' /\ WonIsStored'
      BY <3>1, <3>2, <3>3, <3>4 DEF StoreInv, InsideOwnsLock, Inside, LoadedIsFresh, WonIsStored
    <3> QED
      BY <3>5, <3>6 DEF StoreInv
  <2> QED
    BY <1>5, <2>1, <2>2 DEF OpenLock
<1>6. ASSUME NEW w \in Workers, LookAtLock(w)
      PROVE  StoreInv'
  <2>1. op' \in [Workers -> Operations] /\ op'[w].pc \in {"break", "idle", "open"}
        /\ \A v \in Workers \ {w} : op'[v] = op[v]
    BY <1>0, <1>6 DEF LookAtLock, Idle, Operations
  <2> QED
    BY <1>6, <2>1, OutsideStep DEF LookAtLock
<1>7. ASSUME NEW w \in Workers, BreakLock(w)
      PROVE  StoreInv'
  <2>1. op' \in [Workers -> Operations] /\ op'[w].pc = "open"
        /\ \A v \in Workers \ {w} : op'[v] = op[v]
    BY <1>0, <1>7 DEF BreakLock, Operations
  <2> QED
    BY <1>7, <2>1, UnlinkStep DEF BreakLock
<1>8. ASSUME NEW w \in Workers, CloseLock(w)
      PROVE  StoreInv'
  <2>1. op' \in [Workers -> Operations] /\ op'[w].pc \in {"open", "idle"}
        /\ \A v \in Workers \ {w} : op'[v] = op[v]
    <3> DEFINE again == [op[w] EXCEPT !.pc = "open", !.age = 0, !.scanned = TRUE]
    <3>1. again \in Operations /\ again.pc = "open"
      BY <1>0 DEF Operations
    <3>2. Idle(TRUE) \in Operations /\ Idle(TRUE).pc = "idle"
      BY DEF Idle, Operations
    <3>3. op' = [op EXCEPT ![w] = again] \/ op' = [op EXCEPT ![w] = Idle(TRUE)]
      BY <1>8 DEF CloseLock
    <3> HIDE DEF again
    <3> QED
      BY <1>0, <3>1, <3>2, <3>3
  <2> QED
    BY <1>8, <2>1, UnlinkStep DEF CloseLock
<1>9. ASSUME NEW w \in Workers, LoadFile(w)
      PROVE  StoreInv'
  <2>1. op' \in [Workers -> Operations]
        /\ op'[w].pc \in {"closing", "loaded"}
        /\ (op'[w].pc = "loaded" => op'[w].data = file)
        /\ \A v \in Workers \ {w} : op'[v] = op[v]
    <3> DEFINE listed == [op[w] EXCEPT !.pc = "closing", !.fields = file]
               loaded == [op[w] EXCEPT !.pc = "loaded", !.data = file]
               failed == [op[w] EXCEPT !.pc = "closing", !.kind = "none"]
    <3>0. failed \in Operations /\ failed.pc = "closing"
      BY <1>0 DEF Operations
    <3>1. listed \in Operations /\ listed.pc = "closing"
      BY <1>0 DEF Operations, StoreTypeOK
    <3>2. loaded \in Operations /\ loaded.pc = "loaded" /\ loaded.data = file
      BY <1>0 DEF Operations, StoreTypeOK
    <3>3. \/ op' = [op EXCEPT ![w] = listed] \/ op' = [op EXCEPT ![w] = loaded]
          \/ op' = [op EXCEPT ![w] = failed]
      BY <1>9 DEF LoadFile
    <3> HIDE DEF listed, loaded, failed
    <3> QED
      BY <1>0, <3>0, <3>1, <3>2, <3>3
  <2>2. UNCHANGED <<file, lock, intruded, winners>> /\ Inside(w)
    BY <1>9 DEF LoadFile, Inside
  <2>3. StoreTypeOK' /\ ConsumedOnce'
    BY <2>1, <2>2 DEF StoreInv, StoreTypeOK, ConsumedOnce
  <2>4. ~intruded' => InsideOwnsLock' /\ LoadedIsFresh' /\ WonIsStored'
    BY <2>1, <2>2 DEF StoreInv, InsideOwnsLock, Inside, LoadedIsFresh, WonIsStored
  <2> QED
    BY <2>3, <2>4 DEF StoreInv
<1>10. ASSUME NEW w \in Workers, ReplaceFile(w)
       PROVE  StoreInv'
  <2>1. op' \in [Workers -> Operations]
        /\ op'[w].pc = "closing"
        /\ \A v \in Workers \ {w} : op'[v] = op[v]
    BY <1>0, <1>10 DEF ReplaceFile, Operations
  <2>2. UNCHANGED <<lock, intruded>> /\ Inside(w) /\ op[w].pc = "loaded"
    BY <1>10 DEF ReplaceFile, Inside
  <2>3. op[w].data \in SUBSET Fields /\ op[w].fields \in SUBSET Fields
    BY <1>0 DEF Operations
  <2>4. file' \subseteq Fields /\ winners' \in [Fields -> Nat]
    BY <1>0, <1>10, <2>3 DEF ReplaceFile, Edited, StoreTypeOK
  <2>5. StoreTypeOK'
    BY <1>0, <2>1, <2>2, <2>4 DEF StoreTypeOK
  <2>6. ASSUME ~intruded
        PROVE  /\ \A f \in Fields : winners'[f] <= 1 /\ (winners'[f] > 0 => f \in file')
               /\ \A v \in Workers \ {w} : ~Inside(v)
    <3>1. /\ \A f \in Fields : winners[f] \in Nat /\ winners[f] <= 1
          /\ WonIsStored
          /\ op[w].data = file
      BY <1>0, <2>2, <2>6 DEF StoreInv, StoreTypeOK, ConsumedOnce, LoadedIsFresh
    <3>2. \A v \in Workers \ {w} : ~Inside(v)
      BY <2>2, <2>6 DEF StoreInv, InsideOwnsLock
    <3>3. ASSUME NEW f \in Fields
          PROVE  winners'[f] <= 1 /\ (winners'[f] > 0 => f \in file')
      BY <1>10, <3>1 DEF ReplaceFile, Edited, Consumes, WonIsStored
    <3> QED
      BY <3>2, <3>3
  <2>7. ConsumedOnce'
    BY <2>2, <2>6 DEF ConsumedOnce
  <2>8. ~intruded' => InsideOwnsLock' /\ LoadedIsFresh' /\ WonIsStored'
    <3>1. ~intruded' => WonIsStored'
      BY <2>2, <2>6 DEF WonIsStored
    <3>2. ~intruded' => InsideOwnsLock' /\ LoadedIsFresh'
      BY <2>1, <2>2, <2>6 DEF StoreInv, InsideOwnsLock, Inside, LoadedIsFresh
    <3> QED
      BY <3>1, <3>2
  <2> QED
    BY <2>5, <2>7, <2>8 DEF StoreInv
<1>11. ASSUME NEW w \in Workers, Start(w, "compact", {}) \/ Start(w, "delete", {})
       PROVE  StoreInv'
  BY <1>11, StartStep DEF Kinds
<1>12. ASSUME NEW w \in Workers, NEW f \in Fields,
              Start(w, "hset", {f}) \/ Start(w, "consume", {f})
       PROVE  StoreInv'
  <2>1. {f} \in SUBSET Fields
    OBVIOUS
  <2> QED
    BY <1>12, <2>1, StartStep DEF Kinds
<1> QED
  BY <1>1, <1>2, <1>3, <1>4, <1>5, <1>6, <1>7, <1>8, <1>9, <1>10, <1>11, <1>12
     DEF StoreNext, StoreStep

\* Across any number of processes that share the file, with crashes that
\* leave the lock file behind and waiters that break it, an item is won by
\* one consume_once until it is deleted, unless a lock was removed under a
\* process that was still inside (mutate, node-state-store.ts consume_once).
THEOREM AlwaysConsumedOnce == StoreSpec => []ConsumedOnce
<1>1. StoreInv => ConsumedOnce
  BY DEF StoreInv
<1> QED
  BY <1>1, StoreInitInv, StoreStepInv, PTL DEF StoreSpec

\* As long as no lock was removed under its owner, at most one process is
\* between opening and closing the lock file (withFileLock).
THEOREM AlwaysOneInside ==
    StoreSpec => [](intruded \/ \A v, w \in Workers : Inside(v) /\ Inside(w) => v = w)
<1>1. StoreInv => (intruded \/ \A v, w \in Workers : Inside(v) /\ Inside(w) => v = w)
  BY DEF StoreInv, InsideOwnsLock
<1> QED
  BY <1>1, StoreInitInv, StoreStepInv, PTL DEF StoreSpec

\* What a step does to the file is one operation on the file as it is: some
\* process that holds the lock adds its items, or takes the listed ones out.
\* A win is counted for an item that was not there and now is.
AtomicEdit ==
    \/ UNCHANGED <<file, winners>>
    \/ \E w \in Workers :
          /\ Inside(w) /\ lock.by = w
          /\ file' = IF op[w].kind = "delete" THEN file \ op[w].fields ELSE file \cup op[w].fields
          /\ \A f \in Fields : winners'[f] > winners[f] =>
                op[w].kind = "consume" /\ f \in op[w].fields /\ f \notin file /\ f \in file'

\* The read, the edit and the replacement of the file are three steps, between
\* which other processes look, wait, break stale locks and crash; as long as no
\* lock was removed under its owner they are one atomic operation, so no
\* update of another process is lost (mutate, readRaw and writeRaw).
THEOREM EditsAreAtomic == StoreSpec => [][intruded \/ AtomicEdit]_storeVars
<1>1. ASSUME StoreInv, [StoreNext]_storeVars, ~intruded PROVE AtomicEdit
  <2>1. ASSUME NEW w \in Workers, ReplaceFile(w) PROVE AtomicEdit
    <3>1. Inside(w) /\ lock.by = w /\ op[w].data = file
      BY <1>1, <2>1 DEF ReplaceFile, Inside, StoreInv, InsideOwnsLock, LoadedIsFresh
    <3>2. CASE UNCHANGED <<file, winners>>
      BY <3>2 DEF AtomicEdit
    <3>3. CASE /\ file' = Edited(w)
               /\ winners' = [f \in Fields |->
                     IF f \notin op[w].fields THEN winners[f]
                     ELSE IF Consumes(w) THEN winners[f] + 1
                     ELSE IF op[w].kind = "delete" THEN 0
                     ELSE winners[f]]
      <4>1. file' = IF op[w].kind = "delete" THEN file \ op[w].fields ELSE file \cup op[w].fields
        BY <3>1, <3>3 DEF Edited
      <4>2. ASSUME NEW f \in Fields, winners'[f] > winners[f]
            PROVE  op[w].kind = "consume" /\ f \in op[w].fields /\ f \notin file /\ f \in file'
        <5>1. winners[f] \in Nat
          BY <1>1 DEF StoreInv, StoreTypeOK
        <5>2. f \in op[w].fields /\ Consumes(w)
          BY <3>3, <4>2, <5>1
        <5> QED
          BY <3>1, <4>1, <5>2 DEF Consumes
      <4> QED
        BY <3>1, <4>1, <4>2 DEF AtomicEdit
    <3> QED
      BY <2>1, <3>2, <3>3 DEF ReplaceFile
  <2>2. CASE UNCHANGED <<file, winners>>
    BY <2>2 DEF AtomicEdit
  <2> QED
    BY <1>1, <2>1, <2>2 DEF StoreNext, storeVars, StoreTick, Crash, Restart, StoreStep, OpenLock,
       LookAtLock, BreakLock, CloseLock, LoadFile, Start
<1>2. StoreInv /\ [StoreNext]_storeVars => [intruded \/ AtomicEdit]_storeVars
  BY <1>1
<1> QED
  BY <1>2, StoreInitInv, StoreStepInv, PTL DEF StoreSpec

-----------------------------------------------------------------------------
(* The gateway's WebSockets. A pair is in one of eight states, and leaves   *)
(* the accepted ones only by both sides.                                    *)

\* the states of an upgrade: client and upstream
PairStates ==
    {<<"none", "none">>, <<"waiting", "connecting">>, <<"closed", "connecting">>, <<"open", "open">>,
     <<"closed", "closing">>, <<"closing", "closed">>, <<"closed", "closed">>, <<"closed", "orphan">>}

PairFields == {"client", "upstream", "left"}

PairsSound ==
    /\ DOMAIN pairs = Sockets
    /\ \A c \in Sockets : /\ DOMAIN pairs[c] = PairFields
                          /\ <<pairs[c].client, pairs[c].upstream>> \in PairStates

\* both sides of an accepted pair are open, or neither
OpenTogether == \A c \in Sockets : pairs[c].client = "open" <=> pairs[c].upstream = "open"

\* a pair that is half closed has its other side closing, and its next change
\* closes that too
HalfClosedEnds ==
    \A c \in Sockets : HalfClosed(pairs[c]) =>
        /\ "closing" \in {pairs[c].client, pairs[c].upstream}
        /\ \/ pairs'[c] = pairs[c]
           \/ pairs'[c].client = "closed" /\ pairs'[c].upstream = "closed"

\* a socket that closed, and the other one that is told to
LEMMA ClosedPairIs ==
    ASSUME NEW pair, DOMAIN pair = PairFields, <<pair.client, pair.upstream>> \in PairStates
    PROVE  /\ pair.client \in {"open", "closing"} =>
                LET new == ClosedPair([pair EXCEPT !.client = "closed"])
                IN  DOMAIN new = PairFields /\ new.client = "closed"
                    /\ new.upstream = IF pair.upstream = "open" THEN "closing" ELSE pair.upstream
           /\ pair.upstream \in {"open", "closing"} =>
                LET new == ClosedPair([pair EXCEPT !.upstream = "closed"])
                IN  DOMAIN new = PairFields /\ new.upstream = "closed"
                    /\ new.client = IF pair.client = "open" THEN "closing" ELSE pair.client
  BY DEF ClosedPair, Closing, PairFields

LEMMA PairsStep ==
    PairsSound /\ [SocketNext]_socketVars => PairsSound' /\ HalfClosedEnds
<1> SUFFICES ASSUME PairsSound, [SocketNext]_socketVars PROVE PairsSound' /\ HalfClosedEnds
  OBVIOUS
<1>0. \A c \in Sockets : HalfClosed(pairs[c]) => "closing" \in {pairs[c].client, pairs[c].upstream}
  BY DEF PairsSound, PairStates, HalfClosed
\* one pair changes
<1>1. ASSUME NEW c \in Sockets, NEW new, pairs' = [pairs EXCEPT ![c] = new],
             DOMAIN new = PairFields, <<new.client, new.upstream>> \in PairStates,
             HalfClosed(pairs[c]) => new.client = "closed" /\ new.upstream = "closed"
      PROVE  PairsSound' /\ HalfClosedEnds
  <2>1. /\ DOMAIN pairs' = Sockets /\ pairs'[c] = new
        /\ \A d \in Sockets : d # c => pairs'[d] = pairs[d]
    BY <1>1 DEF PairsSound
  <2>2. PairsSound'
    BY <1>1, <2>1 DEF PairsSound
  <2>3. HalfClosedEnds
    BY <1>0, <1>1, <2>1 DEF HalfClosedEnds
  <2> QED
    BY <2>2, <2>3
<1>2. CASE UNCHANGED socketVars
  BY <1>0, <1>2 DEF socketVars, PairsSound, HalfClosedEnds
<1>3. ASSUME NEW c \in Sockets, NEW allowed \in BOOLEAN, Upgrade(c, allowed)
      PROVE  PairsSound' /\ HalfClosedEnds
  <2> DEFINE new == IF allowed THEN [client |-> "waiting", upstream |-> "connecting", left |-> Ranked]
                    ELSE Refused
  <2>1. DOMAIN new = PairFields /\ <<new.client, new.upstream>> \in PairStates
    BY DEF Refused, PairFields, PairStates
  <2>2. pairs' = [pairs EXCEPT ![c] = new] /\ pairs[c] = NoPair
    BY <1>3 DEF Upgrade
  <2>3. ~ HalfClosed(pairs[c])
    BY <2>2 DEF NoPair, HalfClosed
  <2> HIDE DEF new
  <2> QED
    BY <1>1, <2>1, <2>2, <2>3
<1>4. ASSUME NEW c \in Sockets, ClientLeaves(c) PROVE PairsSound' /\ HalfClosedEnds
  <2> DEFINE new == [pairs[c] EXCEPT !.client = "closed"]
  <2>0. /\ pairs[c].client = "waiting" /\ pairs[c].upstream = "connecting"
        /\ DOMAIN pairs[c] = PairFields
    BY <1>4 DEF ClientLeaves, PairsSound, PairStates
  <2>1. DOMAIN new = PairFields /\ new.client = "closed" /\ new.upstream = "connecting"
    BY <2>0 DEF PairFields
  <2>2. pairs' = [pairs EXCEPT ![c] = new]
    BY <1>4 DEF ClientLeaves, PairsSound
  <2> HIDE DEF new
  <2>3. <<new.client, new.upstream>> \in PairStates /\ ~ HalfClosed(pairs[c])
    BY <2>0, <2>1 DEF PairStates, HalfClosed
  <2> QED
    BY <1>1, <2>1, <2>2, <2>3
<1>5. ASSUME NEW c \in Sockets, UpstreamOpens(c) PROVE PairsSound' /\ HalfClosedEnds
  <2> DEFINE accepted == gatewayUp /\ pairs[c].client = "waiting"
             half == [pairs[c] EXCEPT !.client = IF accepted THEN "open" ELSE "closed"]
             new == [half EXCEPT !.upstream = IF accepted THEN "open" ELSE "orphan"]
  <2>0. pairs[c].upstream = "connecting" /\ DOMAIN pairs[c] = PairFields /\ DOMAIN pairs = Sockets
    BY <1>5 DEF UpstreamOpens, PairsSound
  <2>1. pairs' = [pairs EXCEPT ![c] = new]
    BY <1>5, <2>0 DEF UpstreamOpens, PairFields
  <2> HIDE DEF accepted
  <2>2. /\ DOMAIN new = PairFields /\ new.client = IF accepted THEN "open" ELSE "closed"
        /\ new.upstream = IF accepted THEN "open" ELSE "orphan"
    BY <2>0 DEF PairFields
  <2> HIDE DEF new
  <2>3. <<new.client, new.upstream>> \in PairStates /\ ~ HalfClosed(pairs[c])
    BY <2>0, <2>2 DEF PairStates, HalfClosed
  <2> QED
    BY <1>1, <2>1, <2>2, <2>3
<1>6. ASSUME NEW c \in Sockets, UpstreamRefuses(c) PROVE PairsSound' /\ HalfClosedEnds
  <2> DEFINE next == [pairs[c] EXCEPT !.left = pairs[c].left - 1]
             new == IF pairs[c].left > 1 THEN next ELSE Refused
  <2>0. /\ pairs[c].upstream = "connecting" /\ DOMAIN pairs[c] = PairFields /\ DOMAIN pairs = Sockets
        /\ <<pairs[c].client, pairs[c].upstream>> \in PairStates
    BY <1>6 DEF UpstreamRefuses, PairsSound
  <2>1. pairs' = [pairs EXCEPT ![c] = new]
    BY <1>6, <2>0 DEF UpstreamRefuses
  <2>2. DOMAIN next = PairFields /\ next.client = pairs[c].client /\ next.upstream = pairs[c].upstream
    BY <2>0 DEF PairFields
  <2>3. DOMAIN Refused = PairFields /\ <<Refused.client, Refused.upstream>> \in PairStates
    BY DEF Refused, PairFields, PairStates
  <2> HIDE DEF next
  <2>4. DOMAIN new = PairFields /\ <<new.client, new.upstream>> \in PairStates
    BY <2>0, <2>2, <2>3
  <2>5. ~ HalfClosed(pairs[c])
    BY <2>0 DEF HalfClosed
  <2> HIDE DEF new
  <2> QED
    BY <1>1, <2>1, <2>4, <2>5
<1>7. ASSUME NEW c \in Sockets, ClientCloses(c) PROVE PairsSound' /\ HalfClosedEnds
  <2> DEFINE new == ClosedPair([pairs[c] EXCEPT !.client = "closed"])
  <2>0. /\ pairs[c].client \in {"open", "closing"} /\ DOMAIN pairs[c] = PairFields
        /\ <<pairs[c].client, pairs[c].upstream>> \in PairStates
        /\ pairs' = [pairs EXCEPT ![c] = new]
    BY <1>7 DEF ClientCloses, PairsSound
  <2>1. /\ DOMAIN new = PairFields /\ new.client = "closed"
        /\ new.upstream = IF pairs[c].upstream = "open" THEN "closing" ELSE pairs[c].upstream
    BY <2>0, ClosedPairIs
  <2> HIDE DEF new
  <2>2. /\ <<new.client, new.upstream>> \in PairStates
        /\ HalfClosed(pairs[c]) => new.client = "closed" /\ new.upstream = "closed"
    BY <2>0, <2>1 DEF PairStates, HalfClosed
  <2> QED
    BY <1>1, <2>0, <2>1, <2>2
<1>8. ASSUME NEW c \in Sockets, UpstreamCloses(c) PROVE PairsSound' /\ HalfClosedEnds
  <2> DEFINE new == ClosedPair([pairs[c] EXCEPT !.upstream = "closed"])
  <2>0. /\ pairs[c].upstream \in {"open", "closing"} /\ DOMAIN pairs[c] = PairFields
        /\ <<pairs[c].client, pairs[c].upstream>> \in PairStates
        /\ pairs' = [pairs EXCEPT ![c] = new]
    BY <1>8 DEF UpstreamCloses, PairsSound
  <2>1. /\ DOMAIN new = PairFields /\ new.upstream = "closed"
        /\ new.client = IF pairs[c].client = "open" THEN "closing" ELSE pairs[c].client
    BY <2>0, ClosedPairIs
  <2> HIDE DEF new
  <2>2. /\ <<new.client, new.upstream>> \in PairStates
        /\ HalfClosed(pairs[c]) => new.client = "closed" /\ new.upstream = "closed"
    BY <2>0, <2>1 DEF PairStates, HalfClosed
  <2> QED
    BY <1>1, <2>0, <2>1, <2>2
<1>9. CASE Shutdown
  <2>1. DOMAIN pairs' = Sockets
    BY <1>9 DEF Shutdown
  <2>2. ASSUME NEW c \in Sockets
        PROVE  /\ DOMAIN pairs'[c] = PairFields /\ <<pairs'[c].client, pairs'[c].upstream>> \in PairStates
               /\ \/ pairs'[c] = pairs[c]
                  \/ HalfClosed(pairs[c]) => pairs'[c].client = "closed" /\ pairs'[c].upstream = "closed"
    <3> DEFINE new == ClosedPair([pairs[c] EXCEPT !.client = "closed"])
    <3>0. DOMAIN pairs[c] = PairFields /\ <<pairs[c].client, pairs[c].upstream>> \in PairStates
      BY DEF PairsSound
    <3>1. CASE pairs[c].client \in {"open", "closing"}
      <4>1. pairs'[c] = new
        BY <1>9, <3>1 DEF Shutdown
      <4>2. /\ DOMAIN new = PairFields /\ new.client = "closed"
            /\ new.upstream = IF pairs[c].upstream = "open" THEN "closing" ELSE pairs[c].upstream
        BY <3>0, <3>1, ClosedPairIs
      <4> HIDE DEF new
      <4>3. /\ <<new.client, new.upstream>> \in PairStates
            /\ HalfClosed(pairs[c]) => new.client = "closed" /\ new.upstream = "closed"
        BY <3>0, <3>1, <4>2 DEF PairStates, HalfClosed
      <4> QED
        BY <4>1, <4>2, <4>3
    <3>2. CASE pairs[c].client \notin {"open", "closing"}
      <4>1. pairs'[c] = pairs[c]
        BY <1>9, <3>2 DEF Shutdown
      <4> QED
        BY <3>0, <4>1
    <3> QED
      BY <3>1, <3>2
  <2>3. PairsSound'
    BY <2>1, <2>2 DEF PairsSound
  <2>4. HalfClosedEnds
    BY <1>0, <2>2 DEF HalfClosedEnds
  <2> QED
    BY <2>3, <2>4
<1> QED
  BY <1>2, <1>3, <1>4, <1>5, <1>6, <1>7, <1>8, <1>9 DEF SocketNext

LEMMA PairsSoundAlways == SocketSpec => []PairsSound
<1>1. SocketInit => PairsSound
  <2> SUFFICES ASSUME SocketInit PROVE PairsSound
    OBVIOUS
  <2>1. DOMAIN NoPair = PairFields /\ <<NoPair.client, NoPair.upstream>> \in PairStates
    BY DEF NoPair, PairFields, PairStates
  <2>2. DOMAIN pairs = Sockets /\ \A c \in Sockets : pairs[c] = NoPair
    BY DEF SocketInit
  <2> HIDE DEF NoPair
  <2> QED
    BY <2>1, <2>2 DEF PairsSound
<1> QED
  BY <1>1, PairsStep, PTL DEF SocketSpec

\* A client's socket is open exactly as long as its upstream's is, whichever
\* side closes, fails or is shut down, and however late the upstream connects
\* (handleUpgrade and closeSocketPair, server.mjs).
THEOREM PairsOpenTogether == SocketSpec => []OpenTogether
<1>1. PairsSound => OpenTogether
  BY DEF PairsSound, PairStates, OpenTogether
<1> QED
  BY <1>1, PairsSoundAlways, PTL

\* A pair of which one side has closed has the other one closing, and the next
\* thing that happens to it is that it closes too: the safety part of
\* PairsCloseTogether (closeSocketPair in both close handlers).
THEOREM HalfClosedPairsEnd == SocketSpec => [][HalfClosedEnds]_socketVars
<1>1. PairsSound /\ [SocketNext]_socketVars => [HalfClosedEnds]_socketVars
  BY PairsStep
<1> QED
  BY <1>1, PairsSoundAlways, PTL DEF SocketSpec
=============================================================================
