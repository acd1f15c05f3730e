------------------------------- MODULE NodeProofs -------------------------------
(* Theorems about the parts beside the ledger loop, for every bound: the mempool, the cold start,
   the published lists, the consensus tracking. *)
EXTENDS BulkSync, UnlLists, ConsensusTracking, Mempool, FiniteSetTheorems, WellFoundedInduction, TLAPS

\* A set with room for one element still fits with it.
LEMMA OneFits ==
  ASSUME NEW S, NEW x, NEW m \in Nat, IsFiniteSet(S), Cardinality(S) + 1 <= m
  PROVE  IsFiniteSet(S \union {x}) /\ Cardinality(S \union {x}) <= m
<1>1. IsFiniteSet(S \union {x}) /\ Cardinality(S) \in Nat
      /\ Cardinality(S \union {x}) = IF x \in S THEN Cardinality(S) ELSE Cardinality(S) + 1
  BY FS_AddElement, FS_CardinalityType
<1> DEFINE k == Cardinality(S)  n == Cardinality(S \union {x})
<1>2. k \in Nat /\ (n = k \/ n = k + 1) /\ k + 1 <= m
  BY <1>1
<1> HIDE DEF k, n
<1>3. n <= m
  BY <1>2
<1>4. QED
  BY <1>1, <1>3 DEF n

\* A part of a set that fits does.
LEMMA PartFits ==
  ASSUME NEW S, NEW T, NEW m \in Nat, IsFiniteSet(T), S \subseteq T, Cardinality(T) <= m
  PROVE  IsFiniteSet(S) /\ Cardinality(S) <= m
<1>1. IsFiniteSet(S) /\ Cardinality(S) <= Cardinality(T) /\ Cardinality(S) \in Nat /\ Cardinality(T) \in Nat
  BY FS_Subset, FS_CardinalityType
<1> DEFINE k == Cardinality(S)  n == Cardinality(T)
<1>2. k \in Nat /\ n \in Nat /\ k <= n /\ n <= m
  BY <1>1
<1> HIDE DEF k, n
<1>3. k <= m
  BY <1>2
<1>4. QED
  BY <1>1, <1>3 DEF k

-------------------------------------------------------------------------------
(* The mempool *)

\* The queue is a finite set of transactions within its size; what the relay filter forgot was
\* let through long enough ago.
PoolInv ==
  /\ queue \subseteq PoolTxs /\ IsFiniteSet(queue) /\ Cardinality(queue) <= MAX_CAPACITY
  /\ removing \in [Callers -> PoolTxs \cup {Idle}]
  /\ relay_seen \in [PoolTxs -> Nat \cup {Never}] /\ relays \in [PoolTxs -> Nat \cup {Never}]
  /\ pool_time \in Nat
  /\ \A t \in PoolTxs : \/ relay_seen[t] = relays[t]
                        \/ relay_seen[t] = Never /\ pool_time - relays[t] >= RELAY_TTL
  /\ QueuedIsKnown

\* Of a full queue one that pays less goes for the newcomer; otherwise there is room.
LEMMA AddFits ==
  ASSUME PoolInv, NEW t \in PoolTxs, Add(t)
  PROVE  /\ queue' \subseteq PoolTxs /\ IsFiniteSet(queue') /\ Cardinality(queue') <= MAX_CAPACITY
         /\ QueuedIsKnown'
         /\ \A low \in queue \ queue', u \in queue' \ queue : FeeOf(u) > FeeOf(low)
<1>1. /\ queue \subseteq PoolTxs /\ IsFiniteSet(queue) /\ Cardinality(queue) <= MAX_CAPACITY
      /\ Cardinality(queue) \in Nat /\ MAX_CAPACITY \in Nat
      /\ removing' = removing /\ queue \ seen \subseteq {removing[c] : c \in Callers}
  BY FS_CardinalityType, PoolConstants DEF PoolInv, Add, QueuedIsKnown
<1>2. CASE Cardinality(queue) >= MAX_CAPACITY
  <2>1. PICK low \in Lowest : /\ Displaces(t, low)
                              /\ queue' = (queue \ {low}) \union {t}
                              /\ seen' = (seen \ {low}) \union {t}
    BY <1>2 DEF Add
  <2>2. low \in queue
    BY DEF Lowest
  <2>3. IsFiniteSet(queue \ {low}) /\ Cardinality(queue \ {low}) = Cardinality(queue) - 1
    BY <1>1, <2>2, FS_RemoveElement
  <2>4. IsFiniteSet(queue') /\ Cardinality(queue') <= MAX_CAPACITY
    <3>1. Cardinality(queue \ {low}) + 1 <= MAX_CAPACITY
      BY <1>1, <2>3
    <3>2. QED
      BY <1>1, <2>1, <2>3, <3>1, OneFits
  <2>5. QueuedIsKnown'
    BY <1>1, <2>1 DEF QueuedIsKnown
  <2>6. QED
    BY <1>1, <2>1, <2>4, <2>5 DEF Displaces
<1>3. CASE ~ (Cardinality(queue) >= MAX_CAPACITY)
  <2>1. queue' = queue \union {t} /\ seen' = seen \union {t}
    BY <1>3 DEF Add
  <2>2. IsFiniteSet(queue') /\ Cardinality(queue') <= MAX_CAPACITY
    <3>1. Cardinality(queue) + 1 <= MAX_CAPACITY
      BY <1>1, <1>3
    <3>2. QED
      BY <1>1, <2>1, <3>1, OneFits
  <2>3. QueuedIsKnown'
    BY <1>1, <2>1 DEF QueuedIsKnown
  <2>4. QED
    BY <1>1, <2>1, <2>2, <2>3
<1>4. QED
  BY <1>2, <1>3

\* A transaction is let through when it was not for RELAY_TTL, and what is
\* swept from the filter was not either.
LEMMA RelayStep ==
  ASSUME PoolInv, NEW t \in PoolTxs, ShouldRelay(t)
  PROVE  /\ relay_seen' \in [PoolTxs -> Nat \cup {Never}] /\ relays' \in [PoolTxs -> Nat \cup {Never}]
         /\ \A u \in PoolTxs : \/ relay_seen'[u] = relays'[u]
                               \/ relay_seen'[u] = Never /\ pool_time - relays'[u] >= RELAY_TTL
         /\ \A u \in PoolTxs : relays'[u] # relays[u] => relays'[u] - relays[u] >= RELAY_TTL
<1> DEFINE due == pool_time - last_cleanup > CLEANUP_EVERY
           filter == IF due THEN Swept(relay_seen) ELSE relay_seen
<1>1. /\ relay_seen' = IF Fresh(filter[t]) THEN filter ELSE [filter EXCEPT ![t] = pool_time]
      /\ relays' = IF Fresh(filter[t]) THEN relays ELSE [relays EXCEPT ![t] = pool_time]
  BY DEF ShouldRelay
<1>2. /\ relay_seen \in [PoolTxs -> Nat \cup {Never}] /\ relays \in [PoolTxs -> Nat \cup {Never}]
      /\ pool_time \in Nat /\ RELAY_TTL \in Nat /\ Never = -(RELAY_TTL + 1)
      /\ \A u \in PoolTxs : \/ relay_seen[u] = relays[u]
                            \/ relay_seen[u] = Never /\ pool_time - relays[u] >= RELAY_TTL
  BY PoolConstants DEF PoolInv, Never
<1>3. /\ filter \in [PoolTxs -> Nat \cup {Never}]
      /\ \A u \in PoolTxs : \/ filter[u] = relays[u]
                            \/ filter[u] = Never /\ pool_time - relays[u] >= RELAY_TTL
  <2>1. CASE due
    BY <1>2, <2>1 DEF Swept, Fresh
  <2>2. CASE ~due
    BY <1>2, <2>2
  <2>3. QED
    BY <2>1, <2>2
<1> HIDE DEF filter
<1>4. CASE Fresh(filter[t])
  BY <1>1, <1>2, <1>3, <1>4
<1>5. CASE ~Fresh(filter[t])
  <2>1. pool_time - relays[t] >= RELAY_TTL
    BY <1>2, <1>3, <1>5 DEF Fresh
  <2>2. relay_seen' = [filter EXCEPT ![t] = pool_time] /\ relays' = [relays EXCEPT ![t] = pool_time]
    BY <1>1, <1>5
  <2>3. QED
    BY <1>2, <1>3, <2>1, <2>2
<1>6. QED
  BY <1>4, <1>5

\* Every step of the mempool keeps its invariant and its promises.
LEMMA PoolStep ==
  ASSUME PoolInv, [PoolNext]_pool_vars
  PROVE  /\ PoolInv'
         /\ Cardinality(queue') <= MAX_CAPACITY
         /\ \A low \in queue \ queue', t \in queue' \ queue : FeeOf(t) > FeeOf(low)
         /\ \A t \in PoolTxs : relays'[t] # relays[t] => relays'[t] - relays[t] >= RELAY_TTL
<1>0. RELAY_TTL \in Nat /\ Idle \notin PoolTxs
  BY PoolConstants
<1>1. ASSUME NEW t \in PoolTxs, Add(t)
      PROVE  /\ PoolInv' /\ relays' = relays
             /\ \A low \in queue \ queue', u \in queue' \ queue : FeeOf(u) > FeeOf(low)
  BY <1>1, AddFits DEF Add, PoolInv
<1>2. ASSUME NEW t \in PoolTxs, ShouldRelay(t)
      PROVE  /\ PoolInv' /\ queue' = queue
             /\ \A u \in PoolTxs : relays'[u] # relays[u] => relays'[u] - relays[u] >= RELAY_TTL
  <2>1. UNCHANGED <<queue, seen, removing, pool_time>>
    BY <1>2 DEF ShouldRelay
  <2>2. /\ relay_seen' \in [PoolTxs -> Nat \cup {Never}] /\ relays' \in [PoolTxs -> Nat \cup {Never}]
        /\ \A u \in PoolTxs : \/ relay_seen'[u] = relays'[u]
                              \/ relay_seen'[u] = Never /\ pool_time - relays'[u] >= RELAY_TTL
        /\ \A u \in PoolTxs : relays'[u] # relays[u] => relays'[u] - relays[u] >= RELAY_TTL
    BY <1>2, RelayStep
  <2>3. PoolInv'
    BY <2>1, <2>2 DEF PoolInv, QueuedIsKnown
  <2>4. QED
    BY <2>1, <2>2, <2>3
<1>3. ASSUME NEW t \in PoolTxs, NEW c \in Callers, RemoveSeen(c, t)
      PROVE  PoolInv' /\ queue' = queue /\ relays' = relays
  <2>1. QueuedIsKnown'
    <3>1. ASSUME NEW u \in queue, u \notin seen \ {t} PROVE \E d \in Callers : removing'[d] = u
      <4>1. CASE u = t
        BY <1>3, <4>1 DEF RemoveSeen, PoolInv
      <4>2. CASE u # t
        <5>1. PICK d \in Callers : removing[d] = u
          BY <3>1, <4>2 DEF PoolInv, QueuedIsKnown
        <5>2. d # c
          BY <1>0, <1>3, <5>1 DEF RemoveSeen, PoolInv
        <5>3. QED
          BY <1>3, <5>1, <5>2 DEF RemoveSeen, PoolInv
      <4>3. QED
        BY <4>1, <4>2
    <3>2. QED
      BY <1>3, <3>1 DEF RemoveSeen, QueuedIsKnown
  <2>2. QED
    BY <1>3, <2>1 DEF RemoveSeen, PoolInv
<1>4. ASSUME NEW c \in Callers, RemoveQueued(c)
      PROVE  PoolInv' /\ queue' \subseteq queue /\ relays' = relays
  <2>1. queue' \subseteq queue
    BY <1>4 DEF RemoveQueued
  <2>2. IsFiniteSet(queue') /\ Cardinality(queue') <= MAX_CAPACITY
    BY <2>1, PartFits, PoolConstants DEF PoolInv
  <2>3. QueuedIsKnown'
    <3>1. ASSUME NEW u \in queue', u \notin seen PROVE \E d \in Callers : removing'[d] = u
      <4>1. PICK d \in Callers : removing[d] = u
        BY <2>1, <3>1 DEF PoolInv, QueuedIsKnown
      <4>2. d # c
        BY <1>4, <3>1, <4>1 DEF RemoveQueued
      <4>3. QED
        BY <1>4, <4>1, <4>2 DEF RemoveQueued, PoolInv
    <3>2. QED
      BY <1>4, <3>1 DEF RemoveQueued, QueuedIsKnown
  <2>4. QED
    <3>1. removing' \in [Callers -> PoolTxs \cup {Idle}]
      BY <1>4 DEF RemoveQueued, PoolInv
    <3>2. UNCHANGED <<relay_seen, relays, pool_time>>
      BY <1>4 DEF RemoveQueued
    <3>3. QED
      BY <2>1, <2>2, <2>3, <3>1, <3>2 DEF PoolInv
<1>5. CASE Expire
  <2>1. PICK gone \in SUBSET queue : queue' = queue \ gone /\ seen' = seen \ gone
    BY <1>5 DEF Expire
  <2>2. queue' \subseteq queue
    BY <2>1
  <2>3. IsFiniteSet(queue') /\ Cardinality(queue') <= MAX_CAPACITY
    BY <2>2, PartFits, PoolConstants DEF PoolInv
  <2>4. UNCHANGED <<removing, relay_seen, relays, pool_time>>
    BY <1>5 DEF Expire
  <2>5. QueuedIsKnown'
    BY <2>1, <2>4 DEF PoolInv, QueuedIsKnown
  <2>6. PoolInv'
    BY <2>2, <2>3, <2>4, <2>5 DEF PoolInv
  <2>7. QED
    BY <1>0, <2>2, <2>4, <2>6 DEF PoolInv
<1>6. CASE PoolTick
  <2>1. pool_time' = pool_time + 1
        /\ UNCHANGED <<queue, seen, removing, relay_seen, last_cleanup, relays, pool_ledger>>
    BY <1>6 DEF PoolTick
  <2>2. ASSUME NEW t \in PoolTxs, pool_time - relays[t] >= RELAY_TTL PROVE pool_time' - relays[t] >= RELAY_TTL
    <3>1. relays[t] \in Int /\ pool_time \in Nat
      BY <1>0 DEF PoolInv, Never
    <3>2. QED
      BY <1>0, <2>1, <2>2, <3>1
  <2>3. PoolInv'
    BY <2>1, <2>2 DEF PoolInv, QueuedIsKnown
  <2>4. QED
    BY <2>1, <2>3 DEF PoolInv
<1>7. CASE UNCHANGED pool_vars
  BY <1>7 DEF pool_vars, PoolInv, QueuedIsKnown
<1>8. QED
  BY <1>1, <1>2, <1>3, <1>4, <1>5, <1>6, <1>7 DEF PoolNext, PoolInv

\* A queued transaction is known, though adding, removing and expiring overlap; the queue gives up
\* none for one that pays less; and none is relayed twice within the filter's time (queue.rs, relay.rs).
THEOREM PoolKeepsItsPromises == PoolSpec => PoolSound
<1>1. PoolInit => PoolInv
  BY FS_EmptySet, PoolConstants DEF PoolInit, PoolInv, QueuedIsKnown
<1>2. PoolInv /\ [PoolNext]_pool_vars => PoolInv'
  BY PoolStep
<1>3. PoolInv /\ [PoolNext]_pool_vars =>
        [/\ Cardinality(queue') <= MAX_CAPACITY
         /\ \A low \in queue \ queue', t \in queue' \ queue : FeeOf(t) > FeeOf(low)]_pool_vars
  BY PoolStep
<1>4. PoolInv /\ [PoolNext]_pool_vars =>
        [\A t \in PoolTxs : relays'[t] # relays[t] => relays'[t] - relays[t] >= RELAY_TTL]_pool_vars
  BY PoolStep
<1>5. PoolInv => QueuedIsKnown
  BY DEF PoolInv
<1>6. QED
  BY <1>1, <1>2, <1>3, <1>4, <1>5, PTL DEF PoolSpec, PoolSound, CheapestGoes, RelayedOnce

-------------------------------------------------------------------------------
(* The published lists *)

\* A set of naturals has a least one.
LEMMA LeastNatural ==
  ASSUME NEW S \in SUBSET Nat, S # {}
  PROVE  \E s \in S : \A t \in S : s <= t
<1>1. PICK s \in S : \A t \in S : ~ (<<t, s>> \in OpToRel(<, Nat))
  BY NatLessThanWellFounded, WFMin
<1>2. ASSUME NEW t \in S PROVE s <= t
  <2>1. s \in Nat /\ t \in Nat /\ ~ (t < s)
    BY <1>1 DEF OpToRel
  <2>2. QED
    BY <2>1
<1>3. QED
  BY <1>2

\* What the fetch takes is one of the answers, verified and not older than the last good one.
LEMMA FirstIsGood ==
  ASSUME NEW answers, FirstVerified(answers) # None
  PROVE  /\ \E p \in Publishers : FirstVerified(answers) = answers[p]
         /\ Verify(FirstVerified(answers)) /\ SequenceAcceptable(FirstVerified(answers))
<1> DEFINE good == {i \in DOMAIN DEFAULT_UNL_SOURCES :
                      Verify(answers[DEFAULT_UNL_SOURCES[i]]) /\ SequenceAcceptable(answers[DEFAULT_UNL_SOURCES[i]])}
           first == CHOOSE i \in good : \A j \in good : i <= j
<1>1. good # {} /\ FirstVerified(answers) = answers[DEFAULT_UNL_SOURCES[first]]
  BY DEF FirstVerified
<1>2. DOMAIN DEFAULT_UNL_SOURCES \subseteq Nat
  BY UnlConstants
<1>3. first \in good
  <2>1. \E i \in good : \A j \in good : i <= j
    <3>1. good \in SUBSET Nat
      BY <1>2
    <3>2. QED
      BY <1>1, <3>1, LeastNatural
  <2>2. QED
    BY <2>1
<1>4. DEFAULT_UNL_SOURCES[first] \in Publishers
  BY <1>3 DEF Publishers, Range
<1>5. QED
  BY <1>1, <1>3, <1>4

\* One publisher pinned.
Single == Enforce /\ Cardinality(Pinned) = 1

\* A list of a pinned publisher, and a sequence of one.
PinnedList(l) == l.by \in Pinned /\ l.seq \in Int

\* The lists at hand are a pinned publisher's.  With one pinned, while no write of the sequence is in
\* doubt, a list being written is the last good one, and neither the stored one nor the one last in use
\* is newer than it.
NoneNewer ==
  /\ writing # None => last_good = SequenceOf(writing)
  /\ body # None => PinnedList(last_good) /\ body.seq <= last_good.seq
  /\ latest # None => PinnedList(last_good) /\ latest.seq <= last_good.seq

\* And what is written, stored or was last in use was of a pinned publisher.
UnlInv ==
  /\ writing # None => PinnedList(writing)
  /\ body # None => PinnedList(body)
  /\ Enforce /\ latest # None => PinnedList(latest)
  /\ unsure \in BOOLEAN
  /\ Single /\ ~ unsure => NoneNewer

\* One publisher pinned is the only one.
LEMMA OnePinned ==
  ASSUME Single, NEW p \in Pinned, NEW q \in Pinned
  PROVE  p = q
BY UnlConstants, FS_Singleton DEF Single

\* The list's sequence and publisher.
LEMMA SequenceIs ==
  ASSUME NEW l
  PROVE  /\ SequenceOf(l).by = l.by /\ SequenceOf(l).seq = l.seq
         /\ PinnedList(SequenceOf(l)) <=> PinnedList(l)
BY DEF SequenceOf, PinnedList

\* Of one pinned publisher, what the gate lets through is no older.
LEMMA GateHolds ==
  ASSUME Single, NEW l, PinnedList(l), PinnedList(last_good), SequenceAcceptable(l)
  PROVE  l.seq >= last_good.seq
BY OnePinned DEF SequenceAcceptable, PinnedList

\* A fetch keeps the invariant.
LEMMA FetchStep ==
  ASSUME UnlInv, FetchVerified
  PROVE  UnlInv'
<1>1. PICK answers \in Answers : \E l \in {FirstVerified(answers)} :
        /\ l # None /\ writing' = l /\ last_good' \in FileAfter(last_good, SequenceOf(l))
        /\ unsure' = (unsure \/ last_good' # SequenceOf(l))
  BY DEF FetchVerified
<1> DEFINE l == FirstVerified(answers)
<1>2. l # None /\ writing' = l /\ unsure' = (unsure \/ last_good' # SequenceOf(l))
  BY <1>1
<1>3. (\E p \in Publishers : l = answers[p]) /\ Verify(l) /\ SequenceAcceptable(l)
  BY <1>2, FirstIsGood
<1>4. body' = body /\ latest' = latest
  BY DEF FetchVerified
<1> HIDE DEF l
<1>5. PinnedList(l)
  <2>1. PICK p \in Publishers : l \in Served(p)
    BY <1>2, <1>3 DEF Answers
  <2>2. l.seq \in Int
    BY <2>1 DEF Served
  <2>3. QED
    BY <1>3, <2>2 DEF Verify, PinnedList
<1>6. Single /\ ~ unsure' => NoneNewer'
  <2> SUFFICES ASSUME Single, ~ unsure' PROVE NoneNewer'
    OBVIOUS
  <2>1. ~ unsure /\ last_good' = SequenceOf(l) /\ PinnedList(last_good') /\ last_good'.seq = l.seq /\ l.seq \in Int
    BY <1>2, <1>5, SequenceIs DEF PinnedList
  <2>2. ASSUME PinnedList(last_good) PROVE last_good.seq <= l.seq /\ last_good.seq \in Int
    BY <1>3, <1>5, <2>2, GateHolds DEF PinnedList
  <2>3. body # None => body.seq <= last_good'.seq
    <3> SUFFICES ASSUME body # None PROVE body.seq <= last_good'.seq
      OBVIOUS
    <3>1. PinnedList(last_good) /\ body.seq <= last_good.seq /\ body.seq \in Int
      BY <2>1 DEF UnlInv, NoneNewer, PinnedList
    <3>2. QED
      BY <2>1, <2>2, <3>1
  <2>4. latest # None => latest.seq <= last_good'.seq
    <3> SUFFICES ASSUME latest # None PROVE latest.seq <= last_good'.seq
      OBVIOUS
    <3>1. PinnedList(last_good) /\ latest.seq <= last_good.seq /\ latest.seq \in Int
      BY <2>1 DEF UnlInv, NoneNewer, PinnedList, Single
    <3>2. QED
      BY <2>1, <2>2, <3>1
  <2>5. QED
    BY <1>2, <1>4, <2>1, <2>3, <2>4 DEF NoneNewer
<1>7. PinnedList(writing') /\ unsure' \in BOOLEAN
  BY <1>2, <1>5 DEF UnlInv
<1>8. QED
  BY <1>2, <1>4, <1>6, <1>7 DEF UnlInv

\* Putting a list in use keeps it, and does not go back.
LEMMA UseStep ==
  ASSUME UnlInv, PutInUse
  PROVE  /\ UnlInv'
         /\ Single /\ ~ unsure /\ latest # None => using'.seq >= latest.seq
<1>1. /\ writing # None /\ body' \in {writing, body, None} /\ using' = writing /\ latest' = writing /\ writing' = None
      /\ last_good' = last_good
      /\ unsure' = (unsure /\ ~ (last_good = SequenceOf(writing) /\ body' = writing))
  BY DEF PutInUse, FileAfter
<1>2. PinnedList(writing) /\ writing.seq \in Int
  BY <1>1 DEF UnlInv, PinnedList
<1>3. ASSUME Single, ~ unsure
      PROVE  /\ PinnedList(last_good) /\ last_good.seq = writing.seq
             /\ latest # None => latest.seq <= last_good.seq
             /\ body # None => body.seq <= last_good.seq
  <2>1. last_good = SequenceOf(writing)
    BY <1>1, <1>3 DEF UnlInv, NoneNewer
  <2>2. QED
    BY <1>2, <1>3, <2>1, SequenceIs DEF UnlInv, NoneNewer
<1>4. Single /\ ~ unsure' => NoneNewer'
  <2> SUFFICES ASSUME Single, ~ unsure' PROVE NoneNewer'
    OBVIOUS
  <2>1. PinnedList(last_good) /\ last_good.seq = writing.seq
    <3>1. CASE unsure
      <4>1. last_good = SequenceOf(writing)
        BY <1>1, <3>1
      <4>2. QED
        BY <1>2, <4>1, SequenceIs
    <3>2. CASE ~ unsure
      BY <1>3, <3>2
    <3>3. QED
      BY <3>1, <3>2
  <2>2. writing.seq <= last_good.seq
    BY <1>2, <2>1
  <2>3. body' # None => body'.seq <= last_good.seq
    <3>1. CASE unsure
      <4>1. body' = writing
        BY <1>1, <3>1
      <4>2. QED
        BY <2>2, <4>1
    <3>2. CASE ~ unsure
      BY <1>1, <1>3, <2>2, <3>2
    <3>3. QED
      BY <3>1, <3>2
  <2>4. QED
    BY <1>1, <2>1, <2>2, <2>3 DEF NoneNewer
<1>5. Single /\ ~ unsure /\ latest # None => using'.seq >= latest.seq
  <2> SUFFICES ASSUME Single, ~ unsure, latest # None PROVE using'.seq >= latest.seq
    OBVIOUS
  <2>1. latest.seq \in Int /\ latest.seq <= writing.seq
    BY <1>3 DEF UnlInv, PinnedList, Single
  <2>2. QED
    BY <1>1, <1>2, <2>1
<1>6. body' # None => PinnedList(body')
  BY <1>1, <1>2 DEF UnlInv
<1>7. unsure' \in BOOLEAN
  BY <1>1 DEF UnlInv
<1>8. QED
  BY <1>1, <1>2, <1>4, <1>5, <1>6, <1>7 DEF UnlInv

\* In enforce mode the stored list keeps it too.
LEMMA FallbackStep ==
  ASSUME UnlInv, LoadFallback
  PROVE  /\ UnlInv'
         /\ Enforce /\ using' # None => Verify(using')
         /\ Single /\ ~ unsure /\ using' # None /\ latest # None => using'.seq >= latest.seq
<1>1. /\ last_good' = last_good /\ body' = body /\ writing' = writing /\ unsure' = unsure
      /\ Enforce => using' = StoredList
      /\ latest' = IF using' = None THEN latest ELSE using'
  BY DEF LoadFallback
<1>2. StoredList # None => StoredList = body /\ Verify(body) /\ SequenceAcceptable(body)
  BY DEF StoredList
<1>3. ASSUME Enforce, using' # None
      PROVE  using' = body /\ body # None /\ PinnedList(body) /\ Verify(using')
  BY <1>1, <1>2, <1>3 DEF UnlInv
<1>4. ASSUME Single, ~ unsure, using' # None
      PROVE  PinnedList(last_good) /\ body.seq = last_good.seq /\ using' = body /\ body.seq \in Int
  <2>1. using' = body /\ body # None /\ PinnedList(body) /\ SequenceAcceptable(body)
    BY <1>1, <1>2, <1>3, <1>4 DEF Single
  <2>2. PinnedList(last_good) /\ body.seq <= last_good.seq
    BY <1>4, <2>1 DEF UnlInv, NoneNewer
  <2>3. body.seq >= last_good.seq
    BY <1>4, <2>1, <2>2, GateHolds
  <2>4. body.seq \in Int /\ last_good.seq \in Int
    BY <2>1, <2>2 DEF PinnedList
  <2>5. QED
    BY <2>1, <2>2, <2>3, <2>4
<1>5. Single /\ ~ unsure /\ using' # None /\ latest # None => using'.seq >= latest.seq
  <2> SUFFICES ASSUME Single, ~ unsure, using' # None, latest # None PROVE using'.seq >= latest.seq
    OBVIOUS
  <2>1. latest.seq <= last_good.seq /\ latest.seq \in Int
    BY DEF UnlInv, NoneNewer, PinnedList, Single
  <2>2. QED
    BY <1>4, <2>1
<1>6. Single /\ ~ unsure' => NoneNewer'
  <2> SUFFICES ASSUME Single, ~ unsure PROVE NoneNewer'
    BY <1>1
  <2>1. NoneNewer
    BY DEF UnlInv
  <2>2. CASE using' = None
    BY <1>1, <2>1, <2>2 DEF NoneNewer
  <2>3. CASE using' # None
    <3>1. PinnedList(last_good) /\ using'.seq <= last_good.seq
      BY <1>4, <2>3
    <3>2. QED
      BY <1>1, <2>1, <2>3, <3>1 DEF NoneNewer
  <2>4. QED
    BY <2>2, <2>3
<1>7. Enforce /\ latest' # None => PinnedList(latest')
  BY <1>1, <1>3 DEF UnlInv
<1>8. QED
  BY <1>1, <1>3, <1>5, <1>6, <1>7 DEF UnlInv

\* Every step of the lists keeps their invariant and their promises.
LEMMA UnlStep ==
  ASSUME UnlInv, [UnlNext]_unl_vars
  PROVE  /\ UnlInv'
         /\ Enforce /\ using' # using /\ using' # None => Verify(using') \/ using' = writing
         /\ Enforce /\ Cardinality(Pinned) = 1 /\ ~ unsure /\ using' # None /\ using' # using /\ latest # None
              => using'.seq >= latest.seq
<1>1. CASE FetchVerified
  <2>1. using' = using
    BY <1>1 DEF FetchVerified
  <2>2. QED
    BY <1>1, <2>1, FetchStep
<1>2. CASE PutInUse
  <2>1. using' = writing
    BY <1>2 DEF PutInUse
  <2>2. QED
    BY <1>2, <2>1, UseStep DEF Single
<1>3. CASE LoadFallback
  BY <1>3, FallbackStep DEF Single
<1>4. CASE UnlTick \/ (\E p \in Publishers : Publish(p)) \/ UNCHANGED unl_vars
  <2>1. UNCHANGED <<using, last_good, body, writing, latest, unsure>>
    BY <1>4 DEF UnlTick, Publish, unl_vars, unl_history
  <2>2. QED
    BY <2>1 DEF UnlInv, NoneNewer
<1>5. CASE UnlRestart
  <2>1. using' = None /\ writing' = None /\ UNCHANGED <<last_good, latest, unsure>>
    BY <1>5 DEF UnlRestart, unl_history
  <2>2. body' = body \/ body' = None \/ (writing # None /\ body' = writing)
    BY <1>5 DEF UnlRestart
  <2>3. body' # None => PinnedList(body')
    BY <2>2 DEF UnlInv
  <2>4. Single /\ ~ unsure /\ body' # None => PinnedList(last_good) /\ body'.seq <= last_good.seq
    <3>1. CASE body' = body
      BY <3>1 DEF UnlInv, NoneNewer
    <3>2. CASE body' = None
      BY <3>2
    <3>3. CASE writing # None /\ body' = writing
      <4> SUFFICES ASSUME Single, ~ unsure PROVE PinnedList(last_good) /\ body'.seq <= last_good.seq
        OBVIOUS
      <4>1. last_good = SequenceOf(writing) /\ PinnedList(writing)
        BY <3>3 DEF UnlInv, NoneNewer
      <4>2. PinnedList(last_good) /\ last_good.seq = writing.seq
        BY <4>1, SequenceIs
      <4>3. QED
        BY <3>3, <4>1, <4>2 DEF PinnedList
    <3>4. QED
      BY <2>2, <3>1, <3>2, <3>3
  <2>5. Single /\ ~ unsure => NoneNewer'
    BY <2>1, <2>4 DEF UnlInv, NoneNewer
  <2>6. QED
    BY <2>1, <2>3, <2>5 DEF UnlInv
<1>6. QED
  BY <1>1, <1>2, <1>3, <1>4, <1>5 DEF UnlNext

\* In enforce mode only lists that verified come into use, also after restarts between the two
\* files and writes that fail or break off; with one publisher pinned none older than the one in use
\* before, but for the time after a write of the sequence failed (unl_fetch.rs, unl_verify.rs).
THEOREM ListsVerifyAndGoForward == UnlSpec => ListsSound
<1>1. UnlInit => UnlInv
  BY DEF UnlInit, UnlInv, NoneNewer
<1>2. UnlInv /\ [UnlNext]_unl_vars => UnlInv'
  BY UnlStep
<1>3. UnlInv /\ [UnlNext]_unl_vars =>
        [Enforce /\ using' # using /\ using' # None => (Verify(using') \/ using' = writing)]_unl_vars
  BY UnlStep
<1>4. UnlInv /\ [UnlNext]_unl_vars =>
        [Enforce /\ Cardinality(Pinned) = 1 /\ ~ unsure /\ using' # None /\ using' # using /\ latest # None
           => using'.seq >= latest.seq]_unl_vars
  BY UnlStep
<1>5. QED
  BY <1>1, <1>2, <1>3, <1>4, PTL DEF UnlSpec, ListsSound, EnforcedListsVerify, ListsGoForward

-------------------------------------------------------------------------------
(* The cold start *)

\* What the tree has is in the store or was lost in a failed write, and what else the store has
\* it had before; a verified tree is the ledger's.
StoreInv ==
  /\ map_keys \subseteq Keys
  /\ \A k \in map_keys : db[k] = Version(k, pinned) \/ k \in unwritten
  /\ boot # "off" => \A k \in Keys : db[k] # 0 => k \in before \cup map_keys
  /\ verified => map_keys = LedgerKeys(pinned)
  /\ boot \notin {"pulling", "built", "ws"} => map_keys = {}
  /\ boot \notin {"built", "ws"} => ~verified

\* No worker writes after the download; the backfill has applied just what comes before its next
\* ledger.
BulkInv ==
  /\ channel \subseteq Keys
  /\ boot # "pulling" => stopped = BulkWorkers /\ channel = {}
  /\ pinned \in Nat /\ dl_done \in Nat \cup {Absent0} /\ net_seq \in Nat
  /\ fill \in [next : Nat, target : Nat, errors : Nat]
  /\ boot = "filling" => fill.next >= 1 /\ applied = 0 .. fill.next - 1

\* The backfill applies a ledger only over all before it.
FillStep == applied' \ applied # {} /\ boot = "filling" => \A s \in applied' \ applied : s - 1 \in applied

\* The steps of a start and of its download.
LEMMA DownloadStep ==
  ASSUME BulkInv, NetCloses \/ StartNode \/ Build \/ FinishDownload \/ HandOver
                  \/ (\E w \in BulkWorkers : PullPage(w) \/ PullFails(w))
  PROVE  BulkInv' /\ FillStep
<1>1. CASE NetCloses
  BY <1>1 DEF NetCloses, BulkInv, FillStep
<1>2. CASE StartNode
  <2>1. boot = "off" /\ UNCHANGED <<channel, verified, dl_done, net_seq, fill, applied>>
    BY <1>2 DEF StartNode
  <2>2. CASE sync_done
    BY <1>2, <2>1, <2>2 DEF StartNode, BulkInv, FillStep
  <2>3. CASE ~sync_done
    <3>1. PICK held \in BOOLEAN : /\ pinned' = IF held THEN net_seq ELSE 0
                                  /\ boot' = IF held THEN "pulling" ELSE "built"
                                  /\ stopped' = IF held THEN {} ELSE BulkWorkers
      BY <1>2, <2>3 DEF StartNode
    <3>2. QED
      BY <2>1, <3>1 DEF BulkInv, FillStep
  <2>4. QED
    BY <2>2, <2>3
<1>3. CASE Build
  BY <1>3 DEF Build, BulkInv, FillStep
<1>4. CASE FinishDownload
  <2>1. PICK theirs \in {"none", "hash"} : /\ verified' = RootMatches(theirs)
                                           /\ dl_done' = IF theirs = "none" \/ map_keys = LedgerKeys(pinned) THEN pinned ELSE dl_done
    BY <1>4 DEF FinishDownload
  <2>2. /\ stopped = BulkWorkers /\ channel = {} /\ boot' = "built" /\ boot = "pulling"
        /\ UNCHANGED <<pinned, stopped, channel, net_seq, fill, applied>>
    BY <1>4 DEF FinishDownload
  <2>3. QED
    BY <2>1, <2>2 DEF BulkInv, FillStep
<1>5. CASE HandOver
  BY <1>5 DEF HandOver, NotRunning, BulkInv, FillStep
<1>6. ASSUME NEW w \in BulkWorkers, PullPage(w) PROVE BulkInv' /\ FillStep
  <2>1. PICK page \in {Page(w)} : \E left_out \in SUBSET InRange(w, page) :
          channel' = channel \union (InRange(w, page) \ left_out)
    BY <1>6 DEF PullPage
  <2>2. channel' \subseteq Keys
    BY <2>1 DEF Page, InRange, LedgerKeys, BulkInv
  <2>3. /\ boot = "pulling"
        /\ UNCHANGED <<boot, pinned, verified, dl_done, net_seq, fill, applied>>
    BY <1>6 DEF PullPage
  <2>4. QED
    BY <2>2, <2>3 DEF BulkInv, FillStep
<1>7. ASSUME NEW w \in BulkWorkers, PullFails(w) PROVE BulkInv' /\ FillStep
  BY <1>7 DEF PullFails, BulkInv, FillStep
<1>8. QED
  BY <1>1, <1>2, <1>3, <1>4, <1>5, <1>6, <1>7

\* The steps of the backfill, and a stop.
LEMMA BackfillStep ==
  ASSUME BulkInv, BeginBackfill \/ FillOne \/ FillRound \/ StartFromNewest \/ StopNode
  PROVE  BulkInv' /\ FillStep
<1>1. CASE BeginBackfill
  <2>1. /\ pinned' = IF dl_done = Absent0 THEN 0 ELSE dl_done
        /\ boot' = IF pinned' = 0 THEN "idle" ELSE IF net_seq > pinned' THEN "filling" ELSE "filled"
        /\ fill' = [next |-> pinned' + 1, target |-> net_seq, errors |-> 0]
        /\ applied' = 0 .. pinned' /\ boot = "hashing"
        /\ UNCHANGED <<stopped, channel, verified, dl_done, net_seq>>
    BY <1>1 DEF BeginBackfill
  <2>2. pinned' \in Nat /\ boot' # "pulling"
    BY <2>1 DEF BulkInv
  <2>3. /\ fill' \in [next : Nat, target : Nat, errors : Nat]
        /\ fill'.next >= 1 /\ applied' = 0 .. fill'.next - 1
    BY <2>1, <2>2 DEF BulkInv
  <2>4. QED
    BY <2>1, <2>2, <2>3 DEF BulkInv, FillStep
<1>2. CASE FillOne
  <2>1. /\ boot = "filling" /\ fill.next \in Nat /\ fill.next >= 1 /\ applied = 0 .. fill.next - 1
        /\ UNCHANGED <<boot, pinned, stopped, channel, verified, dl_done, net_seq>>
    BY <1>2 DEF FillOne, BulkInv
  <2>2. CASE applied' = applied \union {fill.next} /\ fill' = [fill EXCEPT !.next = @ + 1, !.errors = 0]
    <3>1. fill' \in [next : Nat, target : Nat, errors : Nat] /\ fill'.next = fill.next + 1
      <4> DEFINE over == [fill EXCEPT !.next = @ + 1]
      <4>1. over \in [next : Nat, target : Nat, errors : Nat] /\ over.next = fill.next + 1
        BY <2>1 DEF BulkInv
      <4>2. fill' = [over EXCEPT !.errors = 0]
        BY <2>2
      <4> HIDE DEF over
      <4>3. QED
        BY <4>1, <4>2
    <3>2. applied' = 0 .. fill'.next - 1
      BY <2>1, <2>2, <3>1
    <3>3. FillStep
      BY <2>1, <2>2 DEF FillStep
    <3>4. QED
      BY <2>1, <3>1, <3>2, <3>3 DEF BulkInv
  <2>3. CASE UNCHANGED applied /\ fill' = [fill EXCEPT !.errors = @ + 1]
    <3>1. fill' \in [next : Nat, target : Nat, errors : Nat] /\ fill'.next = fill.next
      BY <2>3 DEF BulkInv
    <3>2. QED
      BY <2>1, <2>3, <3>1 DEF BulkInv, FillStep
  <2>4. QED
    BY <1>2, <2>2, <2>3 DEF FillOne
<1>3. CASE FillRound
  <2>1. /\ boot = "filling" /\ (boot' = "filled" \/ boot' = boot)
        /\ fill' = fill \/ fill' = [fill EXCEPT !.target = net_seq]
        /\ UNCHANGED <<pinned, stopped, channel, verified, dl_done, net_seq, applied>>
    BY <1>3 DEF FillRound
  <2>2. fill' \in [next : Nat, target : Nat, errors : Nat] /\ fill'.next = fill.next
    BY <2>1 DEF BulkInv
  <2>3. QED
    BY <2>1, <2>2 DEF BulkInv, FillStep
<1>4. CASE StartFromNewest
  BY <1>4 DEF StartFromNewest, BulkInv, FillStep
<1>5. CASE StopNode
  BY <1>5 DEF StopNode, BulkInv, FillStep
<1>6. QED
  BY <1>1, <1>2, <1>3, <1>4, <1>5

\* What a step does to the store and to the tree.
LEMMA StoreStep ==
  ASSUME BulkInv, StoreInv, [BulkNext]_bulk_vars
  PROVE  StoreInv'
<1>1. CASE UNCHANGED bulk_vars
  BY <1>1 DEF bulk_vars, bulk_history, StoreInv
<1>2. CASE StartNode
  <2>1. /\ boot = "off" /\ boot' \in {"hashing", "pulling", "built"}
        /\ UNCHANGED <<db, map_keys, verified>> /\ before' = {k \in Keys : db[k] # 0}
    BY <1>2 DEF StartNode
  <2>2. QED
    BY <2>1 DEF StoreInv
<1>3. CASE Build
  <2>1. /\ boot = "pulling" /\ map_keys' = map_keys \cup channel
        /\ UNCHANGED <<boot, pinned, verified, before>> /\ ~verified
    BY <1>3 DEF Build, StoreInv
  <2>2. map_keys' \subseteq Keys
    BY <2>1 DEF BulkInv, StoreInv
  <2>3. CASE UNCHANGED unwritten /\ db' = [k \in Keys |-> IF k \in channel THEN Version(k, pinned) ELSE db[k]]
    <3>1. \A k \in Keys : db'[k] = IF k \in channel THEN Version(k, pinned) ELSE db[k]
      BY <2>3
    <3>2. QED
      BY <2>1, <2>3, <2>2, <3>1 DEF StoreInv
  <2>4. CASE UNCHANGED db /\ unwritten' = unwritten \cup channel
    BY <2>1, <2>4, <2>2 DEF StoreInv
  <2>5. (UNCHANGED unwritten /\ db' = [k \in Keys |-> IF k \in channel THEN Version(k, pinned) ELSE db[k]])
        \/ (UNCHANGED db /\ unwritten' = unwritten \cup channel)
    BY <1>3 DEF Build
  <2>6. QED
    BY <2>3, <2>4, <2>5
<1>4. CASE FinishDownload
  <2>1. PICK theirs \in {"none", "hash"} : verified' = RootMatches(theirs)
    BY <1>4 DEF FinishDownload
  <2>2. /\ boot = "pulling" /\ boot' = "built"
        /\ UNCHANGED <<pinned, db, map_keys, before, unwritten>>
    BY <1>4 DEF FinishDownload, bulk_history
  <2>3. verified' => map_keys = LedgerKeys(pinned)
    BY <2>1 DEF RootMatches
  <2>4. QED
    BY <2>2, <2>3 DEF StoreInv
<1>5. CASE HandOver
  BY <1>5 DEF HandOver, NotRunning, StoreInv, bulk_history
<1>6. CASE NetCloses \/ FillOne \/ (\E w \in BulkWorkers : PullPage(w) \/ PullFails(w))
  <2>1. UNCHANGED <<boot, pinned, db, map_keys, verified, before, unwritten>>
    BY <1>6 DEF NetCloses, FillOne, PullPage, PullFails, bulk_history
  <2>2. QED
    BY <2>1 DEF StoreInv
<1>7. CASE BeginBackfill
  <2>1. boot = "hashing" /\ boot' # "off" /\ UNCHANGED <<db, map_keys, verified, before, unwritten>>
    BY <1>7 DEF BeginBackfill, bulk_history
  <2>2. QED
    BY <2>1 DEF StoreInv
<1>8. CASE FillRound
  <2>1. boot = "filling" /\ boot' # "off" /\ UNCHANGED <<pinned, db, map_keys, verified, before, unwritten>>
    BY <1>8 DEF FillRound, bulk_history
  <2>2. QED
    BY <2>1 DEF StoreInv
<1>9. CASE StartFromNewest
  BY <1>9 DEF StartFromNewest, StoreInv, bulk_history
<1>10. CASE StopNode
  BY <1>10 DEF StopNode, StoreInv
<1>11. QED
  BY <1>1, <1>2, <1>3, <1>4, <1>5, <1>6, <1>7, <1>8, <1>9, <1>10 DEF BulkNext, BulkStep

\* Every step of a start keeps its invariant.
LEMMA BulkStepKeeps ==
  ASSUME BulkInv, [BulkNext]_bulk_vars
  PROVE  BulkInv' /\ FillStep
<1>1. CASE UNCHANGED bulk_vars
  BY <1>1 DEF bulk_vars, BulkInv, FillStep
<1>2. CASE BulkNext
  BY <1>2, DownloadStep, BackfillStep DEF BulkNext, BulkStep
<1>3. QED
  BY <1>1, <1>2

\* A store called verified is the pinned ledger's but for the entries of a failed write and those an
\* earlier download left; nothing else writes while workers do; the backfill leaves no ledger out
\* (bulk_sync.rs, incremental_sync.rs).
THEOREM StartKeepsItsPromises == BulkSpec => StartSound
<1>1. BulkInit => BulkInv /\ StoreInv
  BY DEF BulkInit, BulkInv, StoreInv
<1>2. BulkInv /\ StoreInv /\ [BulkNext]_bulk_vars => BulkInv' /\ StoreInv'
  BY BulkStepKeeps, StoreStep
<1>3. BulkInv /\ [BulkNext]_bulk_vars =>
        [applied' \ applied # {} /\ boot = "filling" => \A s \in applied' \ applied : s - 1 \in applied]_bulk_vars
  BY BulkStepKeeps DEF FillStep
<1>4. BulkInv /\ StoreInv => VerifiedIsWhole /\ OneWriter
  <2>1. BulkInv => OneWriter
    BY DEF BulkInv, OneWriter
  <2>2. ASSUME StoreInv, verified, NEW k \in Keys
        PROVE  db[k] = Version(k, pinned) \/ k \in unwritten \/ (k \in before /\ Version(k, pinned) = 0)
    <3>1. map_keys = LedgerKeys(pinned) /\ boot # "off"
      BY <2>2 DEF StoreInv
    <3>2. CASE Version(k, pinned) # 0
      BY <2>2, <3>1, <3>2 DEF StoreInv, LedgerKeys
    <3>3. CASE Version(k, pinned) = 0
      BY <2>2, <3>1, <3>3 DEF StoreInv, LedgerKeys
    <3>4. QED
      BY <3>2, <3>3
  <2>3. QED
    BY <2>1, <2>2 DEF VerifiedIsWhole
<1>5. QED
  BY <1>1, <1>2, <1>3, <1>4, PTL DEF BulkSpec, StartSound, FillsInOrder

-------------------------------------------------------------------------------
(* The consensus tracking *)

\* A rounded time named by more than half of the list and one is named most, whatever our own is.
LEMMA MostNamed ==
  ASSUME NEW ours, NEW r, NEW t,
         2 * Cardinality({v \in Trusted : close_votes[v] # 0 /\ Rounded(close_votes[v], Resolution(r)) = t}) > TrustedCount + 1
  PROVE  NegotiatedTimes(ours, r) = {t}
<1> DEFINE voters == {v \in Trusted : close_votes[v] # 0}
           at(u) == Rounded(u, Resolution(r))
           votes == {at(close_votes[v]) : v \in voters} \union {at(ours)}
           naming(u) == {v \in voters : at(close_votes[v]) = u}
           own(u) == IF u = at(ours) THEN 1 ELSE 0
           counts == CloseCounts(ours, r)
           total == Max({TrustedCount, 1})
<1>1. /\ counts = [u \in votes |-> Cardinality(naming(u)) + own(u)]
      /\ TrustedCount \in Nat
  BY FS_CardinalityType, TrustedFinite DEF CloseCounts, TrustedCount
<1>2. naming(t) = {v \in Trusted : close_votes[v] # 0 /\ Rounded(close_votes[v], Resolution(r)) = t}
  OBVIOUS
<1>3. 2 * Cardinality(naming(t)) > TrustedCount + 1
  BY <1>2
<1>4. ASSUME NEW u PROVE naming(u) \subseteq Trusted /\ IsFiniteSet(naming(u)) /\ Cardinality(naming(u)) \in Nat
  <2>1. naming(u) \subseteq Trusted
    OBVIOUS
  <2>2. QED
    BY <2>1, TrustedFinite, FS_Subset, FS_CardinalityType
<1>5. t \in votes
  <2>1. naming(t) # {}
    <3>1. SUFFICES ASSUME naming(t) = {} PROVE FALSE
      OBVIOUS
    <3>2. Cardinality(naming(t)) = 0
      BY <3>1, FS_EmptySet
    <3>3. QED
      BY <1>1, <1>3, <3>2
  <2>2. QED
    BY <2>1
<1>6. ASSUME NEW u \in votes, u # t PROVE counts[u] < counts[t]
  <2>1. Cardinality(naming(u)) + Cardinality(naming(t)) <= TrustedCount
    <3>1. naming(u) \cap naming(t) = {} /\ naming(u) \union naming(t) \subseteq Trusted
      BY <1>6
    <3> HIDE DEF naming
    <3>2. Cardinality(naming(u) \union naming(t)) = Cardinality(naming(u)) + Cardinality(naming(t))
      <4>1. Cardinality(naming(u) \cap naming(t)) = 0
        BY <3>1, FS_EmptySet
      <4>2. Cardinality(naming(u) \union naming(t))
              = Cardinality(naming(u)) + Cardinality(naming(t)) - Cardinality(naming(u) \cap naming(t))
        BY <1>4, FS_Union
      <4>3. QED
        BY <1>4, <4>1, <4>2
    <3>3. Cardinality(naming(u) \union naming(t)) <= Cardinality(Trusted)
      BY <3>1, TrustedFinite, FS_Subset
    <3>4. QED
      BY <3>2, <3>3 DEF TrustedCount
  <2>2. Cardinality(naming(u)) \in Nat /\ Cardinality(naming(t)) \in Nat
    BY <1>4
  <2>3. counts[u] = Cardinality(naming(u)) + own(u) /\ counts[t] = Cardinality(naming(t)) + own(t)
    BY <1>1, <1>5
  <2>4. own(u) \in {0, 1} /\ own(t) \in {0, 1} /\ own(u) + own(t) <= 1
    BY <1>6
  <2> HIDE DEF naming, own, counts
  <2>5. QED
    BY <1>1, <1>3, <2>1, <2>2, <2>3, <2>4
<1>7. 2 * counts[t] >= total
  <2>1. total \in {TrustedCount, 1} /\ (total = TrustedCount \/ total = 1)
    <3>1. \E m \in {TrustedCount, 1} : \A y \in {TrustedCount, 1} : m >= y
      BY <1>1
    <3>2. QED
      BY <3>1 DEF Max
  <2>2. counts[t] = Cardinality(naming(t)) + own(t) /\ own(t) \in {0, 1} /\ Cardinality(naming(t)) \in Nat
    BY <1>1, <1>4, <1>5
  <2> HIDE DEF naming, own, counts, total
  <2>3. QED
    BY <1>1, <1>3, <2>1, <2>2
<1>8. {u \in DOMAIN counts : \A w \in DOMAIN counts : counts[w] <= counts[u]} = {t}
  <2>1. DOMAIN counts = votes
    BY <1>1
  <2>2. \A u \in votes : counts[u] \in Int
    <3>1. ASSUME NEW u \in votes PROVE counts[u] \in Int
      <4>1. counts[u] = Cardinality(naming(u)) + own(u) /\ own(u) \in {0, 1} /\ Cardinality(naming(u)) \in Nat
        BY <1>1, <1>4
      <4> HIDE DEF naming, own, counts, votes
      <4>2. QED
        BY <4>1
    <3>2. QED
      BY <3>1
  <2> HIDE DEF counts, votes
  <2>3. QED
    BY <1>5, <1>6, <2>1, <2>2
<1>9. NegotiatedTimes(ours, r)
        = {IF 2 * counts[u] >= total THEN u ELSE Rounded(ours, Resolution(r)) :
             u \in {u \in DOMAIN counts : \A w \in DOMAIN counts : counts[w] <= counts[u]}}
  BY DEF NegotiatedTimes
<1> HIDE DEF counts, total
<1>10. QED
  BY <1>7, <1>8, <1>9

\* A threshold up to the eighth round asks for half at least and four in five at most.
LEMMA ThresholdBetween ==
  ASSUME NEW r \in 1 .. 8
  PROVE  Threshold(r) \in Nat /\ 50 <= Threshold(r) /\ Threshold(r) <= 80
BY DEF Threshold

\* On proposals of which four in five are one set, its transactions have those four in five behind
\* them, and any other one in five at most.
LEMMA BackersOfAgreed ==
  ASSUME NEW set \in SUBSET Txs, IsConsensusReached(set, 2), NEW tx
  PROVE  /\ Cardinality(Backers(tx)) \in Nat /\ TrustedCount \in Nat /\ TrustedCount > 0
         /\ tx \in set => 100 * Cardinality(Backers(tx)) >= 80 * TrustedCount /\ Backers(tx) # {}
         /\ tx \notin set => 100 * Cardinality(Backers(tx)) <= 20 * TrustedCount
<1> DEFINE for == Agreeing(set)  with == Backers(tx)
<1>1. for \subseteq Trusted /\ with \subseteq Trusted
  BY DEF Agreeing, Backers
<1>2. /\ IsFiniteSet(for) /\ Cardinality(for) \in Nat
      /\ IsFiniteSet(with) /\ Cardinality(with) \in Nat /\ TrustedCount \in Nat
  BY <1>1, TrustedFinite, FS_Subset, FS_CardinalityType DEF TrustedCount
<1>3. TrustedCount > 0 /\ 100 * Cardinality(for) >= 80 * TrustedCount
  BY DEF IsConsensusReached
<1>4. for # {}
  <2>1. CASE for = {}
    <3>1. Cardinality(for) = 0
      BY <2>1, FS_EmptySet
    <3> HIDE DEF for
    <3>2. QED
      BY <1>2, <1>3, <3>1
  <2>2. QED
    BY <2>1
<1>5. CASE tx \in set
  <2>1. for \subseteq with
    BY <1>5, NoProposalIsNone DEF Agreeing, Backers
  <2> HIDE DEF for, with
  <2>2. Cardinality(for) <= Cardinality(with) /\ with # {}
    BY <1>2, <1>4, <2>1, FS_Subset
  <2>3. 100 * Cardinality(with) >= 80 * TrustedCount
    BY <1>2, <1>3, <2>2
  <2>4. QED
    BY <1>2, <1>3, <1>5, <2>2, <2>3 DEF with
<1>6. CASE tx \notin set
  <2>1. for \cap with = {}
    BY <1>6 DEF Agreeing, Backers
  <2> HIDE DEF for, with
  <2>2. Cardinality(for \cup with) = Cardinality(for) + Cardinality(with)
    <3>1. Cardinality(for \cap with) = 0
      BY <2>1, FS_EmptySet
    <3>2. Cardinality(for \cup with) = Cardinality(for) + Cardinality(with) - Cardinality(for \cap with)
      BY <1>2, FS_Union
    <3>3. QED
      BY <1>2, <3>1, <3>2
  <2>3. Cardinality(for \cup with) <= TrustedCount
    BY <1>1, TrustedFinite, FS_Subset DEF TrustedCount
  <2>4. 100 * Cardinality(with) <= 20 * TrustedCount
    BY <1>2, <1>3, <2>2, <2>3
  <2>5. QED
    BY <1>2, <1>3, <1>6, <2>4 DEF with
<1>7. QED
  BY <1>5, <1>6

\* So every position is moved to that set.
LEMMA UpdatedIsAgreed ==
  ASSUME NEW set \in SUBSET Txs, IsConsensusReached(set, 2), NEW ours, NEW r \in 1 .. 8
  PROVE  Updated(ours, r) = set
<1> DEFINE said == UNION {proposals[v] : v \in {w \in Trusted : proposals[w] # NoProposal}}
<1>1. ASSUME NEW tx \in Txs
      PROVE  tx \in set <=> tx \in ours \union said /\ 100 * Cardinality(Backers(tx)) >= Threshold(r) * TrustedCount
  <2>1. /\ Cardinality(Backers(tx)) \in Nat /\ TrustedCount \in Nat /\ TrustedCount > 0
        /\ tx \in set => 100 * Cardinality(Backers(tx)) >= 80 * TrustedCount /\ Backers(tx) # {}
        /\ tx \notin set => 100 * Cardinality(Backers(tx)) <= 20 * TrustedCount
    BY BackersOfAgreed
  <2>2. PICK n \in Nat : n = Threshold(r) * TrustedCount /\ 50 * TrustedCount <= n /\ n <= 80 * TrustedCount
    <3>1. PICK h \in Nat : h = Threshold(r) /\ 50 <= h /\ h <= 80
      BY ThresholdBetween
    <3>2. ASSUME NEW c \in Nat PROVE h * c \in Nat /\ 50 * c <= h * c /\ h * c <= 80 * c
      BY <3>1, Z3
    <3>3. QED
      BY <2>1, <3>1, <3>2
  <2>3. tx \in set <=> 100 * Cardinality(Backers(tx)) >= n
    BY <2>1, <2>2
  <2>4. Backers(tx) # {} => tx \in said
    BY DEF Backers
  <2> HIDE DEF said
  <2>5. QED
    BY <2>1, <2>2, <2>3, <2>4
<1> HIDE DEF said
<1>2. Updated(ours, r) = {tx \in Txs : tx \in ours \union said
                                       /\ 100 * Cardinality(Backers(tx)) >= Threshold(r) * TrustedCount}
  BY DEF Updated, said
<1>3. QED
  BY <1>1, <1>2

\* On the same proposals every tracker moves to the one set any of them accepts, in the rounds up
\* to the eighth; and a close time that more than half of the list and our own vote round to is
\* what any of them negotiates (threshold.rs, close_time.rs).
THEOREM RoundsKeepTheirPromises == ConsensusSpec => RoundsSound
<1>1. SameCloseTime
  BY MostNamed DEF SameCloseTime
<1>2. [ConsensusNext]_consensus_vars =>
        [phase = "establish" /\ phase' = "accept"
           => \A ours \in SUBSET Txs, r \in 1 .. 8 : Updated(ours, r) = agreed']_consensus_vars
  <2>1. SUFFICES ASSUME ConsensusNext, phase' = "accept", phase = "establish",
                        NEW ours \in SUBSET Txs, NEW r \in 1 .. 8
                 PROVE  Updated(ours, r) = agreed'
    OBVIOUS
  <2>2. Converge
    BY <2>1 DEF ConsensusNext, OnTransaction, OnCloseTrigger, OnPeerProposal, NextRound
  <2>3. IsConsensusReached(our_set', stable') /\ agreed' = our_set'
    BY <2>1, <2>2 DEF Converge
  <2>4. IsConsensusReached(agreed', 2)
    BY <2>3 DEF IsConsensusReached
  <2>5. agreed' \in SUBSET Txs
    BY <2>2, <2>3 DEF Converge, IsConsensusReached, Updated, TrustedCount
  <2>6. QED
    BY <2>4, <2>5, UpdatedIsAgreed
<1>3. QED
  BY <1>1, <1>2, PTL DEF ConsensusSpec, RoundsSound, OthersFollow
=================================================================================
