--------------------------------- MODULE Mempool ---------------------------------
(***************************************************************************)
(* The transaction queue (fee order, capacity, one place per hash) and the   *)
(* relay filter, called from many tasks (mempool/queue.rs, relay.rs), and    *)
(* the checks before a transaction is queued (validate.rs, rpc/handlers.rs).*)
(***************************************************************************)
EXTENDS Integers, FiniteSets

CONSTANTS
  PoolTxs, Callers,
  FeeOf(_), LastSeqOf(_), \* a transaction's fee, its LastLedgerSequence (0: none)
  SoundTx(_),             \* it decodes, has its fields, and no bad signature
  FEE_CAP, MAX_CAPACITY, RELAY_TTL, CLEANUP_EVERY,
  MaxPoolTime, MaxLedger

Never == -(RELAY_TTL + 1)
Idle == 0

ASSUME PoolConstants ==
  /\ PoolTxs \subseteq Nat \ {Idle}
  /\ MAX_CAPACITY \in Nat /\ RELAY_TTL \in Nat

VARIABLES
  queue,        \* transactions in the fee-ordered map
  seen,         \* the hashes known
  removing,     \* caller -> the transaction it removes, between its two steps, or Idle
  relay_seen,   \* relay filter: hash -> when it was last relayed, or Never
  last_cleanup,
  relays,       \* hash -> when it was last let through, or Never
  pool_time, pool_ledger

pool_vars == <<queue, seen, removing, relay_seen, last_cleanup, relays, pool_time, pool_ledger>>

PoolInit ==
  /\ queue = {} /\ seen = {} /\ removing = [c \in Callers |-> Idle]
  /\ relay_seen = [t \in PoolTxs |-> Never] /\ last_cleanup = 0 /\ relays = [t \in PoolTxs |-> Never]
  /\ pool_time = 0 /\ pool_ledger = 1

Lowest == {t \in queue : \A u \in queue : FeeOf(t) < FeeOf(u) \/ (FeeOf(t) = FeeOf(u) /\ t >= u)}

\* validate_transaction: size, decoding, Account, Fee and Sequence, a sane fee, and the
\* signature when both its fields are there.
Valid(t) == SoundTx(t) /\ FeeOf(t) <= FEE_CAP

\* Mutant: at capacity the lowest goes for any newcomer.
Outbids(t, low) == TRUE

\* At capacity only a higher fee than the lowest gets in.
Displaces(t, low) == FeeOf(t) > FeeOf(low)

\* submit: add, under the queue's lock.
Add(t) ==
  /\ Valid(t) /\ t \notin seen
  /\ IF Cardinality(queue) >= MAX_CAPACITY
     THEN \E low \in Lowest : /\ Displaces(t, low)
                              /\ queue' = (queue \ {low}) \union {t}
                              /\ seen' = (seen \ {low}) \union {t}
     ELSE queue' = queue \union {t} /\ seen' = seen \union {t}
  /\ UNCHANGED <<removing, relay_seen, last_cleanup, relays, pool_time, pool_ledger>>

\* Mutant: the queued transaction is left.
RemoveNothing(c) ==
  /\ removing[c] # Idle /\ removing' = [removing EXCEPT ![c] = Idle]
  /\ UNCHANGED <<queue, seen, relay_seen, last_cleanup, relays, pool_time, pool_ledger>>

\* remove: the hash is forgotten before the queue's lock is taken.
RemoveSeen(c, t) ==
  /\ removing[c] = Idle /\ removing' = [removing EXCEPT ![c] = t]
  /\ seen' = seen \ {t}
  /\ UNCHANGED <<queue, relay_seen, last_cleanup, relays, pool_time, pool_ledger>>

RemoveQueued(c) ==
  /\ removing[c] # Idle /\ removing' = [removing EXCEPT ![c] = Idle]
  /\ queue' = queue \ {removing[c]}
  /\ UNCHANGED <<seen, relay_seen, last_cleanup, relays, pool_time, pool_ledger>>

\* expire: those whose last ledger is past.
Expire ==
  /\ pool_ledger < MaxLedger /\ pool_ledger' = pool_ledger + 1
  /\ LET gone == {t \in queue : LastSeqOf(t) # 0 /\ LastSeqOf(t) < pool_ledger'} IN
       queue' = queue \ gone /\ seen' = seen \ gone
  /\ UNCHANGED <<removing, relay_seen, last_cleanup, relays, pool_time>>

Fresh(seen_at) == seen_at # Never /\ pool_time - seen_at < RELAY_TTL

\* Mutant: cleaning up empties the filter.
SweptAll(filter) == [t \in PoolTxs |-> Never]

Swept(filter) == [t \in PoolTxs |-> IF Fresh(filter[t]) THEN filter[t] ELSE Never]

\* should_relay: cleaned up now and then, and true when not let through within the time.
ShouldRelay(t) ==
  LET due == pool_time - last_cleanup > CLEANUP_EVERY
      filter == IF due THEN Swept(relay_seen) ELSE relay_seen IN
  /\ last_cleanup' = IF due THEN pool_time ELSE last_cleanup
  /\ relay_seen' = IF Fresh(filter[t]) THEN filter ELSE [filter EXCEPT ![t] = pool_time]
  /\ relays' = IF Fresh(filter[t]) THEN relays ELSE [relays EXCEPT ![t] = pool_time]
  /\ UNCHANGED <<queue, seen, removing, pool_time, pool_ledger>>

PoolTick ==
  /\ pool_time < MaxPoolTime /\ pool_time' = pool_time + 1
  /\ UNCHANGED <<queue, seen, removing, relay_seen, last_cleanup, relays, pool_ledger>>

PoolNext ==
  \/ \E t \in PoolTxs : Add(t) \/ ShouldRelay(t) \/ \E c \in Callers : RemoveSeen(c, t)
  \/ \E c \in Callers : RemoveQueued(c)
  \/ Expire \/ PoolTick

PoolSpec == PoolInit /\ [][PoolNext]_pool_vars

\* A queued transaction is known, so that it is not queued twice, unless it is just being
\* removed: whatever adds, evictions, expiries and removals overlap.
QueuedIsKnown == queue \ seen \subseteq {removing[c] : c \in Callers}

\* The queue never gives up a transaction for one that pays less, and never outgrows its size.
CheapestGoes ==
  [][/\ Cardinality(queue') <= MAX_CAPACITY
     /\ \A low \in queue \ queue', t \in queue' \ queue : FeeOf(t) > FeeOf(low)]_pool_vars

\* A transaction is let through at most once within the filter's time, across its clean-ups.
RelayedOnce == [][\A t \in PoolTxs : relays'[t] # relays[t] => relays'[t] - relays[t] >= RELAY_TTL]_pool_vars

\* The pool's three promises together (queue.rs, relay.rs).
PoolSound == []QueuedIsKnown /\ CheapestGoes /\ RelayedOnce
==================================================================================
