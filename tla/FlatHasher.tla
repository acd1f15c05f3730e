------------------------------- MODULE FlatHasher -------------------------------
(***************************************************************************)
(* The hasher the ledger loop computes the account hash with                *)
(* (state_hash.rs): buckets by the first nibbles of a key, each with the     *)
(* hash of its subtree, recomputed at the next root when something in it     *)
(* changed.  It is built from the store, follows the keys each ledger        *)
(* wrote, is thrown away when the store is not trusted, and is cloned for a   *)
(* comparison in which another engine's changes are laid over.  The file it  *)
(* is saved to is read by nothing.                                           *)
(***************************************************************************)
EXTENDS Naturals, Sequences, FiniteSets, Functions, SequencesExt

CONSTANTS
  HashNibbles,  \* the branches of an inner node; 16 in the code
  HashKeys,     \* keys: sequences of nibbles
  HashValues,   \* what the store holds under a key
  FirstStores,  \* bound: the stores a start may find
  BucketDepth,  \* the nibbles a bucket is named by; 4 in the code
  NOTHING,      \* the zero hash; a value that is absent
  NoHasher,     \* the hasher is not built
  MaxWrites     \* bound: entries written in all

VARIABLES
  db,           \* the store: key -> value
  hasher,       \* FlatHasher [entries, bucket_hashes, dirty], or NoHasher
  root,         \* what update_and_hash answered for this ledger; NOTHING before it does
  behind,       \* history: keys written to the store, not yet told to the hasher
  clone,        \* the hasher as it was before the ledger, kept for the comparison, or NoHasher
  clone_db,     \* history: what the store held then
  writes        \* history: entries written so far

hasher_vars == <<db, hasher, root, behind, clone, clone_db, writes>>

Upsert(f, k, v) == [x \in DOMAIN f \cup {k} |-> IF x = k THEN v ELSE f[x]]
Dropped(f, k) == Restrict(f, DOMAIN f \ {k})
Set1(f, k, v) == IF v = NOTHING THEN Dropped(f, k) ELSE Upsert(f, k, v)

-----------------------------------------------------------------------------
(* FlatHasher *)

leaf_hash(k, v) == <<k, v>>
Buckets == [1 .. BucketDepth -> HashNibbles]
bucket_idx(k) == SubSeq(k, 1, BucketDepth)

RECURSIVE compute_subtree(_, _)
compute_subtree(m, d) ==
  CASE m = <<>>                  -> NOTHING
    [] Cardinality(DOMAIN m) = 1 -> m[CHOOSE k \in DOMAIN m : TRUE]
    [] OTHER                     -> [i \in HashNibbles |-> compute_subtree(Restrict(m, {k \in DOMAIN m : k[d + 1] = i}), d + 1)]

InBucket(m, b) == Restrict(m, {k \in DOMAIN m : bucket_idx(k) = b})

Built(m) ==
  [entries |-> m, bucket_hashes |-> [b \in Buckets |-> compute_subtree(InBucket(m, b), BucketDepth)], dirty |-> {}]

build_from_db(D) == Built([k \in DOMAIN D |-> leaf_hash(k, D[k])])

\* Only a key that is new, or goes, leaves its bucket to be computed again.
update_shape(h, k, v) ==
  [h EXCEPT !.entries = Set1(@, k, IF v = NOTHING THEN NOTHING ELSE leaf_hash(k, v)),
            !.dirty = IF (v = NOTHING) = (k \in DOMAIN h.entries) THEN @ \cup {bucket_idx(k)} ELSE @]

update(h, k, v) ==
  [h EXCEPT !.entries = Set1(@, k, IF v = NOTHING THEN NOTHING ELSE leaf_hash(k, v)),
            !.dirty = @ \cup {bucket_idx(k)}]

RECURSIVE UpdatedBy(_, _, _)
UpdatedBy(h, keys, D) ==
  IF keys = {} THEN h
  ELSE LET k == CHOOSE x \in keys : TRUE
       IN UpdatedBy(update(h, k, IF k \in DOMAIN D THEN D[k] ELSE NOTHING), keys \ {k}, D)

Refreshed(h) ==
  [h EXCEPT !.bucket_hashes = [b \in Buckets |-> IF b \in h.dirty THEN compute_subtree(InBucket(h.entries, b), BucketDepth)
                                                 ELSE h.bucket_hashes[b]],
            !.dirty = {}]

\* Above the buckets every occupied position is an inner node, with one child as well.
RECURSIVE Combined(_, _, _)
Combined(hashes, p, d) ==
  IF d = BucketDepth THEN hashes[p]
  ELSE IF d > 0 /\ \A b \in Buckets : IsPrefix(p, b) => hashes[b] = NOTHING THEN NOTHING
  ELSE [i \in HashNibbles |-> Combined(hashes, Append(p, i), d + 1)]

root_of(h) == IF h.entries = <<>> THEN NOTHING ELSE Combined(Refreshed(h).bucket_hashes, <<>>, 0)

-----------------------------------------------------------------------------
(* StateHashComputer *)

HasherInit ==
  /\ db \in FirstStores /\ hasher = NoHasher /\ root = NOTHING /\ behind = {} /\ clone = NoHasher /\ clone_db = <<>>
  /\ writes = 0

\* The loop writes an entry of a ledger, the next one when this one has its root.
Write(k, v) ==
  /\ writes < MaxWrites /\ writes' = writes + 1
  /\ root # NOTHING => clone = NoHasher
  /\ db' = Set1(db, k, v)
  /\ behind' = behind \cup {k}
  /\ root' = NOTHING
  /\ UNCHANGED <<hasher, clone, clone_db>>

\* A hasher not built is built from the whole store; the ledger's keys are read in any case.
Current == IF hasher = NoHasher THEN build_from_db(db) ELSE hasher

update_and_hash ==
  /\ hasher' = Refreshed(UpdatedBy(Current, behind, db))
  /\ root' = root_of(hasher')
  /\ behind' = {}
  /\ UNCHANGED <<db, clone, clone_db, writes>>

\* A ledger of a gap: the entries only.
update_only ==
  /\ hasher' = UpdatedBy(Current, behind, db)
  /\ behind' = {}
  /\ UNCHANGED <<db, root, clone, clone_db, writes>>

\* Before the ledger is processed, for the comparison.
snapshot_hasher ==
  /\ hasher # NoHasher /\ behind = {} /\ clone = NoHasher
  /\ clone' = hasher /\ clone_db' = db
  /\ root' = NOTHING
  /\ UNCHANGED <<db, hasher, behind, writes>>

shadow_hash_from_snapshot(overlay) == root_of(UpdatedBy(clone, DOMAIN overlay, overlay))

\* The comparison is made and the clone used up.
check_shadow_hash ==
  /\ clone # NoHasher
  /\ clone' = NoHasher /\ clone_db' = <<>>
  /\ UNCHANGED <<db, hasher, root, behind, writes>>

\* The store is not trusted any more: the next use builds anew.
invalidate_tree ==
  /\ hasher' = NoHasher
  /\ UNCHANGED <<db, root, behind, clone, clone_db, writes>>

HasherNext ==
  \/ \E k \in HashKeys, v \in HashValues \cup {NOTHING} : Write(k, v)
  \/ update_and_hash \/ update_only
  \/ snapshot_hasher \/ check_shadow_hash
  \/ invalidate_tree

-----------------------------------------------------------------------------
(* What the hashes must be *)

Leaves(D) == [k \in DOMAIN D |-> leaf_hash(k, D[k])]

\* Every position above the buckets that holds an entry holds two or more: so on the main network.
Spread(D) ==
  \A d \in 0 .. BucketDepth - 1 : \A k \in DOMAIN D :
    \E x \in DOMAIN D : x # k /\ SubSeq(x, 1, d) = SubSeq(k, 1, d)

\* The hash the loop is given is that of a hasher built from the store at that moment, and where the
\* entries are spread it is the root of the tree the network computes.
RootIsTheStores ==
  root # NOTHING =>
    /\ root = root_of(build_from_db(db))
    /\ Spread(db) => root = compute_subtree(Leaves(db), 0)

\* A hasher that has been told everything holds the store's entries, and its next root is that of
\* one built anew, although between roots a bucket's kept hash may be old.
HasherFollows ==
  hasher # NoHasher /\ behind = {} =>
    /\ hasher.entries = Leaves(db)
    /\ root_of(hasher) = root_of(build_from_db(db))

\* The comparison's hash is that of the parent's store with the overlay's changes, whatever the loop
\* did to its own hasher and store meanwhile.
ShadowIsParentPlusOverlay ==
  clone # NoHasher =>
    \A k \in HashKeys : \A v \in HashValues :
      shadow_hash_from_snapshot(k :> v) = root_of(build_from_db(Upsert(clone_db, k, v)))

HasherOK == RootIsTheStores /\ HasherFollows /\ ShadowIsParentPlusOverlay
===============================================================================
