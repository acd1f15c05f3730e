------------------------------- MODULE ShaMapTree -------------------------------
(***************************************************************************)
(* The tree the ledger's entries are hashed with (shamap/tree.rs, node.rs,  *)
(* diff.rs): inner nodes that keep the hash they computed until they are     *)
(* touched, leaves that are pushed down by a collision and pulled up again   *)
(* by a removal.  A hash is the term it stands for, so equal hashes are      *)
(* equal contents; a key is the sequence of its nibbles.                     *)
(***************************************************************************)
EXTENDS Naturals, Sequences, FiniteSets, Functions, SequencesExt

CONSTANTS
  Nibbles,     \* the branches of an inner node; 16 in the code
  Depth,       \* the nibbles of a key; 64 in the code
  TreeKeys,    \* keys: sequences of Depth nibbles
  Values,      \* what an entry holds
  ZERO         \* the zero hash, and an empty slot

VARIABLES
  tree,        \* SHAMap.root
  size,        \* SHAMap.size
  hash_only,   \* whether this map was built with insert_hash_only: no data in its leaves
  map_held,        \* history: key -> value, as the calls put them
  base,        \* a clone of the map, its root hash computed; ZERO before there is one
  base_held    \* history: what the clone holds

map_vars == <<tree, size, hash_only, map_held, base, base_held>>

WithKey(f, k, v) == [x \in DOMAIN f \cup {k} |-> IF x = k THEN v ELSE f[x]]
WithoutKey(f, k) == Restrict(f, DOMAIN f \ {k})

-----------------------------------------------------------------------------
(* node.rs *)

Leaf(k, v, data) == [key |-> k, val |-> v, data |-> data]
EmptyInner == [kids |-> [i \in Nibbles |-> ZERO], hash |-> ZERO]
IsLeaf(n) == "key" \in DOMAIN n
Children(n) == {i \in Nibbles : n.kids[i] # ZERO}

\* A slot written keeps the hash computed before it.
set_child_stale(n, i, c) == [n EXCEPT !.kids[i] = c]

\* A slot written, or lent out to be written.
set_child_node(n, i, c) == [n EXCEPT !.kids[i] = c, !.hash = ZERO]

LeafHash(k, v) == <<k, v>>

RECURSIVE hash(_)
hash(n) ==
  IF IsLeaf(n) THEN LeafHash(n.key, n.val)
  ELSE IF n.hash # ZERO THEN n.hash
  ELSE IF \E i \in Nibbles : Children(n) = {i} /\ IsLeaf(n.kids[i])
       THEN hash(n.kids[CHOOSE i \in Nibbles : n.kids[i] # ZERO])
       ELSE [i \in Nibbles |-> IF n.kids[i] = ZERO THEN ZERO ELSE hash(n.kids[i])]

\* The node after hash(): every inner node that was asked keeps its answer.
RECURSIVE Hashed(_)
Hashed(n) ==
  IF IsLeaf(n) \/ n.hash # ZERO THEN n
  ELSE [hash |-> hash(n), kids |-> [i \in Nibbles |-> IF n.kids[i] = ZERO THEN ZERO ELSE Hashed(n.kids[i])]]

RECURSIVE invalidate_all_caches(_)
invalidate_all_caches(n) ==
  IF IsLeaf(n) THEN n
  ELSE [hash |-> ZERO, kids |-> [i \in Nibbles |-> IF n.kids[i] = ZERO THEN ZERO ELSE invalidate_all_caches(n.kids[i])]]

-----------------------------------------------------------------------------
(* tree.rs: d is the nibbles already used *)

RECURSIVE lookup_in(_, _, _)
lookup_in(n, k, d) ==
  IF IsLeaf(n) THEN IF n.key = k THEN n.data ELSE ZERO
  ELSE IF n.kids[k[d + 1]] = ZERO THEN ZERO
  ELSE lookup_in(n.kids[k[d + 1]], k, d + 1)

RECURSIVE keys_with_prefix(_, _, _)
keys_with_prefix(n, p, d) ==
  IF IsLeaf(n) THEN IF IsPrefix(p, n.key) THEN {n.key} ELSE {}
  ELSE UNION {keys_with_prefix(n.kids[i], p, d + 1) : i \in {j \in Children(n) : d >= Len(p) \/ p[d + 1] = j}}

\* Two leaves in the place of one: side by side, or further down when they share the nibble.
RECURSIVE Split(_, _, _)
Split(old, new, d) ==
  LET i == old.key[d + 1]
      j == new.key[d + 1]
  IN IF i = j THEN set_child_node(EmptyInner, i, Split(old, new, d + 1))
     ELSE set_child_node(set_child_node(EmptyInner, i, old), j, new)

RECURSIVE insert_into(_, _, _)
insert_into(n, leaf, d) ==
  LET i == leaf.key[d + 1] IN
  CASE IsLeaf(n) /\ n.key = leaf.key          -> leaf
    [] IsLeaf(n) /\ n.key # leaf.key          -> Split(n, leaf, d)
    [] ~IsLeaf(n) /\ n.kids[i] = ZERO         -> set_child_node(n, i, leaf)
    [] ~IsLeaf(n) /\ n.kids[i] # ZERO         -> set_child_node(n, i, insert_into(n.kids[i], leaf, d + 1))

\* What the insert answers: TRUE for a key that was not there.
RECURSIVE IsNew(_, _, _)
IsNew(n, k, d) ==
  IF IsLeaf(n) THEN n.key # k
  ELSE n.kids[k[d + 1]] # ZERO => IsNew(n.kids[k[d + 1]], k, d + 1)

\* The leaf under a node that holds nothing else.
RECURSIVE find_sole_leaf(_)
find_sole_leaf(n) ==
  IF IsLeaf(n) THEN n
  ELSE IF Cardinality(Children(n)) = 1 THEN find_sole_leaf(n.kids[CHOOSE i \in Children(n) : TRUE])
  ELSE ZERO

\* A leaf directly below goes up, one further down stays.
CollapsedOnce(n) ==
  IF \E i \in Nibbles : Children(n) = {i} /\ IsLeaf(n.kids[i]) THEN n.kids[CHOOSE i \in Children(n) : TRUE] ELSE n

Collapsed(n) ==
  IF Cardinality(Children(n)) = 1 /\ find_sole_leaf(n) # ZERO THEN find_sole_leaf(n) ELSE n

Vanished(n) == ~IsLeaf(n) /\ Children(n) = {}

\* A key that is not there still costs the nodes on its way the hash they kept.
RECURSIVE delete_from(_, _, _)
delete_from(n, k, d) ==
  IF IsLeaf(n) THEN IF n.key = k THEN EmptyInner ELSE n
  ELSE LET i == k[d + 1] IN
       IF n.kids[i] = ZERO THEN n
       ELSE LET child == delete_from(n.kids[i], k, d + 1) IN
            IF IsNew(n, k, d) THEN set_child_node(n, i, child)
            ELSE Collapsed(set_child_node(n, i, IF Vanished(child) THEN ZERO ELSE child))

-----------------------------------------------------------------------------
(* diff.rs *)

RECURSIVE collect_leaves(_)
collect_leaves(n) == IF IsLeaf(n) THEN {n.key} ELSE UNION {collect_leaves(n.kids[i]) : i \in Children(n)}

Changes(gone, came, changed) == [removed |-> gone, added |-> came, modified |-> changed]

RECURSIVE diff_nodes(_, _)
diff_nodes(o, n) ==
  LET slot(i) == CASE o.kids[i] # ZERO /\ n.kids[i] # ZERO -> diff_nodes(o.kids[i], n.kids[i])
                   [] o.kids[i] # ZERO /\ n.kids[i] = ZERO -> Changes(collect_leaves(o.kids[i]), {}, {})
                   [] o.kids[i] = ZERO /\ n.kids[i] # ZERO -> Changes({}, collect_leaves(n.kids[i]), {})
                   [] OTHER                                -> Changes({}, {}, {})
  IN IF hash(o) = hash(n) THEN Changes({}, {}, {})
     ELSE IF ~IsLeaf(o) /\ ~IsLeaf(n)
          THEN [part \in {"removed", "added", "modified"} |-> UNION {slot(i)[part] : i \in Nibbles}]
     ELSE IF IsLeaf(o) /\ IsLeaf(n) /\ o.key = n.key THEN Changes({}, {}, {o.key})
     ELSE Changes(collect_leaves(o), collect_leaves(n), {})

diff(o, n) == IF hash(o) = hash(n) THEN Changes({}, {}, {}) ELSE diff_nodes(o, n)

-----------------------------------------------------------------------------
(* The calls *)

MapInit ==
  /\ tree = EmptyInner /\ size = 0 /\ map_held = <<>>
  /\ hash_only \in BOOLEAN
  /\ base = ZERO /\ base_held = <<>>

insert(k, v) ==
  /\ ~hash_only
  /\ tree' = insert_into(tree, Leaf(k, v, v), 0)
  /\ size' = IF IsNew(tree, k, 0) THEN size + 1 ELSE size
  /\ map_held' = WithKey(map_held, k, v)
  /\ UNCHANGED <<hash_only, base, base_held>>

insert_hash_only(k, v) ==
  /\ hash_only
  /\ tree' = insert_into(tree, Leaf(k, v, ZERO), 0)
  /\ size' = IF IsNew(tree, k, 0) THEN size + 1 ELSE size
  /\ map_held' = WithKey(map_held, k, v)
  /\ UNCHANGED <<hash_only, base, base_held>>

delete(k) ==
  /\ tree' = delete_from(tree, k, 0)
  /\ size' = IF IsNew(tree, k, 0) THEN size ELSE size - 1
  /\ map_held' = WithoutKey(map_held, k)
  /\ UNCHANGED <<hash_only, base, base_held>>

root_hash ==
  /\ size # 0
  /\ tree' = Hashed(tree)
  /\ UNCHANGED <<size, hash_only, map_held, base, base_held>>

invalidate_caches ==
  /\ tree' = invalidate_all_caches(tree)
  /\ UNCHANGED <<size, hash_only, map_held, base, base_held>>

\* A ledger's map kept when its root has been computed, to be compared with later ones.
Clone ==
  /\ base = ZERO
  /\ base' = Hashed(tree)
  /\ base_held' = map_held
  /\ UNCHANGED <<tree, size, hash_only, map_held>>

MapNext ==
  \/ \E k \in TreeKeys, v \in Values : insert(k, v) \/ insert_hash_only(k, v)
  \/ \E k \in TreeKeys : delete(k)
  \/ root_hash
  \/ invalidate_caches
  \/ Clone

-----------------------------------------------------------------------------
(* What the tree must be *)

\* The tree with no memory: one leaf where a key stands alone, inner nodes where keys meet.
RECURSIVE Merkle(_, _)
Merkle(m, d) ==
  CASE m = <<>>                  -> ZERO
    [] Cardinality(DOMAIN m) = 1 -> LET k == CHOOSE k \in DOMAIN m : TRUE IN LeafHash(k, m[k])
    [] OTHER                     -> [i \in Nibbles |-> Merkle(Restrict(m, {k \in DOMAIN m : k[d + 1] = i}), d + 1)]

\* The root is the Merkle root of what was put in, whatever came and went before, whichever nodes
\* kept a hash, and whichever leaves were pushed down and pulled up; the count goes with it.
RootRight == /\ (IF size = 0 THEN ZERO ELSE hash(tree)) = Merkle(map_held, 0)
             /\ size = Cardinality(DOMAIN map_held)

\* Every key gives its own value, with its data unless the map holds none; a prefix gives its keys.
LookupsRight ==
  /\ \A k \in TreeKeys :
       lookup_in(tree, k, 0) = IF k \in DOMAIN map_held /\ ~hash_only THEN map_held[k] ELSE ZERO
  /\ \A k \in TreeKeys : \A n \in 0 .. Depth :
       LET p == SubSeq(k, 1, n) IN keys_with_prefix(tree, p, 0) = {x \in DOMAIN map_held : IsPrefix(p, x)}

\* A comparison names every key that came, went or changed; a key it names for nothing is one whose
\* leaf was pushed down or pulled up, which it names as gone and come.
DiffTells ==
  base # ZERO =>
    LET D == diff(base, tree)
        moved == D.removed \cap D.added
        common == DOMAIN map_held \cap DOMAIN base_held
    IN /\ D.added \ moved = DOMAIN map_held \ DOMAIN base_held
       /\ D.removed \ moved = DOMAIN base_held \ DOMAIN map_held
       /\ moved \subseteq common
       /\ D.modified \subseteq {k \in common : map_held[k] # base_held[k]}
       /\ {k \in common : map_held[k] # base_held[k]} \subseteq D.modified \cup moved

MapOK == RootRight /\ LookupsRight /\ DiffTells
===============================================================================
