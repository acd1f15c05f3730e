------------------------------- MODULE PeerProofs -------------------------------
(* Theorems about what is taken from peers, for every tree, chain and set of peers: the account
   state with its leaf file and checkpoints, the hashes learned by walking headers, and the ledgers
   fetched by the driver. *)
EXTENDS PeerState, PeerLedgers, PeerFetch, FiniteSetTheorems, SequenceTheorems, WellFoundedInduction, TLAPS

\* A set of natural numbers has a least one.
LEMMA LeastNatural ==
  ASSUME NEW S \in SUBSET Nat, S # {}
  PROVE  \E s \in S : \A t \in S : s <= t
<1>1. PICK s \in S : \A t \in S : ~ (<<t, s>> \in OpToRel(<, Nat))
  BY NatLessThanWellFounded, WFMin
<1>2. ASSUME NEW t \in S PROVE s <= t
  <2>1. s \in Nat /\ t \in Nat /\ ~ (t < s)
    BY <1>1 DEF OpToRel
  <2>2. QED
    BY <2>1
<1>3. QED
  BY <1>2

\* The sequence made of a finite set has each of its elements once.
LEMMA SeqOfSet ==
  ASSUME NEW S, IsFiniteSet(S)
  PROVE  /\ SetToSeq(S) \in Seq(S)
         /\ \A i, j \in DOMAIN SetToSeq(S) : SetToSeq(S)[i] = SetToSeq(S)[j] => i = j
         /\ {SetToSeq(S)[i] : i \in DOMAIN SetToSeq(S)} = S
<1> DEFINE n == Cardinality(S)
<1>1. n \in Nat /\ ExistsBijection(1 .. n, S)
  BY FS_CardinalityType
<1>2. PICK g \in [1 .. n -> S] : IsInjective(g)
  BY <1>1 DEF ExistsBijection, Bijection, Injection, IsInjective
<1>3. SetToSeq(S) \in [1 .. n -> S] /\ IsInjective(SetToSeq(S))
  BY <1>2 DEF SetToSeq
<1> DEFINE f == SetToSeq(S)
<1>4. f \in [1 .. n -> S] /\ \A i, j \in 1 .. n : f[i] = f[j] => i = j
  BY <1>3 DEF IsInjective
<1> HIDE DEF f
<1>5. IsFiniteSet(1 .. n) /\ Cardinality(1 .. n) = n
  BY <1>1, FS_Interval
<1>6. \A x \in S : \E i \in 1 .. n : f[i] = x
  <2>1. f \in Injection(1 .. n, S)
    BY <1>4 DEF Injection, IsInjective
  <2>2. f \in Surjection(1 .. n, S)
    BY <2>1, <1>5, FS_Injection
  <2>3. QED
    BY <2>2 DEF Surjection
<1>7. f \in Seq(S)
  BY <1>1, <1>4
<1>8. QED
  BY <1>4, <1>6, <1>7 DEF f

-------------------------------------------------------------------------------
(* The tree, and what a reply settles *)

\* A place of a set no other one of which lies over it within the set.
LEMMA TopPlace ==
  ASSUME NEW C \in SUBSET Places, C # {}
  PROVE  \E c \in C : Over[c] \intersect C = {}
<1> DEFINE depths == {Cardinality(Over[c]) : c \in C}
<1>1. \A c \in C : IsFiniteSet(Over[c]) /\ Cardinality(Over[c]) \in Nat
  BY StateTree, FS_Subset, FS_CardinalityType
<1>2. depths \in SUBSET Nat /\ depths # {}
  BY <1>1
<1>3. PICK d \in depths : \A e \in depths : d <= e
  BY <1>2, LeastNatural
<1>4. PICK c \in C : Cardinality(Over[c]) = d
  BY <1>3
<1>5. ASSUME NEW q \in Over[c] \intersect C PROVE FALSE
  <2>1. Over[q] \subseteq Over[c] /\ q \notin Over[q] /\ q \in Over[c]
    BY StateTree
  <2>2. Cardinality(Over[q]) <= Cardinality(Over[c]) /\ Cardinality(Over[q]) # Cardinality(Over[c])
    BY <1>1, <2>1, FS_Subset
  <2>3. d <= Cardinality(Over[q])
    BY <1>3, <1>5
  <2>4. d \in Nat /\ Cardinality(Over[q]) \in Nat
    BY <1>1, <1>2, <1>3, <1>5
  <2>5. QED
    BY <1>4, <2>2, <2>3, <2>4
<1>6. QED
  BY <1>5

\* None of them lies over another.
Apart(S) == \A p \in S : Over[p] \intersect S = {}

\* A wanted place is settled only with all that is wanted over it.
LEMMA SettledFromTheTop ==
  ASSUME frontier \in SUBSET Places, NEW nodes
  PROVE  /\ Settled(nodes) \subseteq Below(frontier) /\ Below(frontier) \subseteq Places
         /\ \A p \in Settled(nodes) : Over[p] \intersect Below(frontier) \subseteq Settled(nodes)
<1>1. Settled(nodes) \subseteq Below(frontier) /\ Below(frontier) \subseteq Places
  BY DEF Settled, Below
<1>2. ASSUME NEW p \in Settled(nodes), NEW q \in Over[p] \intersect Below(frontier) PROVE q \in Settled(nodes)
  <2>1. p \in Places /\ q \in Places /\ Over[q] \subseteq Over[p]
    BY <1>1, StateTree
  <2>2. \A r \in Over[p] \intersect Below(frontier) : [at |-> r, right |-> TRUE] \in nodes
    BY DEF Settled
  <2>3. [at |-> q, right |-> TRUE] \in nodes
        /\ \A r \in Over[q] \intersect Below(frontier) : [at |-> r, right |-> TRUE] \in nodes
    BY <2>1, <2>2
  <2> DEFINE n == [at |-> q, right |-> TRUE]
  <2>4. n.at = q /\ n.right
    OBVIOUS
  <2> HIDE DEF n
  <2>5. n \in {k \in nodes : /\ k.right
                             /\ k.at \in Below(frontier)
                             /\ \A r \in Over[k.at] \intersect Below(frontier) : [at |-> r, right |-> TRUE] \in nodes}
    BY <2>3, <2>4 DEF n
  <2>6. QED
    BY <2>4, <2>5 DEF Settled
<1>3. QED
  BY <1>1, <1>2

\* What is wanted after a reply lies below what was, and apart.
LEMMA WantedAfter ==
  ASSUME frontier \in SUBSET Places, Apart(frontier), NEW nodes
  PROVE  LET done == Settled(nodes) IN
         /\ FrontierAfter(done) \subseteq Below(frontier) /\ FrontierAfter(done) \intersect done = {}
         /\ Apart(FrontierAfter(done))
<1> DEFINE done == Settled(nodes)  under == Below(frontier)  wanted == FrontierAfter(done)
<1>1. done \subseteq under /\ under \subseteq Places /\ \A p \in done : Over[p] \intersect under \subseteq done
  BY SettledFromTheTop
<1>2. under = {p \in Places : p \in frontier \/ Over[p] \intersect frontier # {}}
  BY DEF Below
<1>3. wanted = (frontier \ done) \union ({c \in Places : \E p \in done : c \in Kids(p)} \ done)
  BY DEF FrontierAfter
<1> HIDE DEF done, under, wanted
<1>4. \A c \in Places, p \in done : c \in Kids(p) => Over[c] = Over[p] \union {p}
  BY <1>1, StateTree DEF Kids
<1>5. \A c \in Places, p \in done : c \in Kids(p) => c \in under
  BY <1>1, <1>2, <1>4
<1>6. wanted \subseteq under /\ wanted \intersect done = {}
  BY <1>2, <1>3, <1>5
<1>7. ASSUME NEW c \in wanted, NEW d \in Over[c] \intersect wanted PROVE FALSE
  <2>1. c \in Places /\ d \in under /\ d \notin done /\ c \notin done
    BY <1>1, <1>6
  <2>2. CASE \E p \in done : c \in Kids(p)
    BY <1>1, <1>4, <2>1, <2>2
  <2>3. CASE c \in frontier
    <3>1. d \notin frontier
      BY <2>3 DEF Apart
    <3>2. PICK q \in frontier : q \in Over[d]
      BY <1>2, <2>1, <3>1
    <3>3. q \in Over[c]
      BY <2>1, <3>2, StateTree
    <3>4. QED
      BY <2>3, <3>2, <3>3 DEF Apart
  <2>4. QED
    BY <1>3, <2>2, <2>3
<1>8. QED
  BY <1>6, <1>7 DEF Apart, done, under, wanted

\* A leaf that was below what is wanted is settled or still below it; one settled is no longer.
LEMMA LeavesAfter ==
  ASSUME frontier \in SUBSET Places, Apart(frontier), NEW nodes
  PROVE  LET done == Settled(nodes) IN
         LeavesBelow(FrontierAfter(done)) = LeavesBelow(frontier) \ done
<1> DEFINE done == Settled(nodes)  under == Below(frontier)  wanted == FrontierAfter(done)
<1>1. done \subseteq under /\ under \subseteq Places /\ \A p \in done : Over[p] \intersect under \subseteq done
  BY SettledFromTheTop
<1>2. under = {p \in Places : p \in frontier \/ Over[p] \intersect frontier # {}}
  BY DEF Below
<1>3. wanted = (frontier \ done) \union ({c \in Places : \E p \in done : c \in Kids(p)} \ done)
  BY DEF FrontierAfter
<1>4. wanted \subseteq under /\ wanted \intersect done = {}
  BY WantedAfter
<1>5. Below(wanted) = {p \in Places : p \in wanted \/ Over[p] \intersect wanted # {}}
  BY DEF Below
<1> HIDE DEF done, under, wanted
<1>6. ASSUME NEW l \in Places, l \in Below(wanted) PROVE l \in under /\ l \notin done
  <2>1. PICK w \in wanted : w = l \/ w \in Over[l]
    BY <1>5, <1>6
  <2>2. w \in under /\ w \in Places /\ w \notin done
    BY <1>1, <1>4
  <2>3. l \in under
    BY <1>2, <2>1, <2>2, StateTree
  <2>4. QED
    BY <1>1, <2>1, <2>2, <2>3
<1>7. ASSUME NEW l \in under, l \notin done PROVE l \in Below(wanted)
  <2> DEFINE C == {c \in under \ done : c = l \/ c \in Over[l]}
  <2>1. C \in SUBSET Places /\ C # {}
    BY <1>1, <1>7
  <2>2. PICK c \in C : Over[c] \intersect C = {}
    BY <2>1, TopPlace
  <2>3. c \in under /\ c \notin done /\ c \in Places /\ l \in Places /\ (c = l \/ c \in Over[l])
    BY <1>1
  <2>4. CASE c \in frontier
    BY <1>3, <1>5, <2>3, <2>4
  <2>5. CASE c \notin frontier
    <3>1. PICK f \in frontier : f \in Over[c]
      BY <1>2, <2>3, <2>5
    <3>2. c # Root
      BY <3>1, StateTree
    <3>3. PICK q \in Over[c] : Over[c] = Over[q] \union {q}
      BY <2>3, <3>2, StateTree
    <3>4. q \in Places /\ q \in under
      BY <1>2, <2>3, <3>1, <3>3, StateTree
    <3>5. q \in Over[l]
      BY <2>3, StateTree
    <3>6. q \in done
      BY <2>2, <3>3, <3>4, <3>5
    <3>7. c \in Kids(q)
      BY <2>3, <3>3 DEF Kids
    <3>8. c \in wanted
      BY <1>3, <2>3, <3>6, <3>7
    <3>9. QED
      BY <1>5, <2>3, <3>8
  <2>6. QED
    BY <2>4, <2>5
<1>8. QED
  BY <1>1, <1>4, <1>5, <1>6, <1>7 DEF LeavesBelow, done, under, wanted

\* The root lies over every other place.
LEMMA RootOverAll == \A p \in Places \ {Root} : Root \in Over[p]
<1> DEFINE C == {p \in Places \ {Root} : Root \notin Over[p]}
<1>1. SUFFICES ASSUME C # {} PROVE FALSE
  OBVIOUS
<1>2. PICK c \in C : Over[c] \intersect C = {}
  BY <1>1, TopPlace
<1>3. PICK q \in Over[c] : Over[c] = Over[q] \union {q}
  BY StateTree
<1>4. q \in Places /\ q # Root
  BY <1>3, StateTree
<1>5. QED
  BY <1>2, <1>3, <1>4

-------------------------------------------------------------------------------
(* Leaf files *)

\* The beginning of a file is a file, and its beginnings are the file's.
LEMMA Beginning ==
  ASSUME NEW f \in Seq(Leaves), NEW n \in 0 .. Len(f)
  PROVE  /\ SubSeq(f, 1, n) \in Seq(Leaves) /\ Len(SubSeq(f, 1, n)) = n
         /\ \A m \in 0 .. n : SubSeq(SubSeq(f, 1, n), 1, m) = SubSeq(f, 1, m)
<1> DEFINE g == SubSeq(f, 1, n)
<1>1. g \in Seq(Leaves) /\ Len(g) = n /\ \A i \in 1 .. n : g[i] = f[i]
  OBVIOUS
<1> HIDE DEF g
<1>2. ASSUME NEW m \in 0 .. n PROVE SubSeq(g, 1, m) = SubSeq(f, 1, m)
  BY <1>1
<1>3. QED
  BY <1>1, <1>2 DEF g

\* Two sequences without an element twice, and without a common one, are one without an element twice.
LEMMA Joined ==
  ASSUME NEW S, NEW f \in Seq(S), NEW g \in Seq(S), IsInjective(f), IsInjective(g),
         \A i \in DOMAIN f, j \in DOMAIN g : f[i] # g[j]
  PROVE  /\ f \o g \in Seq(S) /\ Len(f) <= Len(f \o g)
         /\ IsInjective(f \o g) /\ Range(f \o g) = Range(f) \union Range(g)
         /\ \A m \in 0 .. Len(f) : SubSeq(f \o g, 1, m) = SubSeq(f, 1, m)
<1> DEFINE h == f \o g  k == Len(f)  n == Len(g)
<1>0. /\ \A i, j \in DOMAIN f : f[i] = f[j] => i = j
      /\ \A i, j \in DOMAIN g : g[i] = g[j] => i = j
  BY DEF IsInjective
<1>1. /\ h \in Seq(S) /\ Len(h) = k + n /\ k \in Nat /\ n \in Nat
      /\ \A i \in 1 .. k + n : h[i] = IF i <= k THEN f[i] ELSE g[i - k]
  BY ConcatProperties
<1>2. DOMAIN f = 1 .. k /\ DOMAIN g = 1 .. n /\ DOMAIN h = 1 .. k + n
  BY <1>1
<1>3. \A m \in 0 .. k : SubSeq(h, 1, m) = SubSeq(f, 1, m)
  <2> SUFFICES ASSUME NEW m \in 0 .. k PROVE SubSeq(h, 1, m) = SubSeq(f, 1, m)
    OBVIOUS
  <2>1. CASE m = 0
    BY <1>1, <2>1, SubSeqEmpty
  <2>2. CASE m # 0
    BY <1>1, <2>2, SubSeqOfConcat1
  <2>3. QED
    BY <2>1, <2>2
<1> HIDE DEF h, k, n
<1>4. /\ \A i \in 1 .. k : h[i] = f[i] /\ i \in 1 .. k + n
      /\ \A j \in 1 .. n : h[k + j] = g[j] /\ k + j \in 1 .. k + n
      /\ \A i \in 1 .. k + n : i \in 1 .. k \/ (i - k \in 1 .. n /\ h[i] = g[i - k] /\ k + (i - k) = i)
  <2>1. \A i \in 1 .. k : i <= k /\ i \in 1 .. k + n
    BY <1>1
  <2>2. \A j \in 1 .. n : ~ (k + j <= k) /\ k + j \in 1 .. k + n /\ (k + j) - k = j
    BY <1>1
  <2>3. \A i \in 1 .. k + n : i \in 1 .. k \/ (i - k \in 1 .. n /\ ~ (i <= k) /\ k + (i - k) = i)
    BY <1>1
  <2>4. QED
    BY <1>1, <2>1, <2>2, <2>3
<1>5. ASSUME NEW i \in DOMAIN h, NEW j \in DOMAIN h, h[i] = h[j] PROVE i = j
  <2>1. CASE i \in 1 .. k /\ j \in 1 .. k
    BY <1>0, <1>2, <1>4, <1>5, <2>1
  <2>2. CASE i \notin 1 .. k /\ j \notin 1 .. k
    BY <1>0, <1>2, <1>4, <1>5, <2>2
  <2>3. CASE i \in 1 .. k /\ j \notin 1 .. k
    BY <1>0, <1>2, <1>4, <1>5, <2>3
  <2>4. CASE i \notin 1 .. k /\ j \in 1 .. k
    BY <1>0, <1>2, <1>4, <1>5, <2>4
  <2>5. QED
    BY <2>1, <2>2, <2>3, <2>4
<1>6. \A x : (\E i \in DOMAIN h : h[i] = x) <=> (\E i \in DOMAIN f : f[i] = x) \/ (\E i \in DOMAIN g : g[i] = x)
  <2>1. \A i \in DOMAIN f : i \in DOMAIN h /\ h[i] = f[i]
    BY <1>2, <1>4
  <2>2. \A j \in DOMAIN g : k + j \in DOMAIN h /\ h[k + j] = g[j]
    BY <1>2, <1>4
  <2>3. \A i \in DOMAIN h : (\E j \in DOMAIN f : f[j] = h[i]) \/ (\E j \in DOMAIN g : g[j] = h[i])
    BY <1>2, <1>4
  <2>4. QED
    BY <2>1, <2>2, <2>3
<1>7. k <= Len(h)
  BY <1>1
<1>8. IsInjective(h) /\ Range(h) = Range(f) \union Range(g)
  <2>1. IsInjective(h)
    BY <1>5 DEF IsInjective
  <2>2. Range(h) = Range(f) \union Range(g)
    <3>1. \A x : x \in Range(h) <=> \E i \in DOMAIN h : h[i] = x
      BY DEF Range
    <3>2. \A x : x \in Range(f) <=> \E i \in DOMAIN f : f[i] = x
      BY DEF Range
    <3>3. \A x : x \in Range(g) <=> \E i \in DOMAIN g : g[i] = x
      BY DEF Range
    <3>4. QED
      BY <1>6, <3>1, <3>2, <3>3
  <2>3. QED
    BY <2>1, <2>2
<1>9. QED
  BY <1>1, <1>3, <1>7, <1>8 DEF h, k

\* What a reply settles goes to the end of the file, and the file and what is wanted still have
\* each leaf once between them.
LEMMA LeavesAppended ==
  ASSUME frontier \in SUBSET Places, Apart(frontier), NEW nodes,
         file \in Seq(Leaves), Partition(file, frontier),
         file' = file \o SetToSeq(Settled(nodes) \intersect Leaves)
  PROVE  /\ file' \in Seq(Leaves) /\ Len(file) <= Len(file') /\ Partition(file', FrontierAfter(Settled(nodes)))
         /\ \A m \in 0 .. Len(file) : SubSeq(file', 1, m) = SubSeq(file, 1, m)
<1> DEFINE done == Settled(nodes)  new == SetToSeq(done \intersect Leaves)  wanted == FrontierAfter(done)
<1>1. done \subseteq Below(frontier) /\ LeavesBelow(wanted) = LeavesBelow(frontier) \ done
  BY SettledFromTheTop, LeavesAfter
<1>2. IsFiniteSet(done \intersect Leaves)
  <2>1. done \intersect Leaves \in SUBSET Places
    BY StateTree
  <2>2. QED
    BY <2>1, StateTree, FS_Subset
<1>3. /\ new \in Seq(done \intersect Leaves) /\ IsInjective(new) /\ Range(new) = done \intersect Leaves
  <2>1. /\ new \in Seq(done \intersect Leaves)
        /\ \A i, j \in DOMAIN new : new[i] = new[j] => i = j
        /\ {new[i] : i \in DOMAIN new} = done \intersect Leaves
    BY <1>2, SeqOfSet
  <2>2. QED
    BY <2>1 DEF IsInjective, Range
<1>4. file' = file \o new
  OBVIOUS
<1>5. IsInjective(file) /\ Range(file) = Leaves \ LeavesBelow(frontier)
  BY DEF Partition, IsInjective, Range
<1>6. done \intersect Leaves \subseteq LeavesBelow(frontier)
  BY <1>1 DEF LeavesBelow
<1> HIDE DEF done, new, wanted
<1>7. new \in Seq(Leaves)
  BY <1>3
<1>8. \A i \in DOMAIN file, j \in DOMAIN new : file[i] # new[j]
  BY <1>3, <1>5, <1>6 DEF Range
<1>9. /\ file \o new \in Seq(Leaves) /\ Len(file) <= Len(file \o new)
      /\ IsInjective(file \o new) /\ Range(file \o new) = Range(file) \union Range(new)
      /\ \A m \in 0 .. Len(file) : SubSeq(file \o new, 1, m) = SubSeq(file, 1, m)
  BY <1>3, <1>5, <1>7, <1>8, Joined
<1>10. Range(file \o new) = Leaves \ LeavesBelow(wanted)
  BY <1>1, <1>3, <1>5, <1>6, <1>9
<1>11. Partition(file \o new, wanted)
  BY <1>9, <1>10 DEF Partition, IsInjective, Range
<1>12. QED
  BY <1>4, <1>9, <1>11 DEF done, wanted

-------------------------------------------------------------------------------
(* The download *)

Phases == {"state", "saving", "ending", "closing", "down", "proven", "converting", "ready"}
Fetching == {"state", "saving", "ending", "closing"}

StateTypes ==
  /\ sync_phase \in Phases
  /\ frontier \in SUBSET Places /\ queued \in SUBSET Places
  /\ inflight \in [Places -> StatePeers \union {NoTicket}]
  /\ tickets \in [StatePeers -> SUBSET Places]
  /\ misses \in [Places -> Nat]
  /\ file \in Seq(Leaves) /\ on_disk \in Nat
  /\ checkpoint \in [len : Nat, frontier : SUBSET Places]
  /\ leaf_store \subseteq Leaves

\* A wanted place is queued or in the request its ticket names; no other place is in either.
Books ==
  /\ Apart(frontier)
  /\ queued \subseteq frontier
  /\ \A p \in queued : inflight[p] = NoTicket
  /\ \A p \in Places : inflight[p] # NoTicket => p \in frontier /\ p \in tickets[inflight[p]]
  /\ \A p \in frontier : p \in queued \/ inflight[p] # NoTicket

\* What is synced holds what the checkpoint names; a checkpoint is only written over a synced file.
Filed ==
  /\ checkpoint.len <= on_disk /\ on_disk <= Len(file)
  /\ sync_phase \in {"saving", "closing"} => on_disk = Len(file)
  /\ sync_phase \in Fetching => Partition(file, frontier)
  /\ Apart(checkpoint.frontier) /\ Partition(SubSeq(file, 1, checkpoint.len), checkpoint.frontier)

StateInv == StateTypes /\ Books /\ Filed /\ ("bookmark" \in marks => leaf_store = Leaves)

\* A first run wants the root, and so all.
LEMMA StateStarts == StateInit => StateInv
<1> SUFFICES ASSUME StateInit PROVE StateInv
  OBVIOUS
<1>1. StateTypes
  BY StateTree DEF StateInit, StateTypes, Phases, NoCheckpoint
<1>2. Below({Root}) = Places
  BY StateTree, RootOverAll DEF Below
<1>3. Apart({Root}) /\ Partition(<<>>, {Root})
  BY <1>2, StateTree DEF Apart, Partition, LeavesBelow
<1>4. Books
  BY <1>3, StateTree DEF StateInit, Books
<1>5. SubSeq(<<>>, 1, 0) = <<>> /\ Len(<<>>) = 0
  OBVIOUS
<1>6. Filed
  <2>1. file = <<>> /\ on_disk = 0 /\ checkpoint.len = 0 /\ checkpoint.frontier = {Root} /\ frontier = {Root}
        /\ sync_phase = "state"
    BY DEF StateInit, NoCheckpoint
  <2>2. Len(file) = 0 /\ SubSeq(file, 1, checkpoint.len) = <<>>
    BY <1>5, <2>1
  <2>3. Partition(file, frontier) /\ Partition(SubSeq(file, 1, checkpoint.len), checkpoint.frontier) /\ Apart(checkpoint.frontier)
    BY <1>3, <2>1, <2>2
  <2>4. QED
    BY <2>1, <2>2, <2>3 DEF Filed, Fetching
<1>7. QED
  BY <1>1, <1>4, <1>6 DEF StateInv, StateInit

\* A reply keeps the books: what it settles is wanted no more and what lies under that is queued,
\* whatever else it brings, and whoever else was asked for the same.
LEMMA ReplyBooks ==
  ASSUME StateTypes, Books, NEW a \in StatePeers, NEW nodes, NEW full \in BOOLEAN, Reply(a, nodes, full)
  PROVE  /\ Books'
         /\ frontier' \in SUBSET Places /\ queued' \in SUBSET Places
         /\ inflight' \in [Places -> StatePeers \union {NoTicket}]
         /\ tickets' \in [StatePeers -> SUBSET Places] /\ misses' \in [Places -> Nat]
<1> DEFINE done == Settled(nodes)
           wanted == FrontierAfter(done)
           refused == {n.at : n \in Rejected(nodes)} \intersect frontier
           mine == {p \in tickets[a] \intersect wanted : inflight[p] = a} \ refused
           missed == IF full THEN {} ELSE mine
<1>1. /\ wanted \subseteq Below(frontier) /\ wanted \intersect done = {} /\ Apart(wanted)
      /\ Below(frontier) \subseteq Places
  BY WantedAfter, SettledFromTheTop DEF Books, StateTypes
<1>2. frontier \ done \subseteq wanted
  BY DEF FrontierAfter
<1>3. refused \subseteq frontier \intersect wanted
  BY DEF Rejected
<1>4. /\ frontier' = wanted
      /\ queued' = (queued \intersect wanted) \union (wanted \ frontier) \union refused \union mine
      /\ inflight' = [p \in Places |-> IF p \in mine \union done \union refused THEN NoTicket ELSE inflight[p]]
      /\ tickets' = [tickets EXCEPT ![a] = {}]
      /\ misses' = [p \in Places |-> IF p \in done \union refused THEN 0
                                     ELSE IF p \in missed /\ misses[p] < STUBBORN THEN misses[p] + 1
                                     ELSE misses[p]]
  BY DEF Reply
<1>5. /\ mine \subseteq wanted /\ \A p \in tickets[a] \intersect wanted : inflight[p] = a => p \in mine \union refused
      /\ \A p \in mine : inflight[p] = a
  OBVIOUS
<1> HIDE DEF done, wanted, refused, mine, missed
<1>6. /\ frontier' \in SUBSET Places /\ queued' \in SUBSET Places
      /\ inflight' \in [Places -> StatePeers \union {NoTicket}]
      /\ tickets' \in [StatePeers -> SUBSET Places] /\ misses' \in [Places -> Nat]
  BY <1>1, <1>3, <1>4, <1>5 DEF StateTypes
<1>7. queued' \subseteq frontier'
  BY <1>3, <1>4, <1>5
<1>8. \A p \in queued' : inflight'[p] = NoTicket
  BY <1>1, <1>3, <1>4, <1>5, StateNames DEF Books, StateTypes
<1>9. ASSUME NEW p \in Places, inflight'[p] # NoTicket PROVE p \in frontier' /\ p \in tickets'[inflight'[p]]
  <2>1. inflight'[p] = inflight[p] /\ inflight[p] # NoTicket /\ p \notin mine /\ p \notin done /\ p \notin refused
    BY <1>4, <1>9
  <2>2. p \in frontier /\ p \in tickets[inflight[p]] /\ inflight[p] \in StatePeers
    BY <2>1 DEF Books, StateTypes
  <2>3. p \in wanted
    BY <1>2, <2>1, <2>2
  <2>4. inflight[p] # a
    BY <1>5, <2>1, <2>2, <2>3
  <2>5. QED
    BY <1>4, <2>1, <2>2, <2>3, <2>4 DEF StateTypes
<1>10. ASSUME NEW p \in frontier' PROVE p \in queued' \/ inflight'[p] # NoTicket
  <2>1. p \in wanted /\ p \in Places /\ p \notin done
    BY <1>1, <1>4
  <2>2. CASE p \in frontier
    BY <1>4, <2>1, <2>2 DEF Books
  <2>3. CASE p \notin frontier
    BY <1>4, <2>1, <2>3
  <2>4. QED
    BY <2>2, <2>3
<1>11. Apart(frontier')
  BY <1>1, <1>4
<1>12. QED
  BY <1>6, <1>7, <1>8, <1>9, <1>10, <1>11 DEF Books

\* A reply changes the file and what is wanted together.
LEMMA ReplyStep ==
  ASSUME StateInv, sync_phase = "state", NEW a \in StatePeers, NEW nodes, NEW full \in BOOLEAN, Reply(a, nodes, full),
         UNCHANGED <<sync_phase, on_disk, checkpoint, leaf_store, marks, kills>>
  PROVE  StateInv'
<1>1. /\ file \in Seq(Leaves) /\ frontier \in SUBSET Places /\ Apart(frontier) /\ Partition(file, frontier)
      /\ checkpoint.len \in Nat /\ on_disk \in Nat /\ checkpoint.len <= on_disk /\ on_disk <= Len(file) /\ Len(file) \in Nat
  BY DEF StateInv, StateTypes, Books, Filed, Fetching
<1>2. /\ frontier' = FrontierAfter(Settled(nodes)) /\ file' = file \o SetToSeq(Settled(nodes) \intersect Leaves)
  BY DEF Reply
<1>3. /\ file' \in Seq(Leaves) /\ Len(file) <= Len(file') /\ Partition(file', frontier')
      /\ \A m \in 0 .. Len(file) : SubSeq(file', 1, m) = SubSeq(file, 1, m)
  BY <1>1, <1>2, LeavesAppended
<1>4. /\ Books'
      /\ frontier' \in SUBSET Places /\ queued' \in SUBSET Places
      /\ inflight' \in [Places -> StatePeers \union {NoTicket}]
      /\ tickets' \in [StatePeers -> SUBSET Places] /\ misses' \in [Places -> Nat]
  BY ReplyBooks DEF StateInv
<1>5. StateTypes'
  BY <1>3, <1>4 DEF StateInv, StateTypes
<1>6. Filed'
  <2>1. checkpoint'.len <= on_disk' /\ on_disk' <= Len(file')
    <3>1. Len(file') \in Nat
      BY <1>3
    <3>2. QED
      BY <1>1, <1>3, <3>1
  <2>2. SubSeq(file', 1, checkpoint'.len) = SubSeq(file, 1, checkpoint.len)
    BY <1>1, <1>3
  <2>3. sync_phase' \notin {"saving", "closing"}
    OBVIOUS
  <2>4. Apart(checkpoint'.frontier) /\ Partition(SubSeq(file', 1, checkpoint'.len), checkpoint'.frontier)
    BY <2>2 DEF StateInv, Filed
  <2>5. QED
    BY <1>3, <2>1, <2>3, <2>4 DEF Filed
<1>7. QED
  BY <1>4, <1>5, <1>6 DEF StateInv

\* Asking moves places from the queue to a request, and back when no answer comes.
LEMMA AskStep ==
  ASSUME StateInv, NEW a \in StatePeers, AskState(a) \/ Release(a)
  PROVE  StateInv'
<1>1. /\ UNCHANGED <<sync_phase, frontier, misses, banned, file, on_disk, checkpoint, leaf_store, marks, kills>>
      /\ queued' \in SUBSET Places /\ inflight' \in [Places -> StatePeers \union {NoTicket}]
      /\ tickets' \in [StatePeers -> SUBSET Places] /\ Books'
  <2>1. CASE AskState(a)
    <3> DEFINE from == IF Stubborn # {} THEN Stubborn ELSE queued
               level == {p \in from : \A q \in from : Depth(p) <= Depth(q)}
    <3>0. level \subseteq queued
      BY DEF Stubborn
    <3>1. PICK ids \in SUBSET queued : /\ tickets[a] = {}
                                       /\ queued' = queued \ ids
                                       /\ inflight' = [p \in Places |-> IF p \in ids THEN a ELSE inflight[p]]
                                       /\ tickets' = [tickets EXCEPT ![a] = ids]
      <4>1. PICK ids \in {level} \union {{p} : p \in level} :
              /\ tickets[a] = {}
              /\ queued' = queued \ ids
              /\ inflight' = [p \in Places |-> IF p \in ids THEN a ELSE inflight[p]]
              /\ tickets' = [tickets EXCEPT ![a] = ids]
        BY <2>1 DEF AskState
      <4> HIDE DEF level
      <4>2. ids \in SUBSET queued
        BY <3>0, <4>1
      <4>3. QED
        BY <4>1, <4>2
    <3>2. UNCHANGED <<sync_phase, frontier, misses, banned, file, on_disk, checkpoint, leaf_store, marks, kills>>
      BY <2>1 DEF AskState
    <3>3. QED
      BY <3>1, <3>2, StateNames DEF StateInv, StateTypes, Books, Apart
  <2>2. CASE Release(a)
    <3>1. /\ tickets' = [tickets EXCEPT ![a] = {}]
          /\ inflight' = [p \in Places |-> IF inflight[p] = a THEN NoTicket ELSE inflight[p]]
          /\ queued' = queued \union {p \in tickets[a] \intersect frontier : inflight[p] = a}
          /\ UNCHANGED <<sync_phase, frontier, misses, banned, file, on_disk, checkpoint, leaf_store, marks, kills>>
      BY <2>2 DEF Release
    <3>2. QED
      BY <3>1, StateNames DEF StateInv, StateTypes, Books, Apart
  <2>3. QED
    BY <2>1, <2>2
<1>2. QED
  BY <1>1 DEF StateInv, StateTypes, Filed

\* A checkpoint is the synced file with what is wanted then.
LEMMA SaveStep ==
  ASSUME StateInv, Sync \/ Save
  PROVE  StateInv'
<1>1. /\ file \in Seq(Leaves) /\ frontier \in SUBSET Places /\ Len(file) \in Nat /\ sync_phase \in Fetching
      /\ Partition(file, frontier) /\ Apart(frontier) /\ checkpoint.len \in Nat /\ on_disk \in Nat
      /\ checkpoint.len <= on_disk /\ on_disk <= Len(file)
  BY DEF StateInv, StateTypes, Filed, Books, Fetching, Sync, Save
<1>2. UNCHANGED <<fetch_state, file, leaf_store, marks>> /\ sync_phase' \in Phases
  BY DEF Sync, Save, Phases
<1>3. Books'
  BY <1>2 DEF StateInv, Books, fetch_state, Apart
<1>4. CASE Sync
  <2>1. on_disk' = Len(file) /\ checkpoint' = checkpoint
    BY <1>4 DEF Sync
  <2>2. checkpoint.len <= Len(file)
    BY <1>1
  <2>3. StateTypes' /\ Filed'
    BY <1>1, <1>2, <2>1, <2>2 DEF StateInv, StateTypes, Filed, fetch_state
  <2>4. QED
    BY <1>2, <1>3, <2>3 DEF StateInv
<1>5. CASE Save
  <2>1. /\ checkpoint' = [len |-> Len(file), frontier |-> frontier] /\ on_disk' = on_disk
        /\ sync_phase \in {"saving", "closing"} /\ sync_phase' \notin {"saving", "closing"}
    BY <1>5 DEF Save
  <2>2. on_disk = Len(file) /\ SubSeq(file, 1, Len(file)) = file
    BY <1>1, <2>1, SubSeqFull DEF StateInv, Filed
  <2>3. StateTypes'
    BY <1>1, <1>2, <2>1 DEF StateInv, StateTypes, fetch_state
  <2>4. Filed'
    <3>1. checkpoint'.len = Len(file) /\ checkpoint'.frontier = frontier /\ file' = file /\ frontier' = frontier
      BY <1>2, <2>1 DEF fetch_state
    <3>2. SubSeq(file', 1, checkpoint'.len) = file
      BY <2>2, <3>1
    <3>3. Partition(SubSeq(file', 1, checkpoint'.len), checkpoint'.frontier) /\ Partition(file', frontier')
          /\ Apart(checkpoint'.frontier)
      BY <1>1, <3>1, <3>2
    <3>4. QED
      BY <1>1, <2>1, <2>2, <3>1, <3>3 DEF Filed
  <2>5. QED
    BY <1>2, <1>3, <2>3, <2>4 DEF StateInv
<1>6. QED
  BY <1>4, <1>5

\* A kill leaves what was synced, and the next run cuts the file back to its checkpoint.
LEMMA KillStep ==
  ASSUME StateInv, Kill \/ ResumeFetch
  PROVE  StateInv'
<1>1. /\ file \in Seq(Leaves) /\ Len(file) \in Nat /\ checkpoint.len \in Nat /\ on_disk \in Nat
      /\ checkpoint \in [len : Nat, frontier : SUBSET Places]
      /\ checkpoint.len <= on_disk /\ on_disk <= Len(file)
      /\ Apart(checkpoint.frontier) /\ Partition(SubSeq(file, 1, checkpoint.len), checkpoint.frontier)
  BY DEF StateInv, StateTypes, Filed
<1>2. CASE Kill
  <2>1. PICK n \in on_disk .. Len(file) : file' = SubSeq(file, 1, n)
    BY <1>2 DEF Kill
  <2>2. /\ UNCHANGED <<fetch_state, on_disk, checkpoint, leaf_store, marks>> /\ sync_phase' \in {"down", "proven"}
    BY <1>2 DEF Kill
  <2>3. n \in 0 .. Len(file) /\ checkpoint.len \in 0 .. n /\ on_disk <= n
    BY <1>1
  <2>4. file' \in Seq(Leaves) /\ Len(file') = n /\ SubSeq(file', 1, checkpoint.len) = SubSeq(file, 1, checkpoint.len)
    BY <1>1, <2>1, <2>3, Beginning
  <2>5. StateTypes' /\ Books'
    BY <2>2, <2>4 DEF StateInv, StateTypes, Books, Apart, fetch_state, Phases
  <2>6. Partition(SubSeq(file', 1, checkpoint'.len), checkpoint'.frontier)
    BY <1>1, <2>2, <2>4
  <2>7. Filed'
    BY <1>1, <2>2, <2>3, <2>4, <2>6 DEF Filed, Fetching
  <2>8. QED
    BY <2>2, <2>5, <2>7 DEF StateInv
<1>3. CASE ResumeFetch
  <2>1. /\ file' = SubSeq(file, 1, checkpoint.len) /\ on_disk' = checkpoint.len /\ sync_phase' = "state"
        /\ frontier' = checkpoint.frontier /\ queued' = checkpoint.frontier
        /\ inflight' = [p \in Places |-> NoTicket] /\ tickets' = [a \in StatePeers |-> {}]
        /\ misses' = [p \in Places |-> 0]
        /\ UNCHANGED <<checkpoint, leaf_store, marks>>
    BY <1>3 DEF ResumeFetch, FetchFrom, CutTo
  <2>2. checkpoint.len \in 0 .. Len(file) /\ checkpoint.len \in 0 .. checkpoint.len
    BY <1>1
  <2>3. /\ file' \in Seq(Leaves) /\ Len(file') = checkpoint.len
        /\ SubSeq(file', 1, checkpoint.len) = SubSeq(file, 1, checkpoint.len)
    BY <1>1, <2>1, <2>2, Beginning
  <2>4. checkpoint.frontier \in SUBSET Places
    BY <1>1
  <2>5. StateTypes'
    BY <1>1, <2>1, <2>3, <2>4 DEF StateInv, StateTypes, Phases
  <2>6. Books'
    <3>1. Apart(frontier')
      BY <1>1, <2>1
    <3>2. \A p \in Places : inflight'[p] = NoTicket
      BY <2>1
    <3>3. QED
      BY <2>1, <2>4, <3>1, <3>2 DEF Books
  <2>7. Partition(file', frontier') /\ Partition(SubSeq(file', 1, checkpoint'.len), checkpoint'.frontier)
    BY <1>1, <2>1, <2>3
  <2>8. Filed'
    BY <1>1, <2>1, <2>3, <2>7 DEF Filed
  <2>9. QED
    BY <2>1, <2>5, <2>6, <2>8 DEF StateInv
<1>4. QED
  BY <1>2, <1>3

\* The bookmark is written with the last leaves, and goes with the store.
LEMMA StoreStep ==
  ASSUME StateInv, Complete \/ Interrupt \/ Convert \/ WriteBatch \/ WriteMark \/ MoveAside
  PROVE  StateInv'
<1>1. UNCHANGED <<fetch_state, file, on_disk, checkpoint>>
  BY DEF Complete, Interrupt, Convert, WriteBatch, WriteMark, MoveAside
<1>2. /\ sync_phase' \in Phases \ {"saving", "closing"}
      /\ sync_phase' \in Fetching => sync_phase \in Fetching
  <2>1. sync_phase \in Phases
    BY DEF StateInv, StateTypes
  <2>2. QED
    BY <2>1 DEF Complete, Interrupt, Convert, WriteBatch, WriteMark, MoveAside, Phases, Fetching
<1>3. leaf_store' \subseteq Leaves /\ ("bookmark" \in marks' => leaf_store' = Leaves)
  <2>1. CASE Complete \/ Interrupt \/ Convert
    BY <2>1 DEF StateInv, StateTypes, Complete, Interrupt, Convert
  <2>2. CASE WriteBatch
    BY <2>2 DEF StateInv, StateTypes, WriteBatch, BookmarkIn
  <2>3. CASE WriteMark
    BY <2>3 DEF StateInv, StateTypes, WriteMark
  <2>4. CASE MoveAside
    BY <2>4 DEF MoveAside
  <2>5. QED
    BY <2>1, <2>2, <2>3, <2>4
<1>4. StateTypes' /\ Books'
  BY <1>1, <1>2, <1>3 DEF StateInv, StateTypes, Books, Apart, fetch_state
<1>5. Filed'
  BY <1>1, <1>2 DEF StateInv, Filed, fetch_state
<1>6. QED
  BY <1>3, <1>4, <1>5 DEF StateInv

\* Every step keeps it.
LEMMA StateStays == StateInv /\ [StateNext]_state_vars => StateInv'
<1> SUFFICES ASSUME StateInv, [StateNext]_state_vars PROVE StateInv'
  OBVIOUS
<1>1. CASE \E a \in StatePeers : AskState(a) \/ Release(a)
  BY <1>1, AskStep
<1>2. ASSUME NEW a \in StatePeers, Answers(a) PROVE StateInv'
  <2>1. PICK full \in BOOLEAN, ps \in SUBSET Places, bad \in {{}} \union {{p} : p \in frontier} :
          Reply(a, {[at |-> p, right |-> p \notin bad] : p \in ps \union bad}, full)
    BY <1>2 DEF Answers
  <2>2. sync_phase = "state" /\ UNCHANGED <<sync_phase, on_disk, checkpoint, leaf_store, marks, kills>>
    BY <1>2 DEF Answers
  <2>3. QED
    BY <2>1, <2>2, ReplyStep
<1>3. ASSUME NEW a \in StatePeers, AnswersWell(a) PROVE StateInv'
  <2>1. /\ Reply(a, {[at |-> p, right |-> TRUE] : p \in Below(tickets[a])}, FALSE)
        /\ sync_phase = "state" /\ UNCHANGED <<sync_phase, on_disk, checkpoint, leaf_store, marks, kills>>
    BY <1>3 DEF AnswersWell
  <2>2. QED
    BY <2>1, ReplyStep
<1>4. CASE Sync \/ Save
  BY <1>4, SaveStep
<1>5. CASE Kill \/ ResumeFetch
  BY <1>5, KillStep
<1>6. CASE Complete \/ Interrupt \/ Convert \/ WriteBatch \/ WriteMark \/ MoveAside
  BY <1>6, StoreStep
<1>7. CASE UNCHANGED state_vars
  BY <1>7 DEF StateInv, StateTypes, Books, Filed, Apart, state_vars
<1>8. QED
  BY <1>1, <1>2, <1>3, <1>4, <1>5, <1>6, <1>7 DEF StateNext

\* For every tree, every number of kills and whatever peers answer: a leaf is in the file once or
\* still wanted, here and at the checkpoint, every wanted place is queued or asked for, and a store
\* that can be started from is whole (peer_state.rs, cold_start.rs).
THEOREM DownloadKeepsItsPromises == StateSpec => []DownloadSound
<1>1. StateInv => DownloadSound
  <2> SUFFICES ASSUME StateInv PROVE DownloadSound
    OBVIOUS
  <2>1. EachLeafOnce
    <3>1. checkpoint.len \in Nat /\ on_disk \in Nat /\ Len(file) \in Nat /\ checkpoint.len <= on_disk /\ on_disk <= Len(file)
      BY DEF StateInv, StateTypes, Filed
    <3>2. checkpoint.len <= Len(file)
      BY <3>1
    <3>3. QED
      BY <3>2 DEF StateInv, Filed, Fetching, EachLeafOnce
  <2>2. NothingForgotten
    BY DEF StateInv, StateTypes, Books, Apart, NothingForgotten
  <2>3. StartableIsWhole
    BY DEF StateInv, StartableIsWhole
  <2>4. QED
    BY <2>1, <2>2, <2>3 DEF DownloadSound
<1>2. QED
  BY <1>1, StateStarts, StateStays, PTL DEF StateSpec

-------------------------------------------------------------------------------
(* The hashes learned by walking headers *)

\* Ledgers are numbers.
LEMMA ClosedNumbers == \A s \in Closed : s \in Int /\ s \in Nat /\ 1 <= s /\ s <= LastLedger
BY LedgerConstants DEF Closed

\* The least and the greatest of a set of ledgers.
LEMMA Extremes ==
  ASSUME NEW S \in SUBSET Closed, S # {}
  PROVE  /\ LeastOf(S) \in S /\ \A t \in S : LeastOf(S) <= t
         /\ GreatestOf(S) \in S /\ \A t \in S : t <= GreatestOf(S)
<1>1. S \in SUBSET Nat /\ LastLedger \in Nat /\ \A s \in S : s <= LastLedger
  BY LedgerConstants DEF Closed
<1>2. \E s \in S : \A t \in S : s <= t
  BY <1>1, LeastNatural
<1>3. \E s \in S : \A t \in S : t <= s
  <2> DEFINE D == {LastLedger - s : s \in S}
  <2>1. D \in SUBSET Nat /\ D # {}
    <3>1. \A s \in S : LastLedger - s \in Nat
      BY <1>1
    <3>2. QED
      BY <3>1
  <2>2. PICK d \in D : \A e \in D : d <= e
    BY <2>1, LeastNatural
  <2>3. PICK s \in S : d = LastLedger - s
    OBVIOUS
  <2>4. \A t \in S : LastLedger - s <= LastLedger - t
    BY <2>2, <2>3
  <2>5. \A t \in S : t <= s
    BY <1>1, <2>4
  <2>6. QED
    BY <2>5
<1>4. QED
  BY <1>2, <1>3 DEF LeastOf, GreatestOf

\* The header with the hash of a ledger is that ledger's.
LEMMA HeaderIsLedgers ==
  ASSUME NEW s \in Closed
  PROVE  /\ HeaderOf(ChainHash[s]).seq = s
         /\ s # 1 => HeaderOf(ChainHash[s]).parent = ChainHash[s - 1]
<1>1. (CHOOSE q \in Closed : ChainHash[q] = ChainHash[s]) = s
  BY LedgerConstants DEF Closed
<1>2. QED
  BY <1>1 DEF HeaderOf

\* Of a map's entries only such go as have CHAIN_KEEP above them.
LEMMA TrimmedFar ==
  ASSUME NEW f, NEW g \in Closed, DOMAIN f \subseteq 1 .. g - 1, NEW q \in DOMAIN f, q \notin DOMAIN Trimmed(f)
  PROVE  g > q + CHAIN_KEEP
<1> DEFINE S == {t \in DOMAIN f : t >= q}
<1>1. ~ (Cardinality(S) <= CHAIN_KEEP)
  BY DEF Trimmed
<1>2. g \in Nat /\ q \in Nat /\ q <= g - 1 /\ CHAIN_KEEP \in Nat
  BY LedgerConstants DEF Closed
<1>3. S \in SUBSET (q .. g - 1)
  BY <1>2
<1>4. IsFiniteSet(q .. g - 1) /\ Cardinality(q .. g - 1) = (g - 1) - q + 1
  BY <1>2, FS_Interval
<1>5. Cardinality(S) <= Cardinality(q .. g - 1) /\ Cardinality(S) \in Nat
  BY <1>3, <1>4, FS_Subset, FS_CardinalityType
<1> DEFINE n == Cardinality(S)
<1>6. n \in Nat /\ ~ (n <= CHAIN_KEEP) /\ n <= (g - 1) - q + 1
  BY <1>1, <1>4, <1>5
<1> HIDE DEF n
<1>7. QED
  BY <1>2, <1>6

\* Every ledger's hash and every step of a walk are right, ledgers are asked for one after the
\* other, a walk crosses no ledger whose hash is kept, and a ledger's header that was read is still
\* kept or far below the newest quorum.
LedgersInv ==
  /\ quorums \subseteq Closed
  /\ DOMAIN known \subseteq {q \in Closed : quorums # {} /\ q < GreatestOf(quorums)}
  /\ \E n \in 0 .. LastLedger : /\ DOMAIN hashes_given = 1 .. n
                                /\ walk # NoWalk => walk.to \in {n, n + 1}
  /\ walk # NoWalk =>
       /\ walk.to \in Closed /\ walk.at \in Closed /\ walk.to < walk.at
       /\ quorums # {} /\ walk.at <= GreatestOf(quorums)
       /\ walk.hash = ChainHash[walk.at]
       /\ \A t \in DOMAIN known : ~ (walk.to <= t /\ t < walk.at)
  /\ \A s \in DOMAIN hashes_given : hashes_given[s] = ChainHash[s]
  /\ \A s \in DOMAIN known : known[s] = ChainHash[s]
  /\ headers_read \in [Closed -> 0 .. 2]
  /\ \A s \in Closed : headers_read[s] # 0 =>
       s - 1 \in DOMAIN known \/ (quorums # {} /\ GreatestOf(quorums) > (s - 1) + CHAIN_KEEP)

\* Before anything was learned it holds.
LEMMA LedgersStart == PeerLedgersInit => LedgersInv
<1> SUFFICES ASSUME PeerLedgersInit PROVE LedgersInv
  OBVIOUS
<1>1. DOMAIN known = {} /\ DOMAIN hashes_given = {} /\ walk = NoWalk /\ quorums = {} /\ headers_read = [s \in Closed |-> 0]
  BY DEF PeerLedgersInit
<1>2. 0 \in 0 .. LastLedger /\ 1 .. 0 = {}
  BY LedgerConstants
<1>3. QED
  BY <1>1, <1>2 DEF LedgersInv

\* A quorum only raises the newest.
LEMMA QuorumStep ==
  ASSUME LedgersInv, NEW s \in Closed, QuorumAt(s)
  PROVE  LedgersInv'
<1> DEFINE Q == quorums \union {s}  g == GreatestOf(Q)
<1>1. /\ quorums' = {q \in Q : q > g - TallyKeep} /\ UNCHANGED <<known, walk, hashes_given, headers_read>>
  BY DEF QuorumAt
<1>2. quorums \subseteq Closed /\ Q \in SUBSET Closed /\ Q # {}
  BY DEF LedgersInv
<1>3. g \in Q /\ g \in Closed /\ \A t \in Q : t <= g
  BY <1>2, Extremes
<1> HIDE DEF Q, g
<1>4. g \in quorums' /\ quorums' \in SUBSET Closed /\ \A t \in quorums' : t <= g
  <2>1. g \in Int /\ TallyKeep \in Nat \ {0}
    BY <1>3, LedgerConstants DEF Closed
  <2>2. g > g - TallyKeep
    BY <2>1
  <2>3. QED
    BY <1>1, <1>2, <1>3, <2>2
<1>5. GreatestOf(quorums') = g
  <2>1. GreatestOf(quorums') \in quorums' /\ g <= GreatestOf(quorums')
    BY <1>4, Extremes
  <2>2. GreatestOf(quorums') <= g /\ GreatestOf(quorums') \in Int /\ g \in Int
    BY <1>3, <1>4, <2>1, ClosedNumbers
  <2>3. QED
    BY <2>1, <2>2
<1>6. quorums # {} => GreatestOf(quorums) <= g /\ GreatestOf(quorums) \in Closed
  BY <1>2, <1>3, Extremes DEF Q
<1>7. quorums' # {} /\ GreatestOf(quorums') = g /\ g \in Int
  BY <1>3, <1>4, <1>5 DEF Closed
<1>8. DOMAIN known' \subseteq {q \in Closed : quorums' # {} /\ q < GreatestOf(quorums')}
  <2>1. ASSUME NEW q \in DOMAIN known PROVE q \in Closed /\ q < g
    <3>1. q \in Closed /\ quorums # {} /\ q < GreatestOf(quorums)
      BY DEF LedgersInv
    <3>2. q \in Int /\ GreatestOf(quorums) \in Int
      BY <1>6, <3>1 DEF Closed
    <3>3. QED
      BY <1>6, <1>7, <3>1, <3>2
  <2>2. QED
    BY <1>1, <1>7, <2>1
<1>9. walk' # NoWalk => quorums' # {} /\ walk'.at <= GreatestOf(quorums')
  <2> SUFFICES ASSUME walk # NoWalk PROVE walk.at <= g
    BY <1>1, <1>7
  <2>1. walk.at \in Closed /\ quorums # {} /\ walk.at <= GreatestOf(quorums)
    BY DEF LedgersInv
  <2>2. walk.at \in Int /\ GreatestOf(quorums) \in Int
    BY <1>6, <2>1 DEF Closed
  <2>3. QED
    BY <1>6, <1>7, <2>1, <2>2
<1>10. ASSUME NEW t \in Closed, headers_read'[t] # 0
       PROVE t - 1 \in DOMAIN known' \/ (quorums' # {} /\ GreatestOf(quorums') > (t - 1) + CHAIN_KEEP)
  <2>1. t - 1 \in DOMAIN known \/ (quorums # {} /\ GreatestOf(quorums) > (t - 1) + CHAIN_KEEP)
    BY <1>1, <1>10 DEF LedgersInv
  <2>2. CASE t - 1 \in DOMAIN known
    BY <1>1, <2>2
  <2>3. CASE quorums # {} /\ GreatestOf(quorums) > (t - 1) + CHAIN_KEEP
    <3>1. t \in Int /\ GreatestOf(quorums) \in Int /\ CHAIN_KEEP \in Int
      BY <1>6, <2>3, LedgerConstants DEF Closed
    <3>2. g > (t - 1) + CHAIN_KEEP
      BY <1>6, <1>7, <2>3, <3>1
    <3>3. QED
      BY <1>7, <3>2
  <2>4. QED
    BY <2>1, <2>2, <2>3
<1>11. /\ \E n \in 0 .. LastLedger : DOMAIN hashes_given' = 1 .. n /\ (walk' # NoWalk => walk'.to \in {n, n + 1})
       /\ walk' # NoWalk => /\ walk'.to \in Closed /\ walk'.at \in Closed /\ walk'.to < walk'.at
                            /\ walk'.hash = ChainHash[walk'.at]
                            /\ \A t \in DOMAIN known' : ~ (walk'.to <= t /\ t < walk'.at)
       /\ \A t \in DOMAIN hashes_given' : hashes_given'[t] = ChainHash[t]
       /\ \A t \in DOMAIN known' : known'[t] = ChainHash[t]
       /\ headers_read' \in [Closed -> 0 .. 2]
  BY <1>1 DEF LedgersInv
<1>12. quorums' \subseteq Closed
  BY <1>4
<1>13. QED
  BY <1>8, <1>9, <1>10, <1>11, <1>12 DEF LedgersInv

\* The ledger asked for next is the one after those given.
LEMMA NextIsNext ==
  ASSUME LedgersInv
  PROVE  \E n \in 0 .. LastLedger : DOMAIN hashes_given = 1 .. n /\ NextAsked = n + 1
<1>1. PICK n \in 0 .. LastLedger : DOMAIN hashes_given = 1 .. n
  BY DEF LedgersInv
<1>2. CASE n = 0
  BY <1>1, <1>2 DEF NextAsked
<1>3. CASE n # 0
  <2>1. n \in 1 .. n /\ 1 .. n \in SUBSET Closed /\ 1 .. n # {} /\ n \in Int
    BY <1>3, LedgerConstants DEF Closed
  <2>2. GreatestOf(1 .. n) \in 1 .. n /\ n <= GreatestOf(1 .. n)
    BY <2>1, Extremes
  <2>3. GreatestOf(1 .. n) = n
    BY <2>1, <2>2
  <2>4. QED
    BY <1>1, <2>1, <2>3 DEF NextAsked
<1>4. QED
  BY <1>2, <1>3

\* A hash given is the quorum's or one kept; a walk starts at the nearest of them.
LEMMA AskHashStep ==
  ASSUME LedgersInv, NEW s, s = NextAsked \/ (NextAsked > 1 /\ s = NextAsked - 1), AskHash(s)
  PROVE  LedgersInv'
<1> DEFINE above == {q \in quorums : q >= s}
           cached == {q \in DOMAIN known : q >= s}
           from == LeastOf(above \union cached)
           g == GreatestOf(quorums)
<1>1. PICK n \in 0 .. LastLedger : DOMAIN hashes_given = 1 .. n /\ NextAsked = n + 1
  BY NextIsNext
<1>2. n \in Nat /\ s \in Nat /\ s >= 1 /\ s \in {n, n + 1}
  BY <1>1, LedgerConstants
<1>3. /\ walk = NoWalk /\ above # {} /\ UNCHANGED <<quorums, known, headers_read>>
      /\ \/ s \in above /\ hashes_given' = Mapped(hashes_given, s, ChainHash[s]) /\ walk' = walk
         \/ s \in cached \ above /\ hashes_given' = Mapped(hashes_given, s, known[s]) /\ walk' = walk
         \/ /\ s \notin above \union cached
            /\ walk' = [to |-> s, at |-> from, hash |-> IF from \in above THEN ChainHash[from] ELSE known[from]]
            /\ hashes_given' = hashes_given
  BY DEF AskHash, Give
<1>4. /\ quorums \subseteq Closed /\ quorums # {} /\ g \in quorums /\ \A q \in quorums : q <= g
      /\ DOMAIN known \subseteq {q \in Closed : q < g}
  BY <1>3, Extremes DEF LedgersInv
<1>5. above \union cached \in SUBSET Closed
  BY <1>4
<1>6. s \in Closed
  <2>1. PICK q \in quorums : q >= s
    BY <1>3
  <2>2. q \in Closed
    BY <1>4
  <2>3. QED
    BY <1>2, <2>1, <2>2, LedgerConstants DEF Closed
<1>7. from \in above \union cached /\ \A t \in above \union cached : from <= t
  BY <1>3, <1>5, Extremes
<1>8. \A t \in above \union cached : t >= s /\ t <= g
  BY <1>4, ClosedNumbers
<1>9. CASE hashes_given' = Mapped(hashes_given, s, ChainHash[s]) /\ walk' = walk
  <2>1. DOMAIN hashes_given' = 1 .. n \union {s} /\ \A t \in DOMAIN hashes_given' : hashes_given'[t] = ChainHash[t]
    BY <1>1, <1>9 DEF LedgersInv, Mapped
  <2>2. \E m \in 0 .. LastLedger : 1 .. n \union {s} = 1 .. m
    <3>1. CASE s = n
      <4>1. 1 .. n \union {s} = 1 .. n
        BY <1>2, <3>1
      <4>2. QED
        BY <4>1
    <3>2. CASE s = n + 1
      <4>1. 1 .. n \union {s} = 1 .. n + 1 /\ n + 1 \in 0 .. LastLedger
        BY <1>2, <1>6, <3>2, ClosedNumbers
      <4>2. QED
        BY <4>1
    <3>3. QED
      BY <1>2, <3>1, <3>2
  <2>3. QED
    BY <1>3, <1>9, <2>1, <2>2 DEF LedgersInv
<1>10. CASE /\ s \notin above \union cached
            /\ walk' = [to |-> s, at |-> from, hash |-> IF from \in above THEN ChainHash[from] ELSE known[from]]
            /\ hashes_given' = hashes_given
  <2>1. walk'.to = s /\ walk'.at = from /\ walk'.hash = IF from \in above THEN ChainHash[from] ELSE known[from]
    BY <1>10
  <2>2. walk'.hash = ChainHash[from]
    BY <1>7, <2>1 DEF LedgersInv
  <2>3. from \in Closed /\ s < from /\ from <= g
    <3>1. from \in Closed /\ from >= s /\ from <= g /\ from # s
      BY <1>5, <1>7, <1>8, <1>10
    <3>2. QED
      BY <1>2, <3>1, ClosedNumbers
  <2>4. \A t \in DOMAIN known : ~ (s <= t /\ t < from)
    <3>1. ASSUME NEW t \in DOMAIN known, s <= t, t < from PROVE FALSE
      <4>1. t \in Closed /\ t \in Int /\ from \in Int
        BY <1>4, <2>3, ClosedNumbers
      <4>2. t \in cached
        BY <1>2, <3>1, <4>1
      <4>3. from <= t
        BY <1>7, <4>2
      <4>4. QED
        BY <3>1, <4>1, <4>3
    <3>2. QED
      BY <3>1
  <2> HIDE DEF above, cached, from, g
  <2>5. /\ walk'.to \in Closed /\ walk'.at \in Closed /\ walk'.to < walk'.at
        /\ walk'.at <= g /\ walk'.hash = ChainHash[walk'.at] /\ walk'.to \in {n, n + 1}
        /\ \A t \in DOMAIN known' : ~ (walk'.to <= t /\ t < walk'.at)
    BY <1>2, <1>3, <1>6, <2>1, <2>2, <2>3, <2>4
  <2>6. \E m \in 0 .. LastLedger : DOMAIN hashes_given' = 1 .. m /\ walk'.to \in {m, m + 1}
    BY <1>1, <1>10, <2>5
  <2>7. QED
    BY <1>3, <1>4, <1>10, <2>5, <2>6 DEF LedgersInv, g
<1>11. CASE s \in cached \ above /\ hashes_given' = Mapped(hashes_given, s, known[s]) /\ walk' = walk
  <2>1. known[s] = ChainHash[s]
    BY <1>11 DEF LedgersInv
  <2>2. QED
    BY <1>9, <1>11, <2>1
<1>12. QED
  BY <1>3, <1>9, <1>10, <1>11

\* A header brings the walk one ledger down, and its hash is kept until CHAIN_KEEP newer ones are.
LEMMA HeaderStep ==
  ASSUME LedgersInv, HeaderComes
  PROVE  /\ LedgersInv'
         /\ \A s \in Closed : headers_read'[s] > 1 /\ headers_read'[s] # headers_read[s]
              => GreatestOf(quorums) - walk.to > CHAIN_KEEP
<1> DEFINE s == walk.at  g == GreatestOf(quorums)  new == Learned(s, walk.hash)
<1>1. /\ walk # NoWalk /\ walk.to \in Closed /\ s \in Closed /\ walk.to < s
      /\ quorums # {} /\ s <= g /\ walk.hash = ChainHash[s] /\ quorums \subseteq Closed
      /\ \A t \in DOMAIN known : ~ (walk.to <= t /\ t < s)
      /\ DOMAIN known \subseteq {q \in Closed : q < g}
      /\ headers_read \in [Closed -> 0 .. 2]
  BY DEF LedgersInv, HeaderComes
<1>2. g \in Closed /\ g \in Nat /\ s \in Nat /\ walk.to \in Nat /\ 1 <= walk.to /\ CHAIN_KEEP \in Nat
      /\ s - 1 \in Closed /\ walk.to <= s - 1 /\ s - 1 < g
  <2>1. g \in Closed
    BY <1>1, Extremes
  <2>2. g \in Nat /\ s \in Nat /\ walk.to \in Nat /\ 1 <= walk.to /\ s <= LastLedger
    BY <1>1, <2>1, ClosedNumbers
  <2>3. s - 1 \in Nat /\ walk.to <= s - 1 /\ s - 1 < g /\ 1 <= s - 1 /\ s - 1 <= LastLedger
    BY <1>1, <2>2, LedgerConstants
  <2>4. QED
    BY <2>1, <2>2, <2>3, LedgerConstants DEF Closed
<1>3. HeaderOf(walk.hash).parent = ChainHash[s - 1]
  <2>1. s # 1
    BY <1>2
  <2>2. QED
    BY <1>1, <2>1, HeaderIsLedgers
<1>4. /\ headers_read' = [headers_read EXCEPT ![s] = IF headers_read[s] = 2 THEN 2 ELSE headers_read[s] + 1]
      /\ \/ /\ s - 1 = walk.to /\ known' = Trimmed(new) /\ walk' = NoWalk
            /\ hashes_given' = Mapped(hashes_given, walk.to, ChainHash[s - 1])
         \/ /\ s - 1 > walk.to /\ known' = new
            /\ walk' = [to |-> walk.to, at |-> s - 1, hash |-> ChainHash[s - 1]]
            /\ hashes_given' = hashes_given
      /\ quorums' = quorums
  BY <1>3 DEF HeaderComes, Give
<1>5. /\ DOMAIN new = DOMAIN known \union {s - 1} /\ DOMAIN new \subseteq {q \in Closed : q < g}
      /\ \A t \in DOMAIN new : new[t] = ChainHash[t]
  BY <1>1, <1>2, <1>3 DEF Learned, Mapped, LedgersInv
<1>6. DOMAIN known' \subseteq DOMAIN new /\ \A t \in DOMAIN known' : known'[t] = new[t]
  BY <1>4 DEF Trimmed
<1>7. DOMAIN new \subseteq 1 .. g - 1
  BY <1>2, <1>5, ClosedNumbers
<1>8. \A t \in DOMAIN new : t \in DOMAIN known' \/ g > t + CHAIN_KEEP
  <2>1. CASE known' = new
    BY <2>1
  <2>2. CASE known' = Trimmed(new)
    <3> HIDE DEF new
    <3>1. QED
      BY <1>2, <1>7, <2>2, TrimmedFar
  <2>3. QED
    BY <1>4, <2>1, <2>2
<1> HIDE DEF s, g, new
<1>9. headers_read' \in [Closed -> 0 .. 2] /\ \A t \in Closed : t # s => headers_read'[t] = headers_read[t]
  <2>1. headers_read[s] \in 0 .. 2
    BY <1>1
  <2>2. (IF headers_read[s] = 2 THEN 2 ELSE headers_read[s] + 1) \in 0 .. 2
    BY <2>1
  <2>3. QED
    BY <1>1, <1>4, <2>2
<1>10. ASSUME NEW t \in Closed, headers_read'[t] # 0
       PROVE t - 1 \in DOMAIN known' \/ (quorums' # {} /\ GreatestOf(quorums') > (t - 1) + CHAIN_KEEP)
  <2>1. CASE t = s
    BY <1>1, <1>4, <1>5, <1>8, <2>1 DEF g
  <2>2. CASE t # s
    <3>1. t - 1 \in DOMAIN known \/ (quorums # {} /\ g > (t - 1) + CHAIN_KEEP)
      BY <1>9, <1>10, <2>2 DEF LedgersInv, g
    <3>2. QED
      BY <1>1, <1>4, <1>5, <1>8, <3>1 DEF g
  <2>3. QED
    BY <2>1, <2>2
<1>11. /\ DOMAIN known' \subseteq {q \in Closed : quorums' # {} /\ q < GreatestOf(quorums')}
       /\ \A t \in DOMAIN known' : known'[t] = ChainHash[t]
  BY <1>1, <1>4, <1>5, <1>6 DEF g
<1>12. PICK n \in 0 .. LastLedger : DOMAIN hashes_given = 1 .. n /\ walk.to \in {n, n + 1}
  BY <1>1 DEF LedgersInv
<1>13. LedgersInv'
  <2>1. CASE s - 1 = walk.to /\ walk' = NoWalk /\ hashes_given' = Mapped(hashes_given, walk.to, ChainHash[s - 1])
    <3>1. /\ DOMAIN hashes_given' = 1 .. n \union {walk.to}
          /\ \A t \in DOMAIN hashes_given' : hashes_given'[t] = ChainHash[t]
      BY <1>12, <2>1 DEF LedgersInv, Mapped
    <3>2. \E m \in 0 .. LastLedger : DOMAIN hashes_given' = 1 .. m
      <4>1. CASE walk.to = n
        <5>1. 1 .. n \union {walk.to} = 1 .. n
          BY <1>2, <4>1
        <5>2. QED
          BY <3>1, <5>1
      <4>2. CASE walk.to = n + 1
        <5>1. 1 .. n \union {walk.to} = 1 .. n + 1 /\ n + 1 \in 0 .. LastLedger
          BY <1>1, <1>12, <4>2, ClosedNumbers
        <5>2. QED
          BY <3>1, <5>1
      <4>3. QED
        BY <1>12, <4>1, <4>2
    <3>3. QED
      BY <1>1, <1>4, <1>9, <1>10, <1>11, <2>1, <3>1, <3>2 DEF LedgersInv
  <2>2. CASE /\ s - 1 > walk.to /\ known' = new /\ hashes_given' = hashes_given
             /\ walk' = [to |-> walk.to, at |-> s - 1, hash |-> ChainHash[s - 1]]
    <3>1. walk'.to = walk.to /\ walk'.at = s - 1 /\ walk'.hash = ChainHash[s - 1]
      BY <2>2
    <3>2. /\ walk'.to \in Closed /\ walk'.at \in Closed /\ walk'.to < walk'.at
          /\ quorums' # {} /\ walk'.at <= GreatestOf(quorums') /\ walk'.hash = ChainHash[walk'.at]
      <4>1. walk.to < s - 1 /\ s - 1 <= g
        BY <1>2, <2>2
      <4>2. QED
        BY <1>1, <1>2, <1>4, <3>1, <4>1 DEF g
    <3>3. \A t \in DOMAIN known' : ~ (walk'.to <= t /\ t < walk'.at)
      <4> SUFFICES ASSUME NEW t \in DOMAIN new PROVE ~ (walk.to <= t /\ t < s - 1)
        BY <2>2, <3>1
      <4>1. t \in Int
        BY <1>5, ClosedNumbers
      <4>2. CASE t \in DOMAIN known
        <5>1. ~ (walk.to <= t /\ t < s)
          BY <1>1, <4>2
        <5>2. QED
          BY <1>2, <4>1, <5>1
      <4>3. CASE t = s - 1
        BY <1>2, <4>3
      <4>4. QED
        BY <1>5, <4>2, <4>3
    <3>4. \E m \in 0 .. LastLedger : DOMAIN hashes_given' = 1 .. m /\ (walk' # NoWalk => walk'.to \in {m, m + 1})
      BY <1>12, <2>2, <3>1
    <3>5. \A t \in DOMAIN hashes_given' : hashes_given'[t] = ChainHash[t]
      BY <2>2 DEF LedgersInv
    <3>6. QED
      BY <1>1, <1>4, <1>9, <1>10, <1>11, <3>2, <3>3, <3>4, <3>5 DEF LedgersInv
  <2>3. QED
    BY <1>4, <2>1, <2>2
<1>14. ASSUME NEW t \in Closed, headers_read'[t] > 1, headers_read'[t] # headers_read[t]
       PROVE g - walk.to > CHAIN_KEEP
  <2>1. t = s /\ headers_read[s] \in 0 .. 2
    BY <1>1, <1>9, <1>14
  <2>2. headers_read[s] # 0
    BY <1>1, <1>4, <1>14, <2>1
  <2>3. s - 1 \notin DOMAIN known
    BY <1>1, <1>2
  <2>4. g > (s - 1) + CHAIN_KEEP
    BY <1>1, <2>2, <2>3 DEF LedgersInv, g
  <2>5. QED
    BY <1>2, <2>4
<1>15. QED
  BY <1>13, <1>14 DEF g

\* A walk that fails forgets nothing.
LEMMA FailStep ==
  ASSUME LedgersInv, HeaderFails
  PROVE  LedgersInv'
<1>1. walk' = NoWalk /\ UNCHANGED <<quorums, known, hashes_given, headers_read>>
  BY DEF HeaderFails
<1>2. QED
  BY <1>1 DEF LedgersInv

\* Every step keeps it.
LEMMA LedgersStay == LedgersInv /\ [PeerLedgersNext]_ledger_vars => LedgersInv'
<1> SUFFICES ASSUME LedgersInv, [PeerLedgersNext]_ledger_vars PROVE LedgersInv'
  OBVIOUS
<1>1. CASE AskNext
  BY <1>1, AskHashStep DEF AskNext
<1>2. CASE NextAsked > 1 /\ AskHash(NextAsked - 1)
  BY <1>2, AskHashStep
<1>3. CASE HeaderComes
  BY <1>3, HeaderStep
<1>4. CASE HeaderFails
  BY <1>4, FailStep
<1>5. ASSUME NEW s \in Closed, QuorumAt(s) PROVE LedgersInv'
  BY <1>5, QuorumStep
<1>6. CASE UNCHANGED ledger_vars
  BY <1>6 DEF LedgersInv, ledger_vars
<1>7. QED
  BY <1>1, <1>2, <1>3, <1>4, <1>5, <1>6 DEF PeerLedgersNext

\* Only a header that comes is counted, and one counted again lies far below the newest quorum.
LEMMA ReadAgainFar ==
  ASSUME LedgersInv, [PeerLedgersNext]_ledger_vars, NEW s \in Closed, headers_read'[s] > 1, headers_read'[s] # headers_read[s]
  PROVE  GreatestOf(quorums) - walk.to > CHAIN_KEEP
<1>1. HeaderComes \/ headers_read' = headers_read
  BY DEF PeerLedgersNext, AskNext, AskHash, HeaderFails, QuorumAt, ledger_vars
<1>2. QED
  BY <1>1, HeaderStep

\* For every chain, tally and number of kept hashes, however walks fail and quorums come: every hash
\* a ledger is fetched by is the network's, and a header is read again only when the walk it belongs
\* to is longer than the hashes kept (peer_ledgers.rs Chain::hash_for).
THEOREM WalksKeepRight == PeerLedgersSpec => WalksRight
<1>1. LedgersInv => HashesAreChain
  BY DEF LedgersInv, HashesAreChain
<1>2. LedgersInv /\ [PeerLedgersNext]_ledger_vars =>
        [\A s \in Closed : headers_read'[s] > 1 /\ headers_read'[s] # headers_read[s]
           => GreatestOf(quorums) - walk.to > CHAIN_KEEP]_ledger_vars
  BY ReadAgainFar
<1>3. QED
  BY <1>1, <1>2, LedgersStart, LedgersStay, PTL DEF PeerLedgersSpec, WalksRight, ReadsAgainOnlyWhenFar

-------------------------------------------------------------------------------
(* The driver's loops *)

\* What a fetch's jobs are: in the queue, in progress.
QueuedIn(q) == {q[k] : k \in DOMAIN q}
RunningIn(act) == {act[k].job : k \in DOMAIN act}

Queue(q) ==
  /\ q \in Seq(FetchJobs)
  /\ \A k, l \in DOMAIN q : q[k] = q[l] => k = l

Running(act) ==
  /\ \E S : act \in Seq(S)
  /\ \A k \in DOMAIN act : act[k].job \in FetchJobs /\ Proven(act[k].job, act[k].fetch)
  /\ \A k, l \in DOMAIN act : act[k].job = act[l].job => k = l

\* One turn of each of the four loops, and what it keeps, after i turns from x's first state.
DriverStep(x, v, i) ==
  IF x.loop = "offer" THEN OfferOne(x.d, v, i)
  ELSE IF x.loop = "start" THEN StartOne(x.now, x.queue, v, i)
  ELSE IF x.loop = "finish" THEN FinishOne(x.now, x.active, v, i)
  ELSE AskOne(x.now, x.cs, x.full, v, i)

OfferInv(x, v, i) ==
  /\ Running(v.active) /\ RunningIn(v.active) = RunningIn(x.active) /\ Len(v.active) = Len(x.active)
  /\ DOMAIN v.pacer = DOMAIN x.pacer /\ \A p \in DOMAIN x.pacer : v.pacer[p].last = x.pacer[p].last

StartInv(x, v, i) ==
  /\ Queue(v.queue) /\ Running(v.active)
  /\ QueuedIn(v.queue) \intersect RunningIn(v.active) = {}
  /\ QueuedIn(v.queue) \union RunningIn(v.active) = {x.queue[k] : k \in 1 .. i} \union RunningIn(x.active)

FinishInv(x, v, i) ==
  /\ Running(v.active) /\ RunningIn(v.active) \subseteq {x.active[k].job : k \in 1 .. i}
  /\ DOMAIN v.told = FetchJobs
  /\ \A j \in FetchJobs :
       IF j \in {x.active[k].job : k \in 1 .. i} /\ j \notin RunningIn(v.active)
       THEN v.told[j] \in {"late", "wrong_seq", "ok"} ELSE v.told[j] = x.told[j]

AskInv(x, v, i) ==
  /\ Running(v.active) /\ RunningIn(v.active) = RunningIn(x.active) /\ Len(v.active) = Len(x.active)
  /\ DOMAIN v.pacer = DOMAIN x.pacer
  /\ \A p \in DOMAIN x.pacer :
       \/ v.pacer[p].last = x.pacer[p].last
       \/ v.pacer[p].last = x.now /\ (x.pacer[p].last = 0 \/ x.now - x.pacer[p].last >= PEER_GAP)
  /\ \A r \in v.sent :
       /\ r.to \in DOMAIN x.pacer /\ r.conn = x.cs[r.to] /\ r.at = x.now /\ v.pacer[r.to].last = x.now
       /\ x.pacer[r.to].last = 0 \/ x.now - x.pacer[r.to].last >= PEER_GAP
  /\ \A r, s \in v.sent : r # s /\ r.to = s.to => PEER_GAP = 0

DriverInv(x, v, i) ==
  IF x.loop = "offer" THEN OfferInv(x, v, i)
  ELSE IF x.loop = "start" THEN StartInv(x, v, i)
  ELSE IF x.loop = "finish" THEN FinishInv(x, v, i)
  ELSE AskInv(x, v, i)

\* g gives the value after each turn.
Turns(g, x, base, n) ==
  g = [i \in 0 .. n |-> IF i = 0 THEN base ELSE DriverStep(x, g[i - 1], i)]

\* The values after the turns exist.
LEMMA TurnsExist ==
  ASSUME NEW x, NEW base, NEW n \in Nat
  PROVE  \E g : Turns(g, x, base, n)
<1> DEFINE Upto(m, g) == g = [i \in 0 .. m |-> IF i = 0 THEN base ELSE DriverStep(x, g[i - 1], i)]
           Bad == {m \in Nat : ~ \E g : Upto(m, g)}
<1>1. Bad \in SUBSET Nat
  OBVIOUS
<1>2. SUFFICES ASSUME Bad # {} PROVE FALSE
  BY DEF Turns
<1>3. PICK m \in Bad : \A k \in Bad : m <= k
  BY <1>1, <1>2, LeastNatural
<1>4. m # 0
  <2> DEFINE h == [i \in 0 .. 0 |-> base]
  <2>1. h = [i \in 0 .. 0 |-> IF i = 0 THEN base ELSE DriverStep(x, h[i - 1], i)]
    OBVIOUS
  <2>2. Upto(0, h)
    BY <2>1
  <2>3. 0 \notin Bad
    BY <2>2
  <2>4. QED
    BY <2>3
<1>5. m \in Nat /\ m - 1 \in Nat /\ ~ (m <= m - 1)
  BY <1>3, <1>4
<1>6. PICK h : Upto(m - 1, h)
  BY <1>3, <1>5
<1> DEFINE g == [i \in 0 .. m |-> IF i = m THEN DriverStep(x, h[m - 1], m) ELSE h[i]]
<1>7. ASSUME NEW i \in 0 .. m PROVE g[i] = IF i = 0 THEN base ELSE DriverStep(x, g[i - 1], i)
  <2>1. CASE i = m
    <3>1. m # 0 /\ m - 1 \in 0 .. m /\ m - 1 # m
      BY <1>4, <1>5
    <3>2. g[m - 1] = h[m - 1]
      BY <3>1
    <3>3. QED
      BY <2>1, <3>1, <3>2
  <2>2. CASE i # m
    <3>1. i \in 0 .. m - 1 /\ (i # 0 => i - 1 \in 0 .. m /\ i - 1 # m)
      BY <2>2, <1>5
    <3>2. h[i] = IF i = 0 THEN base ELSE DriverStep(x, h[i - 1], i)
      BY <1>6, <3>1
    <3>3. g[i] = h[i] /\ (i # 0 => g[i - 1] = h[i - 1])
      BY <2>2, <3>1
    <3>4. QED
      BY <3>2, <3>3
  <2>3. QED
    BY <2>1, <2>2
<1>8. Upto(m, g)
  <2>1. g = [i \in 0 .. m |-> g[i]]
    OBVIOUS
  <2> HIDE DEF g
  <2>2. QED
    BY <1>7, <2>1
<1>9. QED
  BY <1>3, <1>8

\* What every turn keeps holds after the last.
LEMMA TurnsKeep ==
  ASSUME NEW x, NEW base, NEW n \in Nat, NEW g, Turns(g, x, base, n), DriverInv(x, base, 0),
         \A i \in 1 .. n : \A v : DriverInv(x, v, i - 1) => DriverInv(x, DriverStep(x, v, i), i)
  PROVE  DriverInv(x, g[n], n)
<1> DEFINE Bad == {m \in 0 .. n : ~ DriverInv(x, g[m], m)}
<1>1. SUFFICES ASSUME Bad # {} PROVE FALSE
  OBVIOUS
<1>2. Bad \in SUBSET Nat
  OBVIOUS
<1>3. PICK m \in Bad : \A k \in Bad : m <= k
  BY <1>1, <1>2, LeastNatural
<1>4. \A i \in 0 .. n : g[i] = IF i = 0 THEN base ELSE DriverStep(x, g[i - 1], i)
  BY DEF Turns
<1>5. g[0] = base
  BY <1>4
<1>6. m # 0
  BY <1>3, <1>5
<1>7. m \in 1 .. n /\ m - 1 \in 0 .. n /\ ~ (m <= m - 1)
  BY <1>3, <1>6
<1>8. DriverInv(x, g[m - 1], m - 1)
  BY <1>3, <1>7
<1>9. DriverInv(x, DriverStep(x, g[m - 1], m), m)
  BY <1>7, <1>8
<1>10. g[m] = DriverStep(x, g[m - 1], m)
  BY <1>4, <1>6
<1>11. QED
  BY <1>3, <1>9, <1>10

\* Offering a reply runs its turns to the end.
LEMMA OfferTurns ==
  ASSUME NEW d, NEW x, x.loop = "offer", x.d = d, Len(active) \in Nat
  PROVE  \E g : Turns(g, x, [pacer |-> pacer, active |-> active], Len(active)) /\ OfferTo(d) = g[Len(active)]
<1> DEFINE n == Len(active)
           base == [pacer |-> pacer, active |-> active]
           After(v, i) == CHOOSE w \in {OfferOne(d, u, i) : u \in {v}} : TRUE
           Upto(g) == g = [i \in 0 .. n |-> IF i = 0 THEN base ELSE After(g[i - 1], i)]
<1>1. OfferTo(d) = (CHOOSE g : Upto(g))[n]
  BY DEF OfferTo, Repeat
<1>2. \A v, i : After(v, i) = DriverStep(x, v, i)
  <2>1. \A v, i : DriverStep(x, v, i) = OfferOne(d, v, i)
    BY DEF DriverStep
  <2>2. \A v, i : After(v, i) = OfferOne(d, v, i)
    OBVIOUS
  <2>3. QED
    BY <2>1, <2>2
<1> HIDE DEF After, n, base
<1>3. ASSUME NEW g PROVE Turns(g, x, base, n) <=> Upto(g)
  BY <1>2 DEF Turns
<1>4. n \in Nat
  BY DEF n
<1>5. \E g : Upto(g)
  BY <1>3, <1>4, TurnsExist
<1>6. Upto(CHOOSE g : Upto(g))
  BY <1>5
<1>7. QED
  BY <1>1, <1>3, <1>6 DEF n, base

\* So does starting what waits.
LEMMA StartTurns ==
  ASSUME NEW now, NEW q, NEW act, NEW x, x.loop = "start", x.now = now, x.queue = q, Len(q) \in Nat
  PROVE  \E g : Turns(g, x, [queue |-> <<>>, active |-> act], Len(q)) /\ Start(now, q, act) = g[Len(q)]
<1> DEFINE n == Len(q)
           base == [queue |-> <<>>, active |-> act]
           After(v, i) == CHOOSE w \in {StartOne(now, q, u, i) : u \in {v}} : TRUE
           Upto(g) == g = [i \in 0 .. n |-> IF i = 0 THEN base ELSE After(g[i - 1], i)]
<1>1. Start(now, q, act) = (CHOOSE g : Upto(g))[n]
  BY DEF Start, Repeat
<1>2. \A v, i : After(v, i) = DriverStep(x, v, i)
  <2>1. \A v, i : DriverStep(x, v, i) = StartOne(now, q, v, i)
    BY DEF DriverStep
  <2>2. \A v, i : After(v, i) = StartOne(now, q, v, i)
    OBVIOUS
  <2>3. QED
    BY <2>1, <2>2
<1> HIDE DEF After, n, base
<1>3. ASSUME NEW g PROVE Turns(g, x, base, n) <=> Upto(g)
  BY <1>2 DEF Turns
<1>4. n \in Nat
  BY DEF n
<1>5. \E g : Upto(g)
  BY <1>3, <1>4, TurnsExist
<1>6. Upto(CHOOSE g : Upto(g))
  BY <1>5
<1>7. QED
  BY <1>1, <1>3, <1>6 DEF n, base

\* So does ending what is whole or late.
LEMMA FinishTurns ==
  ASSUME NEW now, NEW act, NEW told, NEW x, x.loop = "finish", x.now = now, x.active = act, Len(act) \in Nat
  PROVE  \E g : Turns(g, x, [active |-> <<>>, told |-> told], Len(act)) /\ Finish(now, act, told) = g[Len(act)]
<1> DEFINE n == Len(act)
           base == [active |-> <<>>, told |-> told]
           After(v, i) == CHOOSE w \in {FinishOne(now, act, u, i) : u \in {v}} : TRUE
           Upto(g) == g = [i \in 0 .. n |-> IF i = 0 THEN base ELSE After(g[i - 1], i)]
<1>1. Finish(now, act, told) = (CHOOSE g : Upto(g))[n]
  BY DEF Finish, Repeat
<1>2. \A v, i : After(v, i) = DriverStep(x, v, i)
  <2>1. \A v, i : DriverStep(x, v, i) = FinishOne(now, act, v, i)
    BY DEF DriverStep
  <2>2. \A v, i : After(v, i) = FinishOne(now, act, v, i)
    OBVIOUS
  <2>3. QED
    BY <2>1, <2>2
<1> HIDE DEF After, n, base
<1>3. ASSUME NEW g PROVE Turns(g, x, base, n) <=> Upto(g)
  BY <1>2 DEF Turns
<1>4. n \in Nat
  BY DEF n
<1>5. \E g : Upto(g)
  BY <1>3, <1>4, TurnsExist
<1>6. Upto(CHOOSE g : Upto(g))
  BY <1>5
<1>7. QED
  BY <1>1, <1>3, <1>6 DEF n, base

\* And so does asking.
LEMMA AskTurns ==
  ASSUME NEW x, x.loop = "ask", Len(x.active) \in Nat
  PROVE  \E g : Turns(g, x, [pacer |-> x.pacer, active |-> x.active, sent |-> {}], Len(x.active)) /\ Ask(x.now, x.pacer, x.active, x.cs, x.full) = g[Len(x.active)]
<1> DEFINE n == Len(x.active)
           base == [pacer |-> x.pacer, active |-> x.active, sent |-> {}]
           After(v, i) == CHOOSE w \in {AskOne(x.now, x.cs, x.full, u, i) : u \in {v}} : TRUE
           Upto(g) == g = [i \in 0 .. n |-> IF i = 0 THEN base ELSE After(g[i - 1], i)]
<1>1. Ask(x.now, x.pacer, x.active, x.cs, x.full) = (CHOOSE g : Upto(g))[n]
  BY DEF Ask, Repeat
<1>2. \A v, i : After(v, i) = DriverStep(x, v, i)
  <2>1. \A v, i : DriverStep(x, v, i) = AskOne(x.now, x.cs, x.full, v, i)
    BY DEF DriverStep
  <2>2. \A v, i : After(v, i) = AskOne(x.now, x.cs, x.full, v, i)
    OBVIOUS
  <2>3. QED
    BY <2>1, <2>2
<1> HIDE DEF After, n, base
<1>3. ASSUME NEW g PROVE Turns(g, x, base, n) <=> Upto(g)
  BY <1>2 DEF Turns
<1>4. n \in Nat
  BY DEF n
<1>5. \E g : Upto(g)
  BY <1>3, <1>4, TurnsExist
<1>6. Upto(CHOOSE g : Upto(g))
  BY <1>5
<1>7. QED
  BY <1>1, <1>3, <1>6 DEF n, base

-------------------------------------------------------------------------------
(* Jobs in sequence *)

\* What runs, element by element.
LEMMA RunningPlaces ==
  ASSUME NEW act, Running(act)
  PROVE  Len(act) \in Nat /\ DOMAIN act = 1 .. Len(act) /\ act = [k \in 1 .. Len(act) |-> act[k]]
<1>1. PICK S : act \in Seq(S)
  BY DEF Running
<1>2. QED
  BY <1>1, LenProperties

\* A sequence with one more at its end.
LEMMA OneMore ==
  ASSUME NEW s, NEW S, s \in Seq(S), NEW e
  PROVE  /\ Len(s) \in Nat /\ DOMAIN s = 1 .. Len(s)
         /\ Append(s, e) \in Seq(S \union {e}) /\ Len(Append(s, e)) = Len(s) + 1
         /\ DOMAIN Append(s, e) = 1 .. (Len(s) + 1)
         /\ \A k \in 1 .. Len(s) : Append(s, e)[k] = s[k]
         /\ Append(s, e)[Len(s) + 1] = e
<1> DEFINE T == S \union {e}
<1>1. s \in Seq(T) /\ e \in T
  <2>1. Len(s) \in Nat /\ s \in [1 .. Len(s) -> S]
    BY LenProperties
  <2>2. s \in [1 .. Len(s) -> T]
    BY <2>1
  <2>3. QED
    BY <2>1, <2>2, SeqDef
<1> HIDE DEF T
<1>2. Append(s, e) \in Seq(T) /\ Len(Append(s, e)) = Len(s) + 1
  BY <1>1, AppendProperties
<1>3. /\ \A k \in 1 .. Len(s) : Append(s, e)[k] = s[k]
      /\ Append(s, e)[Len(s) + 1] = e
  BY <1>1, AppendProperties
<1>4. Len(s) \in Nat /\ DOMAIN s = 1 .. Len(s)
  BY LenProperties
<1>5. DOMAIN Append(s, e) = 1 .. (Len(s) + 1)
  BY <1>2, LenProperties
<1>6. QED
  BY <1>2, <1>3, <1>4, <1>5 DEF T

\* One more runs, whose job did not.
LEMMA RunsOneMore ==
  ASSUME NEW act, Running(act), NEW a, a.job \in FetchJobs, Proven(a.job, a.fetch), a.job \notin RunningIn(act)
  PROVE  Running(Append(act, a)) /\ RunningIn(Append(act, a)) = RunningIn(act) \union {a.job}
<1>1. PICK S : act \in Seq(S)
  BY DEF Running
<1> DEFINE b == Append(act, a)
           n == Len(act)
<1>2. /\ n \in Nat /\ DOMAIN act = 1 .. n /\ b \in Seq(S \union {a}) /\ DOMAIN b = 1 .. (n + 1)
      /\ \A k \in 1 .. n : b[k] = act[k]
      /\ b[n + 1] = a
  BY <1>1, OneMore
<1>3. \A k \in 1 .. n : act[k].job # a.job /\ act[k].job \in FetchJobs /\ Proven(act[k].job, act[k].fetch)
  BY <1>2 DEF RunningIn, Running
<1>4. \A k, l \in 1 .. n : act[k].job = act[l].job => k = l
  BY <1>2 DEF Running
<1> HIDE DEF b, n
<1>5. \A k \in DOMAIN b : k \in 1 .. n \/ k = n + 1
  BY <1>2
<1>6. \A k \in DOMAIN b : b[k].job \in FetchJobs /\ Proven(b[k].job, b[k].fetch)
  BY <1>2, <1>3, <1>5
<1>7. \A k, l \in DOMAIN b : b[k].job = b[l].job => k = l
  BY <1>2, <1>3, <1>4, <1>5
<1>8. \E T : b \in Seq(T)
  BY <1>2
<1>9. RunningIn(b) = RunningIn(act) \union {a.job}
  <2>1. \A k \in 1 .. n : k \in DOMAIN b
    BY <1>2
  <2>2. n + 1 \in DOMAIN b
    BY <1>2
  <2>3. QED
    BY <1>2, <1>5, <2>1, <2>2 DEF RunningIn
<1>10. Running(b)
  BY <1>6, <1>7, <1>8 DEF Running
<1>11. QED
  BY <1>9, <1>10 DEF b

\* One of what runs is put in its own job's place.
LEMMA RunsReplaced ==
  ASSUME NEW act, Running(act), NEW i \in DOMAIN act, NEW a, a.job = act[i].job, Proven(a.job, a.fetch)
  PROVE  /\ Running([act EXCEPT ![i] = a]) /\ RunningIn([act EXCEPT ![i] = a]) = RunningIn(act)
         /\ Len([act EXCEPT ![i] = a]) = Len(act)
<1>1. PICK S : act \in Seq(S)
  BY DEF Running
<1> DEFINE b == [act EXCEPT ![i] = a]
           n == Len(act)
           T == S \union {a}
<1>2. n \in Nat /\ DOMAIN act = 1 .. n /\ act \in [1 .. n -> S]
  BY <1>1, LenProperties
<1>3. b \in [1 .. n -> T]
  BY <1>2
<1>4. b \in Seq(T) /\ Len(b) = n
  BY <1>2, <1>3, LenProperties, SeqDef
<1>5. \A k \in 1 .. n : b[k] = IF k = i THEN a ELSE act[k]
  BY <1>2
<1>6. DOMAIN b = 1 .. n
  BY <1>2
<1>7. \A k \in 1 .. n : act[k].job \in FetchJobs /\ Proven(act[k].job, act[k].fetch)
  BY <1>2 DEF Running
<1>8. \A k, l \in 1 .. n : act[k].job = act[l].job => k = l
  BY <1>2 DEF Running
<1> HIDE DEF b, n, T
<1>9. \A k \in DOMAIN b : b[k].job = act[k].job
  BY <1>5, <1>6
<1>10. \A k \in DOMAIN b : b[k].job \in FetchJobs /\ Proven(b[k].job, b[k].fetch)
  BY <1>5, <1>6, <1>7
<1>11. \A k, l \in DOMAIN b : b[k].job = b[l].job => k = l
  BY <1>6, <1>8, <1>9
<1>12. Running(b)
  BY <1>4, <1>10, <1>11 DEF Running
<1>13. RunningIn(b) = RunningIn(act)
  BY <1>2, <1>6, <1>9 DEF RunningIn
<1>14. QED
  BY <1>4, <1>12, <1>13 DEF b, n

\* Nothing runs in the empty sequence.
LEMMA NoneRunning ==
  Running(<<>>) /\ RunningIn(<<>>) = {} /\ Queue(<<>>) /\ QueuedIn(<<>>) = {}
<1>1. <<>> \in Seq({}) /\ <<>> \in Seq(FetchJobs) /\ DOMAIN <<>> = {}
  BY EmptySeq
<1>2. QED
  BY <1>1 DEF Running, RunningIn, Queue, QueuedIn

\* One more waits, which did not.
LEMMA QueuesOneMore ==
  ASSUME NEW q, Queue(q), NEW j \in FetchJobs, j \notin QueuedIn(q)
  PROVE  Queue(Append(q, j)) /\ QueuedIn(Append(q, j)) = QueuedIn(q) \union {j}
<1> DEFINE b == Append(q, j)
           n == Len(q)
<1>1. q \in Seq(FetchJobs) /\ \A k, l \in DOMAIN q : q[k] = q[l] => k = l
  BY DEF Queue
<1>2. FetchJobs \union {j} = FetchJobs
  OBVIOUS
<1>3. /\ n \in Nat /\ DOMAIN q = 1 .. n /\ b \in Seq(FetchJobs \union {j}) /\ DOMAIN b = 1 .. (n + 1)
      /\ \A k \in 1 .. n : b[k] = q[k]
      /\ b[n + 1] = j
  BY <1>1, OneMore
<1>4. \A k \in 1 .. n : q[k] # j
  BY <1>3 DEF QueuedIn
<1>5. b \in Seq(FetchJobs)
  BY <1>2, <1>3
<1> HIDE DEF b, n
<1>6. \A k \in DOMAIN b : k \in 1 .. n \/ k = n + 1
  BY <1>3
<1>7. \A k, l \in DOMAIN b : b[k] = b[l] => k = l
  BY <1>1, <1>3, <1>4, <1>6
<1>8. QueuedIn(b) = QueuedIn(q) \union {j}
  <2>1. n + 1 \in DOMAIN b /\ \A k \in 1 .. n : k \in DOMAIN b
    BY <1>3
  <2>2. QED
    BY <1>3, <1>6, <2>1 DEF QueuedIn
<1>9. QED
  BY <1>5, <1>7, <1>8 DEF b, Queue

\* One is taken from the queue.
LEMMA QueueWithout ==
  ASSUME NEW q, Queue(q), NEW i \in DOMAIN q
  PROVE  Queue(RemoveAt(q, i)) /\ QueuedIn(RemoveAt(q, i)) = QueuedIn(q) \ {q[i]}
<1> DEFINE n == Len(q)
           b == RemoveAt(q, i)
           one == SubSeq(q, 1, i - 1)
           two == SubSeq(q, i + 1, n)
<1>1. q \in Seq(FetchJobs) /\ \A k, l \in DOMAIN q : q[k] = q[l] => k = l
  BY DEF Queue
<1>2. n \in Nat /\ DOMAIN q = 1 .. n /\ i \in 1 .. n
  BY <1>1, LenProperties
<1>3. one \in Seq(FetchJobs) /\ Len(one) = i - 1 /\ \A k \in 1 .. i - 1 : one[k] = q[k]
  BY <1>1, <1>2
<1>4. two \in Seq(FetchJobs) /\ Len(two) = n - i /\ \A k \in 1 .. n - i : two[k] = q[i + k]
  BY <1>1, <1>2
<1>5. b = one \o two
  BY DEF RemoveAt
<1> HIDE DEF b, one, two, n
<1>6. /\ b \in Seq(FetchJobs) /\ Len(b) = Len(one) + Len(two)
      /\ \A k \in 1 .. Len(one) : b[k] = one[k]
      /\ \A k \in 1 .. Len(two) : b[Len(one) + k] = two[k]
  <2>1. b \in Seq(FetchJobs) /\ Len(b) = Len(one) + Len(two)
    BY <1>3, <1>4, <1>5, ConcatProperties
  <2>2. \A k \in 1 .. Len(one) + Len(two) : b[k] = IF k <= Len(one) THEN one[k] ELSE two[k - Len(one)]
    BY <1>3, <1>4, <1>5, ConcatProperties
  <2>3. Len(one) \in Nat /\ Len(two) \in Nat
    BY <1>3, <1>4, LenProperties
  <2>4. ASSUME NEW k \in 1 .. Len(one) PROVE b[k] = one[k]
    <3>1. k \in 1 .. Len(one) + Len(two) /\ k <= Len(one)
      BY <2>3
    <3>2. QED
      BY <2>2, <3>1
  <2>5. ASSUME NEW k \in 1 .. Len(two) PROVE b[Len(one) + k] = two[k]
    <3>1. /\ Len(one) + k \in 1 .. Len(one) + Len(two) /\ ~ (Len(one) + k <= Len(one))
          /\ (Len(one) + k) - Len(one) = k
      BY <2>3
    <3>2. QED
      BY <2>2, <3>1
  <2>6. QED
    BY <2>1, <2>4, <2>5
<1>7. Len(b) = n - 1 /\ DOMAIN b = 1 .. n - 1
  BY <1>2, <1>3, <1>4, <1>6, LenProperties
<1>8. \A k \in 1 .. n - 1 : b[k] = IF k < i THEN q[k] ELSE q[k + 1]
  <2>1. ASSUME NEW k \in 1 .. n - 1, k < i PROVE b[k] = q[k]
    <3>1. k \in 1 .. i - 1 /\ k \in 1 .. Len(one)
      BY <1>2, <1>3, <2>1
    <3>2. QED
      BY <1>3, <1>6, <3>1
  <2>2. ASSUME NEW k \in 1 .. n - 1, ~ (k < i) PROVE b[k] = q[k + 1]
    <3>1. k - i + 1 \in 1 .. n - i /\ Len(one) + (k - i + 1) = k /\ i + (k - i + 1) = k + 1
      BY <1>2, <1>3, <2>2
    <3>2. QED
      BY <1>4, <1>6, <3>1
  <2>3. QED
    BY <2>1, <2>2
<1>9. \A k, l \in DOMAIN b : b[k] = b[l] => k = l
  <2>1. \A k \in 1 .. n - 1 : \E m \in 1 .. n : b[k] = q[m] /\ (m = IF k < i THEN k ELSE k + 1)
    <3>1. ASSUME NEW k \in 1 .. n - 1 PROVE k \in 1 .. n /\ k + 1 \in 1 .. n
      BY <1>2
    <3>2. QED
      BY <1>8, <3>1
  <2>2. ASSUME NEW k \in 1 .. n - 1, NEW l \in 1 .. n - 1, b[k] = b[l] PROVE k = l
    <3>1. PICK m \in 1 .. n : b[k] = q[m] /\ (m = IF k < i THEN k ELSE k + 1)
      BY <2>1
    <3>2. PICK h \in 1 .. n : b[l] = q[h] /\ (h = IF l < i THEN l ELSE l + 1)
      BY <2>1
    <3>3. m = h
      BY <1>1, <1>2, <2>2, <3>1, <3>2
    <3>4. QED
      BY <1>2, <3>1, <3>2, <3>3
  <2>3. QED
    BY <1>7, <2>2
<1>10. QueuedIn(b) = QueuedIn(q) \ {q[i]}
  <2>1. ASSUME NEW k \in DOMAIN b PROVE b[k] \in QueuedIn(q) \ {q[i]}
    BY <1>1, <1>2, <1>7, <1>8, <2>1 DEF QueuedIn
  <2>2. ASSUME NEW k \in DOMAIN q, k # i PROVE \E l \in DOMAIN b : b[l] = q[k]
    <3>1. CASE k < i
      BY <1>2, <1>7, <1>8, <2>2, <3>1
    <3>2. CASE ~ (k < i)
      <4>1. k - 1 \in 1 .. n - 1 /\ ~ (k - 1 < i) /\ (k - 1) + 1 = k
        BY <1>2, <2>2, <3>2
      <4>2. b[k - 1] = q[k]
        BY <1>8, <4>1
      <4>3. QED
        BY <1>7, <4>1, <4>2
    <3>3. QED
      BY <3>1, <3>2
  <2>3. QED
    BY <1>1, <2>1, <2>2 DEF QueuedIn
<1>11. QED
  BY <1>6, <1>9, <1>10 DEF b, Queue
-------------------------------------------------------------------------------
(* What a fetch holds *)

\* Nodes taken are the ledger's, and each comes below nodes that were in or come with it.
LEMMA TakenIsProven ==
  ASSUME NEW j \in FetchJobs, NEW f, NEW nodes, \A n \in f.got : n.right /\ Above[n.at] \subseteq Positions(f)
  PROVE  LET g == f.got \union Taken(j, f, nodes) IN
         \A n \in g : n.right /\ Above[n.at] \subseteq {m.at : m \in g}
<1> DEFINE got == f.got
           new == Taken(j, f, nodes)
           g == got \union new
           l == LedgerOf[j]
<1>1. l \in DOMAIN Tree
  BY FetchConstants
<1>2. \A z \in Tree[l] : Above[z] \subseteq Tree[l] /\ \A y \in Above[z] : Above[y] \subseteq Above[z]
  BY <1>1, FetchConstants
<1>3. ASSUME NEW n \in got PROVE n.right /\ Above[n.at] \subseteq {m.at : m \in g}
  BY DEF Positions
<1>4. ASSUME NEW n \in new PROVE n.right /\ Above[n.at] \subseteq {m.at : m \in g}
  <2>1. /\ n \in nodes /\ n.right /\ n.at \in Tree[l] \ Positions(f)
        /\ Above[n.at] \subseteq Positions(f) \union {m.at : m \in {h \in nodes : h.right}}
    BY DEF Taken
  <2>2. ASSUME NEW y \in Above[n.at] PROVE \E m \in g : m.at = y
    <3>1. CASE y \in Positions(f)
      BY <3>1 DEF Positions
    <3>2. CASE y \notin Positions(f)
      <4>1. PICK m \in nodes : m.right /\ m.at = y
        BY <2>1, <3>2
      <4>2. m.at \in Tree[l] \ Positions(f) /\ Above[m.at] \subseteq Above[n.at]
        BY <1>2, <2>1, <3>2, <4>1
      <4>3. m \in new
        BY <2>1, <4>1, <4>2 DEF Taken
      <4>4. QED
        BY <4>1, <4>3
    <3>3. QED
      BY <3>1, <3>2
  <2>3. QED
    BY <2>1, <2>2
<1>5. QED
  BY <1>3, <1>4

\* A reply leaves a proven fetch.
LEMMA DataIsProven ==
  ASSUME NEW j \in FetchJobs, NEW f, NEW d, Proven(j, f)
  PROVE  Proven(j, OnData(j, f, d).fetch)
<1> DEFINE o == OnData(j, f, d).fetch
           h == [header |-> TRUE, got |-> f.got]
<1>1. \/ o = f
      \/ o = Take(j, f, d.nodes) /\ (KindOf[j] = "state" \/ f.header)
      \/ o = Take(j, h, d.nodes)
  BY DEF OnData
<1> HIDE DEF o
<1>2. \A n \in f.got : n.right /\ Above[n.at] \subseteq Positions(f)
  BY DEF Proven
<1>3. CASE o = f
  BY <1>3 DEF o
<1>4. CASE o = Take(j, f, d.nodes) /\ (KindOf[j] = "state" \/ f.header)
  <2>1. o.header = f.header /\ o.got = f.got \union Taken(j, f, d.nodes)
    BY <1>4 DEF Take
  <2>2. \A n \in o.got : n.right /\ Above[n.at] \subseteq {m.at : m \in o.got}
    BY <1>2, <2>1, TakenIsProven
  <2>3. QED
    BY <1>4, <2>1, <2>2 DEF Proven, Positions, o
<1>5. CASE o = Take(j, h, d.nodes)
  <2>1. o.header = TRUE /\ o.got = h.got \union Taken(j, h, d.nodes)
    BY <1>5 DEF Take
  <2>2. h.got = f.got /\ Positions(h) = Positions(f)
    BY DEF Positions
  <2>3. \A n \in h.got : n.right /\ Above[n.at] \subseteq Positions(h)
    BY <1>2, <2>2
  <2> HIDE DEF h
  <2>4. \A n \in o.got : n.right /\ Above[n.at] \subseteq {m.at : m \in o.got}
    BY <2>1, <2>3, TakenIsProven
  <2>5. QED
    BY <2>1, <2>4 DEF Proven, Positions, o
<1>6. QED
  BY <1>1, <1>3, <1>4, <1>5

-------------------------------------------------------------------------------
(* The turns of the four loops *)

\* A miss, a strike or an answer leaves when each peer was last asked.
LEMMA MissedLeavesLast ==
  ASSUME NEW now, NEW p0, NEW p, NEW strikes
  PROVE  /\ DOMAIN Missed(now, p0, p, strikes) = DOMAIN p0
         /\ \A z \in DOMAIN p0 : Missed(now, p0, p, strikes)[z].last = p0[z].last
BY DEF Missed

LEMMA AnsweredLeavesLast ==
  ASSUME NEW p0, NEW p
  PROVE  /\ DOMAIN Answered(p0, p) = DOMAIN p0
         /\ \A z \in DOMAIN p0 : Answered(p0, p)[z].last = p0[z].last
BY DEF Answered

LEMMA JudgedLeavesLast ==
  ASSUME NEW p0, NEW d, NEW step
  PROVE  /\ DOMAIN Judged(p0, d, step) = DOMAIN p0
         /\ \A z \in DOMAIN p0 : Judged(p0, d, step)[z].last = p0[z].last
<1>1. \/ Judged(p0, d, step) = Missed(clock, p0, d.from, MISSES_TO_BENCH)
      \/ Judged(p0, d, step) = Missed(clock, p0, d.from, 1)
      \/ Judged(p0, d, step) = p0
      \/ Judged(p0, d, step) = Answered(p0, d.from)
  BY Zenon DEF Judged
<1>2. QED
  BY <1>1, MissedLeavesLast, AnsweredLeavesLast

\* Offering a reply keeps the jobs, their proofs, and when each peer was asked.
LEMMA OfferKeeps ==
  ASSUME Running(active), NEW d
  PROVE  /\ Running(OfferTo(d).active) /\ RunningIn(OfferTo(d).active) = RunningIn(active)
         /\ DOMAIN OfferTo(d).pacer = DOMAIN pacer
         /\ \A p \in DOMAIN pacer : OfferTo(d).pacer[p].last = pacer[p].last
<1> DEFINE x == [loop |-> "offer", d |-> d, pacer |-> pacer, active |-> active]
           n == Len(active)
           base == [pacer |-> pacer, active |-> active]
<1>1. x.loop = "offer" /\ x.d = d /\ x.pacer = pacer /\ x.active = active
  OBVIOUS
<1> HIDE DEF x
<1>2. n \in Nat
  BY RunningPlaces
<1>3. PICK g : Turns(g, x, base, n) /\ OfferTo(d) = g[n]
  BY <1>1, <1>2, OfferTurns
<1>4. OfferInv(x, base, 0)
  BY <1>1 DEF OfferInv
<1>5. ASSUME NEW i \in 1 .. n, NEW v, OfferInv(x, v, i - 1)
      PROVE  OfferInv(x, OfferOne(d, v, i), i)
  <2> DEFINE w == OfferOne(d, v, i)
             a == v.active[i]
             o == OnData(a.job, a.fetch, d)
             b == [job |-> a.job, fetch |-> o.fetch, started |-> a.started,
                   asked |-> IF o.step # "ignored" /\ a.asked = d.from THEN NoPeer ELSE a.asked,
                   at |-> a.at, used |-> a.used]
  <2>1. w.pacer = Judged(v.pacer, d, o.step) /\ w.active = [v.active EXCEPT ![i] = b]
    BY DEF OfferOne
  <2>2. i \in DOMAIN v.active
    BY <1>1, <1>2, <1>5, RunningPlaces DEF OfferInv
  <2>3. a.job \in FetchJobs /\ Proven(a.job, a.fetch)
    BY <1>5, <2>2 DEF OfferInv, Running
  <2>4. b.job = a.job /\ b.fetch = o.fetch
    OBVIOUS
  <2>5. Proven(b.job, b.fetch)
    BY <2>3, <2>4, DataIsProven
  <2> HIDE DEF w, b, o
  <2>6. /\ Running(w.active) /\ RunningIn(w.active) = RunningIn(v.active)
        /\ Len(w.active) = Len(v.active)
    BY <1>5, <2>1, <2>2, <2>4, <2>5, RunsReplaced DEF OfferInv
  <2>7. /\ DOMAIN w.pacer = DOMAIN v.pacer
        /\ \A p \in DOMAIN v.pacer : w.pacer[p].last = v.pacer[p].last
    BY <2>1, JudgedLeavesLast
  <2>8. QED
    BY <1>5, <2>6, <2>7 DEF OfferInv, w
<1>6. DriverInv(x, base, 0)
  BY <1>1, <1>4 DEF DriverInv
<1>7. \A i \in 1 .. n : \A v : DriverInv(x, v, i - 1) => DriverInv(x, DriverStep(x, v, i), i)
  BY <1>1, <1>5 DEF DriverInv, DriverStep
<1>8. DriverInv(x, g[n], n)
  BY <1>2, <1>3, <1>6, <1>7, TurnsKeep
<1>9. OfferInv(x, OfferTo(d), n)
  BY <1>1, <1>3, <1>8 DEF DriverInv
<1>10. QED
  BY <1>1, <1>9 DEF OfferInv
\* The jobs up to one more place.
LEMMA OneMorePlace ==
  ASSUME NEW s, NEW i \in Nat \ {0}
  PROVE  {s[k] : k \in 1 .. i} = {s[k] : k \in 1 .. i - 1} \union {s[i]}
<1>1. \A k \in 1 .. i : k \in 1 .. i - 1 \/ k = i
  OBVIOUS
<1>2. i \in 1 .. i /\ \A k \in 1 .. i - 1 : k \in 1 .. i
  OBVIOUS
<1>3. QED
  BY <1>1, <1>2

\* Starting what waits moves jobs from the queue to what runs, and loses none.
LEMMA StartKeeps ==
  ASSUME NEW now, NEW q, NEW act, Queue(q), Running(act), QueuedIn(q) \intersect RunningIn(act) = {}
  PROVE  LET e == Start(now, q, act) IN
         /\ Queue(e.queue) /\ Running(e.active) /\ QueuedIn(e.queue) \intersect RunningIn(e.active) = {}
         /\ QueuedIn(e.queue) \union RunningIn(e.active) = QueuedIn(q) \union RunningIn(act)
<1> DEFINE x == [loop |-> "start", now |-> now, queue |-> q, active |-> act]
           n == Len(q)
           base == [queue |-> <<>>, active |-> act]
<1>1. x.loop = "start" /\ x.now = now /\ x.queue = q /\ x.active = act
  OBVIOUS
<1> HIDE DEF x
<1>2. n \in Nat /\ DOMAIN q = 1 .. n /\ q \in [1 .. n -> FetchJobs]
  BY LenProperties DEF Queue
<1>3. PICK g : Turns(g, x, base, n) /\ Start(now, q, act) = g[n]
  BY <1>1, <1>2, StartTurns
<1>4. StartInv(x, base, 0)
  BY <1>1, NoneRunning DEF StartInv
<1>5. ASSUME NEW i \in 1 .. n, NEW v, StartInv(x, v, i - 1)
      PROVE  StartInv(x, StartOne(now, q, v, i), i)
  <2> DEFINE w == StartOne(now, q, v, i)
             before == {q[k] : k \in 1 .. i - 1}
  <2>1. /\ Queue(v.queue) /\ Running(v.active)
        /\ QueuedIn(v.queue) \intersect RunningIn(v.active) = {}
        /\ QueuedIn(v.queue) \union RunningIn(v.active) = before \union RunningIn(act)
    BY <1>1, <1>5 DEF StartInv
  <2>2. q[i] \in FetchJobs /\ {q[k] : k \in 1 .. i} = before \union {q[i]}
    <3>1. i \in Nat \ {0}
      BY <1>2
    <3>2. QED
      BY <1>2, <3>1, OneMorePlace
  <2>3. q[i] \notin before
    BY <1>2 DEF Queue
  <2>4. q[i] \notin RunningIn(act)
    BY <1>2 DEF QueuedIn
  <2>5. q[i] \notin QueuedIn(v.queue) /\ q[i] \notin RunningIn(v.active)
    BY <2>1, <2>3, <2>4
  <2> DEFINE a == Started(now, q[i])
  <2>6. a.job = q[i] /\ a.job \in FetchJobs /\ Proven(a.job, a.fetch)
    BY <2>2 DEF Started, FreshFetch, Proven, Positions
  <2> HIDE DEF a, before
  <2>7. CASE w.queue = v.queue /\ w.active = Append(v.active, a)
    <3>1. Running(w.active) /\ RunningIn(w.active) = RunningIn(v.active) \union {a.job}
      BY <2>1, <2>5, <2>6, <2>7, RunsOneMore
    <3>2. QED
      BY <1>1, <2>1, <2>2, <2>5, <2>6, <2>7, <3>1 DEF StartInv
  <2>8. CASE w.queue = Append(v.queue, q[i]) /\ w.active = v.active
    <3>1. Queue(w.queue) /\ QueuedIn(w.queue) = QueuedIn(v.queue) \union {q[i]}
      BY <2>1, <2>2, <2>5, <2>8, QueuesOneMore
    <3>2. QED
      BY <1>1, <2>1, <2>2, <2>5, <2>8, <3>1 DEF StartInv
  <2>9. \/ w.queue = v.queue /\ w.active = Append(v.active, a)
        \/ w.queue = Append(v.queue, q[i]) /\ w.active = v.active
    BY DEF StartOne, a
  <2>10. QED
    BY <2>7, <2>8, <2>9
<1>6. DriverInv(x, base, 0)
  BY <1>1, <1>4 DEF DriverInv
<1>7. \A i \in 1 .. n : \A v : DriverInv(x, v, i - 1) => DriverInv(x, DriverStep(x, v, i), i)
  BY <1>1, <1>5 DEF DriverInv, DriverStep
<1>8. DriverInv(x, g[n], n)
  BY <1>2, <1>3, <1>6, <1>7, TurnsKeep
<1>9. StartInv(x, Start(now, q, act), n)
  BY <1>1, <1>3, <1>8 DEF DriverInv
<1>10. QED
  BY <1>1, <1>2, <1>9 DEF StartInv, QueuedIn

\* Ending jobs tells their waiters, and leaves the others as they are.
LEMMA FinishKeeps ==
  ASSUME NEW now, NEW act, NEW told, Running(act), DOMAIN told = FetchJobs
  PROVE  LET e == Finish(now, act, told) IN
         /\ Running(e.active) /\ RunningIn(e.active) \subseteq RunningIn(act)
         /\ DOMAIN e.told = FetchJobs
         /\ \A j \in FetchJobs :
              IF j \in RunningIn(act) /\ j \notin RunningIn(e.active)
              THEN e.told[j] \in {"late", "wrong_seq", "ok"} ELSE e.told[j] = told[j]
<1> DEFINE x == [loop |-> "finish", now |-> now, active |-> act, told |-> told]
           n == Len(act)
           base == [active |-> <<>>, told |-> told]
           Upto(i) == {act[k].job : k \in 1 .. i}
<1>1. x.loop = "finish" /\ x.now = now /\ x.told = told /\ x.active = act
  OBVIOUS
<1> HIDE DEF x
<1>2. n \in Nat /\ DOMAIN act = 1 .. n
  BY RunningPlaces
<1>3. PICK g : Turns(g, x, base, n) /\ Finish(now, act, told) = g[n]
  BY <1>1, <1>2, FinishTurns
<1>4. FinishInv(x, base, 0)
  BY <1>1, NoneRunning DEF FinishInv
<1>5. ASSUME NEW i \in 1 .. n, NEW v, FinishInv(x, v, i - 1)
      PROVE  FinishInv(x, FinishOne(now, act, v, i), i)
  <2> DEFINE w == FinishOne(now, act, v, i)
             a == act[i]
             before == Upto(i - 1)
  <2>1. /\ Running(v.active) /\ RunningIn(v.active) \subseteq before
        /\ DOMAIN v.told = FetchJobs
        /\ \A j \in FetchJobs : IF j \in before /\ j \notin RunningIn(v.active)
                                THEN v.told[j] \in {"late", "wrong_seq", "ok"} ELSE v.told[j] = told[j]
    BY <1>1, <1>5 DEF FinishInv
  <2>2. a.job \in FetchJobs /\ Proven(a.job, a.fetch)
    BY <1>2 DEF Running
  <2>3. Upto(i) = before \union {a.job}
    <3>1. \A k \in 1 .. i : k \in 1 .. i - 1 \/ k = i
      BY <1>2
    <3>2. i \in 1 .. i /\ \A k \in 1 .. i - 1 : k \in 1 .. i
      BY <1>2
    <3>3. QED
      BY <3>1, <3>2
  <2>4. a.job \notin before
    <3>1. \A k \in 1 .. i - 1 : k \in 1 .. n /\ k # i
      BY <1>2
    <3>2. QED
      BY <1>2, <3>1 DEF Running
  <2>5. a.job \notin RunningIn(v.active)
    BY <2>1, <2>4
  <2>6. Verdict(a) \in {"late", "wrong_seq", "ok"}
    BY DEF Verdict
  <2>7. \/ w.active = v.active /\ w.told = [v.told EXCEPT ![a.job] = Verdict(a)]
        \/ w.active = Append(v.active, a) /\ w.told = v.told
    BY DEF FinishOne
  <2> SUFFICES /\ Running(w.active) /\ RunningIn(w.active) \subseteq Upto(i)
               /\ DOMAIN w.told = FetchJobs
               /\ \A j \in FetchJobs : IF j \in Upto(i) /\ j \notin RunningIn(w.active)
                                       THEN w.told[j] \in {"late", "wrong_seq", "ok"} ELSE w.told[j] = told[j]
    BY <1>1 DEF FinishInv
  <2> HIDE DEF w, a, before, Upto
  <2>8. CASE w.active = v.active /\ w.told = [v.told EXCEPT ![a.job] = Verdict(a)]
    BY <2>1, <2>2, <2>3, <2>4, <2>5, <2>6, <2>8
  <2>9. CASE w.active = Append(v.active, a) /\ w.told = v.told
    <3>1. Running(w.active) /\ RunningIn(w.active) = RunningIn(v.active) \union {a.job}
      BY <2>1, <2>2, <2>5, <2>9, RunsOneMore
    <3>2. QED
      BY <2>1, <2>3, <2>4, <2>9, <3>1
  <2>10. QED
    BY <2>7, <2>8, <2>9
<1>6. DriverInv(x, base, 0)
  BY <1>1, <1>4 DEF DriverInv
<1>7. \A i \in 1 .. n : \A v : DriverInv(x, v, i - 1) => DriverInv(x, DriverStep(x, v, i), i)
  BY <1>1, <1>5 DEF DriverInv, DriverStep
<1>8. DriverInv(x, g[n], n)
  BY <1>2, <1>3, <1>6, <1>7, TurnsKeep
<1>9. FinishInv(x, Finish(now, act, told), n)
  BY <1>1, <1>3, <1>8 DEF DriverInv
<1>10. Upto(n) = RunningIn(act)
  BY <1>2 DEF RunningIn
<1>11. QED
  BY <1>1, <1>9, <1>10 DEF FinishInv
\* The peer picked is one of those that may be.
LEMMA PickIsCandidate ==
  ASSUME NEW cands, NEW p0, cands # {}, cands \subseteq Nat, \A p \in cands : p0[p].last \in Nat
  PROVE  Pick(cands, p0) \in cands
<1> DEFINE lasts == {p0[p].last : p \in cands}
<1>1. PICK l \in lasts : \A m \in lasts : l <= m
  <2>1. lasts \in SUBSET Nat /\ lasts # {}
    OBVIOUS
  <2>2. QED
    BY <2>1, LeastNatural
<1> DEFINE longest == {p \in cands : p0[p].last = l}
<1>2. longest \in SUBSET Nat /\ longest # {}
  BY <1>1
<1>3. PICK p \in longest : \A q \in longest : p <= q
  BY <1>2, LeastNatural
<1>4. ASSUME NEW q \in cands PROVE p0[p].last < p0[q].last \/ (p0[p].last = p0[q].last /\ p <= q)
  <2>1. p0[p].last = l /\ l <= p0[q].last /\ l \in Nat /\ p0[q].last \in Nat
    BY <1>1, <1>3
  <2>2. p0[q].last = l => p <= q
    BY <1>3
  <2>3. QED
    BY <2>1, <2>2
<1>5. QED
  BY <1>3, <1>4 DEF Pick

\* Asking keeps the jobs; it asks only peers not asked for the gap, each by its connection.
LEMMA AskKeeps ==
  ASSUME NEW now \in Nat \ {0}, NEW p0, NEW act, NEW cs, NEW full, Running(act),
         DOMAIN p0 \subseteq FetchPeers, \A p \in DOMAIN p0 : p0[p].last \in 0 .. now
  PROVE  LET e == Ask(now, p0, act, cs, full) IN
         /\ Running(e.active) /\ RunningIn(e.active) = RunningIn(act)
         /\ DOMAIN e.pacer = DOMAIN p0
         /\ \A p \in DOMAIN p0 :
              \/ e.pacer[p].last = p0[p].last
              \/ e.pacer[p].last = now /\ (p0[p].last = 0 \/ now - p0[p].last >= PEER_GAP)
         /\ \A r \in e.sent :
              /\ r.to \in DOMAIN p0 /\ r.conn = cs[r.to] /\ r.at = now /\ e.pacer[r.to].last = now
              /\ p0[r.to].last = 0 \/ now - p0[r.to].last >= PEER_GAP
         /\ \A r, s \in e.sent : r # s /\ r.to = s.to => PEER_GAP = 0
<1> DEFINE x == [loop |-> "ask", now |-> now, cs |-> cs, full |-> full, pacer |-> p0, active |-> act]
           n == Len(act)
           base == [pacer |-> p0, active |-> act, sent |-> {}]
<1>1. x.loop = "ask" /\ x.now = now /\ x.cs = cs /\ x.full = full /\ x.pacer = p0 /\ x.active = act
  OBVIOUS
<1> HIDE DEF x
<1>2. n \in Nat
  BY RunningPlaces
<1>3. PICK g : Turns(g, x, base, n) /\ Ask(now, p0, act, cs, full) = g[n]
  BY <1>1, <1>2, AskTurns
<1>4. AskInv(x, base, 0)
  BY <1>1 DEF AskInv
<1>5. ASSUME NEW i \in 1 .. n, NEW v, AskInv(x, v, i - 1)
      PROVE  AskInv(x, AskOne(now, cs, full, v, i), i)
  <2> DEFINE w == AskOne(now, cs, full, v, i)
             a == v.active[i]
             pz == IF a.asked # NoPeer THEN Missed(now, v.pacer, a.asked, 1) ELSE v.pacer
             cands == Candidates(now, pz, IF a.used = <<>> THEN NoPeer ELSE Last(a.used))
             p == Pick(cands, pz)
             With(asked, at, used) ==
               [v.active EXCEPT ![i] = [job |-> a.job, fetch |-> a.fetch, started |-> a.started,
                                        asked |-> asked, at |-> at, used |-> used]]
             sent == [to |-> p, conn |-> cs[p], at |-> now, req |-> RequestOf(a.job, a.fetch)]
  <2>1. /\ Running(v.active) /\ RunningIn(v.active) = RunningIn(act) /\ Len(v.active) = Len(act)
        /\ DOMAIN v.pacer = DOMAIN p0
        /\ \A z \in DOMAIN p0 :
             \/ v.pacer[z].last = p0[z].last
             \/ v.pacer[z].last = now /\ (p0[z].last = 0 \/ now - p0[z].last >= PEER_GAP)
        /\ \A r \in v.sent :
             /\ r.to \in DOMAIN p0 /\ r.conn = cs[r.to] /\ r.at = now /\ v.pacer[r.to].last = now
             /\ p0[r.to].last = 0 \/ now - p0[r.to].last >= PEER_GAP
        /\ \A r, s \in v.sent : r # s /\ r.to = s.to => PEER_GAP = 0
    BY <1>1, <1>5 DEF AskInv
  <2>2. i \in DOMAIN v.active
    BY <1>2, <2>1, RunningPlaces
  <2>3. \A asked, at, used :
          /\ Running(With(asked, at, used)) /\ RunningIn(With(asked, at, used)) = RunningIn(act)
          /\ Len(With(asked, at, used)) = Len(act)
    <3>1. TAKE asked, at, used
    <3> DEFINE b == [job |-> a.job, fetch |-> a.fetch, started |-> a.started, asked |-> asked, at |-> at, used |-> used]
    <3>2. b.job = v.active[i].job /\ Proven(b.job, b.fetch)
      BY <2>1, <2>2 DEF Running
    <3> HIDE DEF b
    <3>3. /\ Running([v.active EXCEPT ![i] = b]) /\ RunningIn([v.active EXCEPT ![i] = b]) = RunningIn(v.active)
          /\ Len([v.active EXCEPT ![i] = b]) = Len(v.active)
      BY <2>1, <2>2, <3>2, RunsReplaced
    <3>4. QED
      BY <2>1, <3>3 DEF b
  <2>4. DOMAIN pz = DOMAIN p0 /\ \A z \in DOMAIN p0 : pz[z].last = v.pacer[z].last
    BY <2>1, MissedLeavesLast
  <2>5. \A z \in DOMAIN p0 : pz[z].last \in Nat /\ v.pacer[z].last \in Nat
    BY <2>1, <2>4
  <2> HIDE DEF pz
  <2>6. cands \subseteq DOMAIN p0 /\ \A z \in cands : pz[z].last = 0 \/ now - pz[z].last >= PEER_GAP
    BY <2>4 DEF Candidates
  <2> HIDE DEF cands
  <2>7. cands # {} => p \in cands
    BY <2>5, <2>6, FetchConstants, PickIsCandidate
  <2> HIDE DEF p
  <2> DEFINE asked == Asked(now, pz, p)
  <2>8. p \in DOMAIN p0 =>
          DOMAIN asked = DOMAIN p0 /\ \A z \in DOMAIN p0 : asked[z].last = IF z = p THEN now ELSE v.pacer[z].last
    BY <2>4 DEF Asked
  <2>9. /\ DOMAIN Missed(now, asked, p, 1) = DOMAIN asked
        /\ \A z \in DOMAIN asked : Missed(now, asked, p, 1)[z].last = asked[z].last
    BY MissedLeavesLast
  <2>10. ASSUME p \in cands
         PROVE  /\ p \in DOMAIN p0 /\ (p0[p].last = 0 \/ now - p0[p].last >= PEER_GAP)
                /\ v.pacer[p].last = now => PEER_GAP = 0
    <3>1. p \in DOMAIN p0 /\ (v.pacer[p].last = 0 \/ now - v.pacer[p].last >= PEER_GAP)
      BY <2>4, <2>6, <2>10
    <3>2. PEER_GAP \in Nat
      BY FetchConstants
    <3>3. QED
      BY <2>1, <3>1, <3>2
  <2>11. \/ w = v
         \/ w.pacer = pz /\ w.active = With(NoPeer, a.at, a.used) /\ w.sent = v.sent
         \/ /\ cands # {}
            /\ w.pacer = Missed(now, asked, p, 1) /\ w.active = With(NoPeer, a.at, a.used) /\ w.sent = v.sent
         \/ /\ cands # {}
            /\ w.pacer = asked /\ w.sent = v.sent \union {sent}
            /\ \E used : w.active = With(p, now, used)
    BY DEF AskOne, pz, cands, p
  <2> SUFFICES AskInv(x, w, i)
    OBVIOUS
  <2> HIDE DEF w, With, asked, a, sent
  <2>12. Running(w.active) /\ RunningIn(w.active) = RunningIn(act) /\ Len(w.active) = Len(act)
    BY <2>1, <2>3, <2>11
  <2>13. CASE w = v
    BY <1>5, <2>13 DEF AskInv
  <2>14. CASE w.pacer = pz /\ w.sent = v.sent
    BY <1>1, <2>1, <2>4, <2>12, <2>14 DEF AskInv
  <2>15. ASSUME cands # {}, DOMAIN w.pacer = DOMAIN p0,
                \A z \in DOMAIN p0 : w.pacer[z].last = IF z = p THEN now ELSE v.pacer[z].last
         PROVE  /\ \A z \in DOMAIN p0 :
                     \/ w.pacer[z].last = p0[z].last
                     \/ w.pacer[z].last = now /\ (p0[z].last = 0 \/ now - p0[z].last >= PEER_GAP)
                /\ \A r \in v.sent :
                     /\ r.to \in DOMAIN p0 /\ r.conn = cs[r.to] /\ r.at = now /\ w.pacer[r.to].last = now
                     /\ p0[r.to].last = 0 \/ now - p0[r.to].last >= PEER_GAP
    BY <2>1, <2>7, <2>10, <2>15
  <2>16. CASE cands # {} /\ w.pacer = Missed(now, asked, p, 1) /\ w.sent = v.sent
    <3>1. p \in DOMAIN p0
      BY <2>7, <2>10, <2>16
    <3>2. /\ DOMAIN w.pacer = DOMAIN p0
          /\ \A z \in DOMAIN p0 : w.pacer[z].last = IF z = p THEN now ELSE v.pacer[z].last
      BY <2>8, <2>9, <2>16, <3>1
    <3>3. QED
      BY <1>1, <2>1, <2>12, <2>15, <2>16, <3>2 DEF AskInv
  <2>17. CASE cands # {} /\ w.pacer = asked /\ w.sent = v.sent \union {sent}
    <3>1. p \in cands /\ p \in DOMAIN p0
      BY <2>7, <2>10, <2>17
    <3>2. /\ DOMAIN w.pacer = DOMAIN p0
          /\ \A z \in DOMAIN p0 : w.pacer[z].last = IF z = p THEN now ELSE v.pacer[z].last
      BY <2>8, <2>17, <3>1
    <3>3. sent.to = p /\ sent.conn = cs[p] /\ sent.at = now
      BY DEF sent
    <3>4. \A r \in w.sent :
            /\ r.to \in DOMAIN p0 /\ r.conn = cs[r.to] /\ r.at = now /\ w.pacer[r.to].last = now
            /\ p0[r.to].last = 0 \/ now - p0[r.to].last >= PEER_GAP
      BY <2>10, <2>15, <2>17, <3>1, <3>2, <3>3
    <3>5. \A r \in v.sent : r.to = p => PEER_GAP = 0
      BY <2>1, <2>10, <3>1
    <3>6. \A r, s \in w.sent : r # s /\ r.to = s.to => PEER_GAP = 0
      BY <2>1, <2>17, <3>3, <3>5
    <3>7. QED
      BY <1>1, <2>12, <2>15, <2>17, <3>2, <3>4, <3>6 DEF AskInv
  <2>18. QED
    BY <2>11, <2>13, <2>14, <2>16, <2>17
<1>6. DriverInv(x, base, 0)
  BY <1>1, <1>4 DEF DriverInv
<1>7. \A i \in 1 .. n : \A v : DriverInv(x, v, i - 1) => DriverInv(x, DriverStep(x, v, i), i)
  BY <1>1, <1>5 DEF DriverInv, DriverStep
<1>8. DriverInv(x, g[n], n)
  BY <1>2, <1>3, <1>6, <1>7, TurnsKeep
<1>9. AskInv(x, Ask(now, p0, act, cs, full), n)
  BY <1>1, <1>3, <1>8 DEF DriverInv
<1>10. QED
  BY <1>1, <1>9 DEF AskInv
-------------------------------------------------------------------------------
(* The inductive invariant of the driver *)

\* Each job is in one place, once; the waiters of those in a place wait, and of no other.
JobsSound(q, act, told) ==
  /\ Queue(q) /\ Running(act) /\ QueuedIn(q) \intersect RunningIn(act) = {}
  /\ DOMAIN told = FetchJobs
  /\ \A j \in FetchJobs : (told[j] = "wanted") = (j \in QueuedIn(q) \union RunningIn(act))
  /\ \A j \in FetchJobs : Awaited(j) => told[j] # "dropped"

\* No request is later than its peer, still connected, was last asked; nor closer than the gap to another.
PaceSound(rs, p0, cs, now) ==
  /\ now \in Nat \ {0} /\ cs \in [FetchPeers -> Nat] /\ DOMAIN p0 \subseteq FetchPeers
  /\ \A p \in DOMAIN p0 : p0[p].last \in 0 .. now
  /\ \A r \in rs : r.to \in FetchPeers /\ r.conn \in 0 .. cs[r.to] /\ r.at \in 1 .. now
  /\ \A r \in rs : r.to \in DOMAIN p0 /\ r.conn = cs[r.to] => r.at <= p0[r.to].last
  /\ \A r, s \in rs : r # s /\ r.to = s.to /\ r.conn = s.conn =>
       r.at - s.at >= PEER_GAP \/ s.at - r.at >= PEER_GAP

FetchInv == JobsSound(fetch_queue, active, result) /\ PaceSound(requests, pacer, conns, clock)

\* A pass keeps what its event left.
LEMMA PassKeeps ==
  ASSUME NEW now, NEW p0, NEW q, NEW act, NEW told, NEW cs,
         JobsSound(q, act, told), PaceSound(requests, p0, cs, now), Pass(now, p0, q, act, told, cs)
  PROVE  FetchInv'
<1> DEFINE begun == Start(now, q, act)
           left == Finish(now, begun.active, told)
<1>1. /\ Queue(begun.queue) /\ Running(begun.active)
      /\ QueuedIn(begun.queue) \intersect RunningIn(begun.active) = {}
      /\ QueuedIn(begun.queue) \union RunningIn(begun.active) = QueuedIn(q) \union RunningIn(act)
  BY StartKeeps DEF JobsSound
<1>2. /\ Running(left.active) /\ RunningIn(left.active) \subseteq RunningIn(begun.active)
      /\ DOMAIN left.told = FetchJobs
      /\ \A j \in FetchJobs :
           IF j \in RunningIn(begun.active) /\ j \notin RunningIn(left.active)
           THEN left.told[j] \in {"late", "wrong_seq", "ok"} ELSE left.told[j] = told[j]
  <2>1. DOMAIN told = FetchJobs
    BY DEF JobsSound
  <2> HIDE DEF begun
  <2>2. QED
    BY <1>1, <2>1, FinishKeeps
<1>3. PICK full :
        LET asks == Ask(now, p0, left.active, cs, full) IN
        /\ clock' = now /\ pacer' = asks.pacer /\ fetch_queue' = begun.queue /\ active' = asks.active
        /\ result' = left.told /\ conns' = cs
        /\ requests' = {r \in requests : now - r.at <= MaxLate} \union asks.sent
  BY DEF Pass
<1> DEFINE asks == Ask(now, p0, left.active, cs, full)
<1> HIDE DEF begun, left
<1>4. now \in Nat \ {0} /\ DOMAIN p0 \subseteq FetchPeers /\ \A p \in DOMAIN p0 : p0[p].last \in 0 .. now
  BY DEF PaceSound
<1>5. /\ Running(asks.active) /\ RunningIn(asks.active) = RunningIn(left.active)
      /\ DOMAIN asks.pacer = DOMAIN p0
      /\ \A p \in DOMAIN p0 :
           \/ asks.pacer[p].last = p0[p].last
           \/ asks.pacer[p].last = now /\ (p0[p].last = 0 \/ now - p0[p].last >= PEER_GAP)
      /\ \A r \in asks.sent :
           /\ r.to \in DOMAIN p0 /\ r.conn = cs[r.to] /\ r.at = now /\ asks.pacer[r.to].last = now
           /\ p0[r.to].last = 0 \/ now - p0[r.to].last >= PEER_GAP
      /\ \A r, s \in asks.sent : r # s /\ r.to = s.to => PEER_GAP = 0
  BY <1>2, <1>4, AskKeeps
<1>6. /\ clock' = now /\ pacer' = asks.pacer /\ fetch_queue' = begun.queue /\ active' = asks.active
      /\ result' = left.told /\ conns' = cs
      /\ requests' = {r \in requests : now - r.at <= MaxLate} \union asks.sent
  BY <1>3
<1> HIDE DEF asks
<1>7. JobsSound(begun.queue, asks.active, left.told)
  <2>1. /\ \A j \in FetchJobs : (told[j] = "wanted") = (j \in QueuedIn(q) \union RunningIn(act))
        /\ \A j \in FetchJobs : Awaited(j) => told[j] # "dropped"
    BY DEF JobsSound
  <2>2. \A j \in FetchJobs : (left.told[j] = "wanted") = (j \in QueuedIn(begun.queue) \union RunningIn(asks.active))
    BY <1>1, <1>2, <1>5, <2>1
  <2>3. \A j \in FetchJobs : Awaited(j) => left.told[j] # "dropped"
    BY <1>2, <2>1
  <2>4. QED
    BY <1>1, <1>2, <1>5, <2>2, <2>3 DEF JobsSound
<1>8. PaceSound(requests', asks.pacer, cs, now)
  <2> DEFINE old == {r \in requests : now - r.at <= MaxLate}
  <2>1. /\ cs \in [FetchPeers -> Nat]
        /\ \A r \in old : r.to \in FetchPeers /\ r.conn \in 0 .. cs[r.to] /\ r.at \in 1 .. now
        /\ \A r \in old : r.to \in DOMAIN p0 /\ r.conn = cs[r.to] => r.at <= p0[r.to].last
        /\ \A r, s \in old : r # s /\ r.to = s.to /\ r.conn = s.conn =>
             r.at - s.at >= PEER_GAP \/ s.at - r.at >= PEER_GAP
    BY DEF PaceSound
  <2>2. requests' = old \union asks.sent
    BY <1>6
  <2> HIDE DEF old
  <2>3. PEER_GAP \in Nat
    BY FetchConstants
  <2>4. \A p \in DOMAIN p0 : asks.pacer[p].last \in 0 .. now /\ p0[p].last <= asks.pacer[p].last
    BY <1>4, <1>5
  <2>5. ASSUME NEW r \in asks.sent
        PROVE  /\ r.to \in FetchPeers /\ r.to \in DOMAIN p0 /\ r.conn \in 0 .. cs[r.to] /\ r.at \in 1 .. now
               /\ r.at <= asks.pacer[r.to].last
    <3>1. r.to \in DOMAIN p0 /\ r.conn = cs[r.to] /\ r.at = now /\ asks.pacer[r.to].last = now
      BY <1>5
    <3>2. r.to \in FetchPeers /\ cs[r.to] \in Nat
      BY <1>4, <2>1, <3>1
    <3>3. QED
      BY <1>4, <3>1, <3>2
  <2>6. ASSUME NEW r \in old, r.to \in DOMAIN p0, r.conn = cs[r.to]
        PROVE  r.at <= asks.pacer[r.to].last
    BY <1>4, <2>1, <2>4, <2>6
  <2>7. ASSUME NEW r \in asks.sent, NEW s \in old, r.to = s.to, r.conn = s.conn
        PROVE  r.at - s.at >= PEER_GAP
    <3>1. /\ r.to \in DOMAIN p0 /\ r.conn = cs[r.to] /\ r.at = now
          /\ p0[r.to].last = 0 \/ now - p0[r.to].last >= PEER_GAP
      BY <1>5
    <3>2. s.at <= p0[r.to].last /\ s.at \in 1 .. now
      BY <2>1, <2>7, <3>1
    <3>3. QED
      BY <1>4, <2>3, <3>1, <3>2
  <2>8. ASSUME NEW r \in asks.sent, NEW s \in asks.sent, r # s, r.to = s.to
        PROVE  r.at - s.at >= PEER_GAP
    <3>1. r.at = now /\ s.at = now /\ PEER_GAP = 0
      BY <1>5, <2>8
    <3>2. QED
      BY <1>4, <3>1
  <2>9. \A r, s \in old \union asks.sent : r # s /\ r.to = s.to /\ r.conn = s.conn =>
          r.at - s.at >= PEER_GAP \/ s.at - r.at >= PEER_GAP
    BY <2>1, <2>7, <2>8
  <2>10. DOMAIN asks.pacer \subseteq FetchPeers /\ \A p \in DOMAIN asks.pacer : asks.pacer[p].last \in 0 .. now
    BY <1>4, <1>5, <2>4
  <2>11. \A r \in old \union asks.sent : r.to \in FetchPeers /\ r.conn \in 0 .. cs[r.to] /\ r.at \in 1 .. now
    BY <2>1, <2>5
  <2>12. \A r \in old \union asks.sent :
           r.to \in DOMAIN asks.pacer /\ r.conn = cs[r.to] => r.at <= asks.pacer[r.to].last
    BY <1>5, <2>5, <2>6
  <2>13. QED
    BY <1>4, <2>1, <2>2, <2>9, <2>10, <2>11, <2>12 DEF PaceSound
<1>9. FetchInv' <=> JobsSound(fetch_queue', active', result') /\ PaceSound(requests', pacer', conns', clock')
  BY DEF FetchInv, JobsSound, PaceSound, Queue, Running, QueuedIn, RunningIn, Proven, Positions, Awaited
<1>10. QED
  BY <1>6, <1>7, <1>8, <1>9
\* A job that joins the queue waits, and what it pushes out nobody waits for.
LEMMA EnqueueKeeps ==
  ASSUME NEW j \in FetchJobs, JobsSound(fetch_queue, active, result), result[j] = "none"
  PROVE  JobsSound(Enqueue(j).queue, active, Enqueue(j).told)
<1> DEFINE q == Append(fetch_queue, j)
           told == [result EXCEPT ![j] = "wanted"]
           first == Min(Compares(q))
           e == Enqueue(j)
<1>1. /\ Queue(fetch_queue) /\ Running(active) /\ QueuedIn(fetch_queue) \intersect RunningIn(active) = {}
      /\ DOMAIN result = FetchJobs
      /\ \A k \in FetchJobs : (result[k] = "wanted") = (k \in QueuedIn(fetch_queue) \union RunningIn(active))
      /\ \A k \in FetchJobs : Awaited(k) => result[k] # "dropped"
  BY DEF JobsSound
<1>2. j \notin QueuedIn(fetch_queue) /\ j \notin RunningIn(active)
  BY <1>1
<1>3. Queue(q) /\ QueuedIn(q) = QueuedIn(fetch_queue) \union {j}
  BY <1>1, <1>2, QueuesOneMore
<1>4. DOMAIN told = FetchJobs /\ \A k \in FetchJobs : told[k] = IF k = j THEN "wanted" ELSE result[k]
  BY <1>1
<1>5. \/ e.queue = q /\ e.told = told
      \/ /\ Cardinality(Compares(q)) > QUEUE_CAP
         /\ e.queue = RemoveAt(q, first) /\ e.told = [told EXCEPT ![q[first]] = "dropped"]
  BY DEF Enqueue
<1> HIDE DEF q, told, e
<1>6. CASE e.queue = q /\ e.told = told
  BY <1>1, <1>2, <1>3, <1>4, <1>6 DEF JobsSound, e
<1>7. CASE /\ Cardinality(Compares(q)) > QUEUE_CAP
           /\ e.queue = RemoveAt(q, first) /\ e.told = [told EXCEPT ![q[first]] = "dropped"]
  <2>1. q \in Seq(FetchJobs) /\ Len(q) \in Nat /\ DOMAIN q = 1 .. Len(q) /\ q \in [1 .. Len(q) -> FetchJobs]
    BY <1>3, LenProperties DEF Queue
  <2>2. Compares(q) # {}
    <3>1. Cardinality({}) = 0 /\ QUEUE_CAP \in Nat
      BY FS_EmptySet, FetchConstants
    <3>2. QED
      BY <1>7, <3>1
  <2>3. Compares(q) \in SUBSET Nat
    BY <2>1 DEF Compares
  <2>4. \E i \in Compares(q) : \A k \in Compares(q) : i <= k
    BY <2>2, <2>3, LeastNatural
  <2>5. first \in Compares(q)
    BY <2>4 DEF Min
  <2> HIDE DEF first
  <2>6. first \in DOMAIN q /\ q[first] \in FetchJobs /\ ~ Awaited(q[first])
    BY <2>1, <2>5 DEF Compares
  <2>7. Queue(e.queue) /\ QueuedIn(e.queue) = QueuedIn(q) \ {q[first]}
    BY <1>3, <1>7, <2>6, QueueWithout
  <2>8. q[first] \in QueuedIn(q)
    BY <2>6 DEF QueuedIn
  <2>9. DOMAIN e.told = FetchJobs
        /\ \A k \in FetchJobs : e.told[k] = IF k = q[first] THEN "dropped" ELSE told[k]
    BY <1>4, <1>7, <2>6
  <2>10. \A k \in FetchJobs : (e.told[k] = "wanted") = (k \in QueuedIn(e.queue) \union RunningIn(active))
    BY <1>1, <1>2, <1>3, <1>4, <2>7, <2>8, <2>9
  <2>11. \A k \in FetchJobs : Awaited(k) => e.told[k] # "dropped"
    BY <1>1, <1>4, <2>6, <2>9
  <2>12. QED
    BY <1>1, <1>2, <1>3, <2>7, <2>9, <2>10, <2>11 DEF JobsSound, e
<1>8. QED
  BY <1>5, <1>6, <1>7 DEF e

\* The driver's promises follow from its invariant.
LEMMA FetchInvIsSound == FetchInv => FetchSound
<1> SUFFICES ASSUME FetchInv PROVE FetchSound
  OBVIOUS
<1>1. FetchedIsProven
  BY DEF FetchInv, JobsSound, Running, FetchedIsProven
<1>2. NeverPestered
  BY DEF FetchInv, PaceSound, NeverPestered
<1>3. AwaitedNeverDropped
  <2>1. \A j \in FetchJobs : Awaited(j) => result[j] # "dropped"
    BY DEF FetchInv, JobsSound
  <2>2. ASSUME NEW j \in FetchJobs
        PROVE  (result[j] = "wanted") = ((\E i \in DOMAIN active : active[i].job = j)
                                         # (\E i \in DOMAIN fetch_queue : fetch_queue[i] = j))
    <3>1. j \in RunningIn(active) <=> (\E i \in DOMAIN active : active[i].job = j)
      BY DEF RunningIn
    <3>2. j \in QueuedIn(fetch_queue) <=> (\E i \in DOMAIN fetch_queue : fetch_queue[i] = j)
      BY DEF QueuedIn
    <3>3. /\ (result[j] = "wanted") = (j \in QueuedIn(fetch_queue) \/ j \in RunningIn(active))
          /\ ~ (j \in QueuedIn(fetch_queue) /\ j \in RunningIn(active))
      BY DEF FetchInv, JobsSound
    <3>4. QED
      BY <3>1, <3>2, <3>3
  <2>3. QED
    BY <2>1, <2>2 DEF AwaitedNeverDropped
<1>4. QED
  BY <1>1, <1>2, <1>3 DEF FetchSound

\* The clock's tick, and each event, keep the invariant.
LEMMA FetchStepKeeps ==
  ASSUME FetchInv, FetchNext
  PROVE  FetchInv'
<1>1. JobsSound(fetch_queue, active, result) /\ PaceSound(requests, pacer, conns, clock)
  BY DEF FetchInv
<1>2. CASE FetchTick
  <2>1. PaceSound(requests, pacer, conns, clock + 1)
    BY <1>1 DEF PaceSound
  <2>2. QED
    BY <1>1, <1>2, <2>1, PassKeeps DEF FetchTick
<1>3. ASSUME NEW p \in FetchPeers, Register(p) PROVE FetchInv'
  <2> DEFINE p0 == [z \in DOMAIN pacer \union {p} |-> IF z = p THEN Rested ELSE pacer[z]]
             cs == [conns EXCEPT ![p] = @ + 1]
  <2>1. p \notin DOMAIN pacer /\ Pass(clock, p0, fetch_queue, active, result, cs)
    BY <1>3 DEF Register
  <2>2. DOMAIN p0 = DOMAIN pacer \union {p} /\ p0[p].last = 0 /\ \A z \in DOMAIN pacer : p0[z] = pacer[z]
    BY <2>1 DEF Rested
  <2>3. conns \in [FetchPeers -> Nat] /\ clock \in Nat \ {0}
    BY <1>1 DEF PaceSound
  <2>4. cs \in [FetchPeers -> Nat] /\ cs[p] = conns[p] + 1 /\ \A z \in FetchPeers : z # p => cs[z] = conns[z]
    BY <2>3
  <2> HIDE DEF p0, cs
  <2>5. DOMAIN p0 \subseteq FetchPeers /\ \A z \in DOMAIN p0 : p0[z].last \in 0 .. clock
    BY <1>1, <2>2, <2>3 DEF PaceSound
  <2>6. ASSUME NEW r \in requests
        PROVE  /\ r.to \in FetchPeers /\ r.conn \in 0 .. cs[r.to] /\ r.at \in 1 .. clock
               /\ r.to \in DOMAIN p0 /\ r.conn = cs[r.to] => r.at <= p0[r.to].last
    <3>1. /\ r.to \in FetchPeers /\ r.conn \in 0 .. conns[r.to] /\ r.at \in 1 .. clock
          /\ r.to \in DOMAIN pacer /\ r.conn = conns[r.to] => r.at <= pacer[r.to].last
      BY <1>1 DEF PaceSound
    <3>2. conns[r.to] \in Nat
      BY <2>3, <3>1
    <3>3. CASE r.to = p
      BY <2>4, <3>1, <3>2, <3>3
    <3>4. CASE r.to # p
      BY <2>2, <2>4, <3>1, <3>2, <3>4
    <3>5. QED
      BY <3>3, <3>4
  <2>7. \A r, s \in requests : r # s /\ r.to = s.to /\ r.conn = s.conn =>
          r.at - s.at >= PEER_GAP \/ s.at - r.at >= PEER_GAP
    BY <1>1 DEF PaceSound
  <2>8. PaceSound(requests, p0, cs, clock)
    BY <2>3, <2>4, <2>5, <2>6, <2>7 DEF PaceSound
  <2>9. QED
    BY <1>1, <2>1, <2>8, PassKeeps
<1>4. ASSUME NEW p \in FetchPeers, Unregister(p) PROVE FetchInv'
  <2> DEFINE p0 == [z \in DOMAIN pacer \ {p} |-> pacer[z]]
  <2>1. Pass(clock, p0, fetch_queue, active, result, conns)
    BY <1>4 DEF Unregister
  <2>2. DOMAIN p0 = DOMAIN pacer \ {p} /\ \A z \in DOMAIN p0 : p0[z] = pacer[z]
    OBVIOUS
  <2> HIDE DEF p0
  <2>3. PaceSound(requests, p0, conns, clock)
    BY <1>1, <2>2 DEF PaceSound
  <2>4. QED
    BY <1>1, <2>1, <2>3, PassKeeps
<1>5. ASSUME NEW j \in FetchJobs, Want(j) PROVE FetchInv'
  <2>1. result[j] = "none" /\ Pass(clock, pacer, Enqueue(j).queue, active, Enqueue(j).told, conns)
    BY <1>5 DEF Want
  <2>2. JobsSound(Enqueue(j).queue, active, Enqueue(j).told)
    BY <1>1, <2>1, EnqueueKeeps
  <2>3. QED
    BY <1>1, <2>1, <2>2, PassKeeps
<1>6. ASSUME NEW r \in requests, Data(r) PROVE FetchInv'
  <2>1. PICK d : Pass(clock, OfferTo(d).pacer, fetch_queue, OfferTo(d).active, result, conns)
    BY <1>6 DEF Data
  <2> DEFINE o == OfferTo(d)
  <2>2. Running(active)
    BY <1>1 DEF JobsSound
  <2>3. /\ Running(o.active) /\ RunningIn(o.active) = RunningIn(active)
        /\ DOMAIN o.pacer = DOMAIN pacer
        /\ \A p \in DOMAIN pacer : o.pacer[p].last = pacer[p].last
    BY <2>2, OfferKeeps
  <2> HIDE DEF o
  <2>4. JobsSound(fetch_queue, o.active, result)
    BY <1>1, <2>3 DEF JobsSound
  <2>5. PaceSound(requests, o.pacer, conns, clock)
    BY <1>1, <2>3 DEF PaceSound
  <2>6. QED
    BY <2>1, <2>4, <2>5, PassKeeps DEF o
<1>7. QED
  BY <1>2, <1>3, <1>4, <1>5, <1>6 DEF FetchNext

\* Whatever peers send, refuse or leave unanswered, and however often they come and go: what each
\* fetch holds is proven, no connection is asked twice within the gap, and no awaited job is lost.
THEOREM FetchesAreSound == FetchSpec => []FetchSound
<1>1. FetchInit => FetchInv
  <2> SUFFICES ASSUME FetchInit PROVE FetchInv
    OBVIOUS
  <2>1. /\ clock = 1 /\ DOMAIN pacer = {} /\ fetch_queue = <<>> /\ active = <<>> /\ requests = {}
        /\ result = [j \in FetchJobs |-> "none"] /\ conns = [p \in FetchPeers |-> 0]
    BY DEF FetchInit
  <2>2. JobsSound(fetch_queue, active, result)
    BY <2>1, NoneRunning DEF JobsSound
  <2>3. PaceSound(requests, pacer, conns, clock)
    BY <2>1 DEF PaceSound
  <2>4. QED
    BY <2>2, <2>3 DEF FetchInv
<1>2. FetchInv /\ [FetchNext]_fetch_vars => FetchInv'
  <2> SUFFICES ASSUME FetchInv, [FetchNext]_fetch_vars PROVE FetchInv'
    OBVIOUS
  <2>1. CASE FetchNext
    BY <2>1, FetchStepKeeps
  <2>2. CASE UNCHANGED fetch_vars
    <3>1. FetchInv' <=> JobsSound(fetch_queue', active', result') /\ PaceSound(requests', pacer', conns', clock')
      BY DEF FetchInv, JobsSound, PaceSound, Queue, Running, QueuedIn, RunningIn, Proven, Positions, Awaited
    <3>2. QED
      BY <2>2, <3>1 DEF fetch_vars, FetchInv
  <2>3. QED
    BY <2>1, <2>2
<1>3. QED
  BY <1>1, <1>2, FetchInvIsSound, PTL DEF FetchSpec
====
