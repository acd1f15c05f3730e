------------------------------ MODULE SigningProofs -----------------------------
(* Theorems about Signing, for every chain, window and mode. *)
EXTENDS Signing, FiniteSetTheorems, WellFoundedInduction, TLAPS

-------------------------------------------------------------------------------
(* Sequences *)

\* Sets of sequences are finite sets of naturals.
LEMMA LedgersFinite ==
  /\ Ledgers \subseteq Nat /\ IsFiniteSet(Ledgers)
  /\ \A S \in SUBSET Ledgers : IsFiniteSet(S) /\ Cardinality(S) \in Nat
<1>1. Ledgers \subseteq Nat /\ IsFiniteSet(Ledgers)
  BY SigningConstants, FS_Interval DEF Ledgers
<1>2. ASSUME NEW S \in SUBSET Ledgers PROVE IsFiniteSet(S) /\ Cardinality(S) \in Nat
  BY <1>1, FS_Subset, FS_CardinalityType
<1>3. QED
  BY <1>1, <1>2

\* A set of naturals has a least one.
LEMMA LeastNatural ==
  ASSUME NEW S \in SUBSET Nat, S # {}
  PROVE  \E s \in S : \A t \in S : s <= t
<1>1. PICK s \in S : \A t \in S : ~ (<<t, s>> \in OpToRel(<, Nat))
  BY NatLessThanWellFounded, WFMin
<1>2. ASSUME NEW t \in S PROVE s <= t
  <2>1. s \in Nat /\ t \in Nat /\ ~ (t < s)
    BY <1>1 DEF OpToRel
  <2>2. QED
    BY <2>1
<1>3. QED
  BY <1>2

\* A set of sequences has an oldest one.
LEMMA OldestIs ==
  ASSUME NEW S \in SUBSET Ledgers, S # {}
  PROVE  Oldest(S) \in S /\ \A t \in S : Oldest(S) <= t
<1>1. \E s \in S : \A t \in S : s <= t
  BY LedgersFinite, LeastNatural
<1>2. QED
  BY <1>1 DEF Oldest

\* A set of sequences has a newest one.
LEMMA NewestIs ==
  ASSUME NEW S \in SUBSET Ledgers, S # {}
  PROVE  Newest(S) \in S /\ \A t \in S : t <= Newest(S)
<1> DEFINE T == {MaxSeq - s : s \in S}
<1>1. S \subseteq 1 .. MaxSeq /\ MaxSeq \in Nat
  BY SigningConstants DEF Ledgers
<1>2. T \in SUBSET Nat /\ T # {}
  BY <1>1
<1>3. PICK x \in T : \A y \in T : x <= y
  <2> HIDE DEF T
  <2>1. QED
    BY <1>2, LeastNatural
<1>4. PICK s \in S : x = MaxSeq - s
  OBVIOUS
<1>5. ASSUME NEW t \in S PROVE t <= s
  <2>1. MaxSeq - s <= MaxSeq - t
    BY <1>3, <1>4
  <2>2. QED
    BY <1>1, <2>1
<1>6. QED
  BY <1>5 DEF Newest

\* One element more, or one less, changes a count by one at most.
LEMMA OneMore ==
  ASSUME NEW S, IsFiniteSet(S), NEW x, NEW k \in Nat, Cardinality(S) <= k
  PROVE  IsFiniteSet(S \cup {x}) /\ Cardinality(S \cup {x}) <= k + 1
<1>1. Cardinality(S) \in Nat
  BY FS_CardinalityType
<1>2. QED
  BY <1>1, FS_AddElement

\* An element less makes room for one.
LEMMA OneLess ==
  ASSUME NEW S, IsFiniteSet(S), NEW x \in S, NEW k \in Nat, Cardinality(S) <= k + 1
  PROVE  Cardinality(S \ {x}) <= k
<1>1. Cardinality(S) \in Nat
  BY FS_CardinalityType
<1>2. QED
  BY <1>1, FS_RemoveElement

\* As many sequences as KEEP, and the oldest of more: the newest is KEEP ahead of it.
LEMMA SpreadOut ==
  ASSUME NEW S \in SUBSET Ledgers, Cardinality(S) > KEEP
  PROVE  S # {} /\ Newest(S) >= Oldest(S) + KEEP
<1>1. KEEP \in Nat /\ IsFiniteSet(S) /\ Cardinality(S) \in Nat
  BY LedgersFinite, SigningConstants
<1>2. S # {}
  BY <1>1, FS_EmptySet
<1>3. /\ Oldest(S) \in S /\ Newest(S) \in S /\ Oldest(S) \in Nat /\ Newest(S) \in Nat
      /\ \A t \in S : t \in Nat /\ Oldest(S) <= t /\ t <= Newest(S)
  BY <1>2, OldestIs, NewestIs, LedgersFinite
<1>4. S \subseteq Oldest(S) .. Newest(S)
  BY <1>3
<1>5. /\ IsFiniteSet(Oldest(S) .. Newest(S))
      /\ Cardinality(Oldest(S) .. Newest(S)) = Newest(S) - Oldest(S) + 1
  BY <1>3, FS_Interval
<1>6. Cardinality(S) <= Newest(S) - Oldest(S) + 1
  BY <1>4, <1>5, FS_Subset
<1>7. QED
  BY <1>1, <1>2, <1>3, <1>6

-------------------------------------------------------------------------------
(* The types *)

Hash == Hashes \cup {None, Borrowed}

\* What the map keeps of one more ledger: at most KEEP, the oldest let go.
LEMMA KeptIs ==
  ASSUME NEW f \in [Ledgers -> Hash], NEW e \in [Ledgers -> Hash], NEW s \in Ledgers,
         \A q \in Ledgers : q # s => e[q] = f[q],
         Cardinality(Known(f)) <= KEEP
  PROVE  /\ Kept(e) \in [Ledgers -> Hash] /\ Cardinality(Known(Kept(e))) <= KEEP
         /\ \A q \in Ledgers : Kept(e)[q] \in {e[q], None}
         /\ \A q \in Ledgers : Kept(e)[q] = None /\ e[q] # None =>
              \E t \in Ledgers : e[t] # None /\ t >= q + KEEP /\ (KEEP > 0 => Kept(e)[t] # None)
<1> DEFINE g == Kept(e)
<1>1. g = Kept(e)
  OBVIOUS
<1> HIDE DEF g
<1>2. /\ Known(f) \in SUBSET Ledgers /\ Known(e) \in SUBSET Ledgers
      /\ Known(e) \subseteq Known(f) \cup {s}
  BY DEF Known
<1>3. /\ IsFiniteSet(Known(f)) /\ Cardinality(Known(f)) \in Nat
      /\ IsFiniteSet(Known(e)) /\ Cardinality(Known(e)) \in Nat /\ KEEP \in Nat
  BY <1>2, LedgersFinite, SigningConstants
<1>4. Cardinality(Known(e)) <= KEEP + 1
  <2>1. IsFiniteSet(Known(f) \cup {s}) /\ Cardinality(Known(f) \cup {s}) <= KEEP + 1
    BY <1>3, OneMore
  <2>2. Cardinality(Known(e)) <= Cardinality(Known(f) \cup {s})
    BY <1>2, <2>1, FS_Subset
  <2>3. Cardinality(Known(f) \cup {s}) \in Nat
    BY <2>1, FS_CardinalityType
  <2>4. QED
    BY <1>3, <2>1, <2>2, <2>3
<1>5. CASE Cardinality(Known(e)) > KEEP
  <2> DEFINE o == Oldest(Known(e))
  <2>1. /\ Known(e) # {} /\ Newest(Known(e)) >= o + KEEP /\ o \in Known(e) /\ o \in Ledgers
        /\ Newest(Known(e)) \in Known(e) /\ \A t \in Known(e) : o <= t
    BY <1>2, <1>5, SpreadOut, OldestIs, NewestIs
  <2>2. g = [e EXCEPT ![o] = None]
    BY <1>1, <1>5 DEF Kept
  <2> HIDE DEF o
  <2>3. g \in [Ledgers -> Hash] /\ g[o] = None /\ \A q \in Ledgers : q # o => g[q] = e[q]
    BY <2>1, <2>2 DEF Hash
  <2>4. Known(g) = Known(e) \ {o}
    BY <2>1, <2>3 DEF Known
  <2>5. Cardinality(Known(g)) <= KEEP
    BY <1>3, <1>4, <2>1, <2>4, OneLess
  <2>6. ASSUME NEW q \in Ledgers, g[q] = None, e[q] # None
        PROVE  \E t \in Ledgers : e[t] # None /\ t >= q + KEEP /\ (KEEP > 0 => g[t] # None)
    <3>1. q = o
      BY <2>3, <2>6
    <3>2. /\ Newest(Known(e)) \in Ledgers /\ Newest(Known(e)) >= q + KEEP
          /\ e[Newest(Known(e))] # None
      BY <1>2, <2>1, <3>1 DEF Known
    <3>3. KEEP > 0 => g[Newest(Known(e))] # None
      <4>1. o \in Nat /\ Newest(Known(e)) \in Nat
        BY <1>2, <2>1, LedgersFinite
      <4>2. KEEP > 0 => Newest(Known(e)) # o
        BY <1>3, <2>1, <4>1
      <4>3. e[Newest(Known(e))] # None
        BY <2>1 DEF Known
      <4>4. QED
        BY <2>3, <3>2, <4>2, <4>3
    <3>4. QED
      BY <3>2, <3>3
  <2>7. QED
    BY <1>1, <2>3, <2>5, <2>6
<1>6. CASE ~ (Cardinality(Known(e)) > KEEP)
  <2>1. g = e
    BY <1>1, <1>6 DEF Kept
  <2>2. Cardinality(Known(g)) <= KEEP
    BY <1>3, <1>6, <2>1
  <2>3. QED
    BY <1>1, <2>1, <2>2
<1>7. QED
  BY <1>5, <1>6

\* What one validation changes: of what was heard the oldest at most is let go.
LEMMA HearIs ==
  ASSUME NEW s \in Ledgers, NEW now \in {{}} \cup {{h} : h \in Hashes}, Hear(s, now),
         held \subseteq Ledgers, Cardinality(held) <= KEEP, reached \in [Ledgers -> SUBSET Hashes],
         \A q \in Ledgers : IsFiniteSet(reached[q])
  PROVE  /\ held' \subseteq Ledgers /\ Cardinality(held') <= KEEP
         /\ reached' \in [Ledgers -> SUBSET Hashes]
         /\ \A q \in Ledgers : IsFiniteSet(reached'[q])
<1> DEFINE all == held \cup {s}
           gone == IF Cardinality(all) > KEEP THEN {Oldest(all)} ELSE {}
<1>1. held' = all \ gone /\ reached' = [q \in Ledgers |-> IF q \in gone THEN {}
                                         ELSE IF q = s THEN reached[s] \cup now ELSE reached[q]]
  BY DEF Hear
<1>2. /\ all \in SUBSET Ledgers /\ IsFiniteSet(held) /\ IsFiniteSet(all)
      /\ Cardinality(all) \in Nat /\ Cardinality(held) \in Nat /\ KEEP \in Nat
  BY LedgersFinite, SigningConstants
<1>3. Cardinality(all) <= KEEP + 1
  BY <1>2, OneMore
<1> HIDE DEF all
<1>4. Cardinality(held') <= KEEP
  <2>1. CASE Cardinality(all) > KEEP
    <3>1. Oldest(all) \in all
      BY <1>2, <2>1, FS_EmptySet, OldestIs
    <3>2. QED
      BY <1>1, <1>2, <1>3, <2>1, <3>1, OneLess
  <2>2. CASE ~ (Cardinality(all) > KEEP)
    <3>1. all \ gone = all
      BY <2>2
    <3>2. QED
      BY <1>1, <1>2, <2>2, <3>1
  <2>3. QED
    BY <2>1, <2>2
<1> HIDE DEF gone
<1>5. reached' \in [Ledgers -> SUBSET Hashes] /\ held' \subseteq Ledgers
  BY <1>1, <1>2 DEF all
<1>6. ASSUME NEW q \in Ledgers PROVE IsFiniteSet(reached'[q])
  <2>1. IsFiniteSet(reached[s] \cup now)
    <3>1. CASE now = {}
      BY <3>1
    <3>2. CASE \E h \in Hashes : now = {h}
      BY <3>2, FS_AddElement
    <3>3. QED
      BY <3>1, <3>2
  <2>2. QED
    BY <1>1, <2>1, FS_EmptySet
<1>7. QED
  BY <1>4, <1>5, <1>6

-------------------------------------------------------------------------------
(* What the choice reads, and what it may name *)

\* Our hashes are of ledgers landed, and the tally was told no others; a
\* witness is the network's hash too.
MadeAsTold ==
  /\ \A s \in Ledgers : s > landed => made[s] = None
  /\ \A s \in Ledgers : own[s] \in {None, made[s]}
  /\ \A s \in Ledgers : witnessed[s] # None => witnessed[s] = made[s] /\ made[s] = Net[s]
  /\ judged # None => landed \in Ledgers /\ judged = made[landed]
  /\ \A s \in Ledgers : IsFiniteSet(reached[s])

\* QuorumOn(s) is the one hash that reached the quorum, if just one did.
LEMMA QuorumOnIs ==
  ASSUME TypeOK, MadeAsTold, NEW s \in Ledgers
  PROVE  /\ QuorumOn(s) \in Hashes \cup {None}
         /\ QuorumOn(s) # None => reached[s] = {QuorumOn(s)}
         /\ \A h \in Hashes : reached[s] = {h} => QuorumOn(s) = h
<1>1. reached[s] \subseteq Hashes /\ IsFiniteSet(reached[s])
  BY DEF TypeOK, MadeAsTold
<1>2. Cardinality(reached[s]) = 1 <=> \E h : reached[s] = {h}
  BY <1>1, FS_Singleton
<1>3. CASE Cardinality(reached[s]) = 1
  <2>1. PICK h : reached[s] = {h}
    BY <1>2, <1>3
  <2>2. QuorumOn(s) = h
    BY <1>3, <2>1 DEF QuorumOn
  <2>3. QED
    BY <1>1, <2>1, <2>2
<1>4. CASE Cardinality(reached[s]) # 1
  BY <1>2, <1>4 DEF QuorumOn
<1>5. QED
  BY <1>3, <1>4

\* next_own_to_sign as a table.
LEMMA OwnChoiceIs ==
  ASSUME TypeOK, NEW s \in Ledgers, NEW newest, NEW breaker \in BOOLEAN, NEW c,
         c = OwnChoice(s, newest, breaker)
  PROVE  LET fallback == IF breaker /\ QuorumOn(s) # None THEN On("Quorum", QuorumOn(s)) ELSE Pass
             ours     == own[s] \in Hashes
         IN \/ /\ own[s] = None
               /\ c = Wait \/ (breaker /\ c = fallback)
            \/ /\ own[s] = Borrowed
               /\ c = fallback
            \/ /\ ours /\ QuorumOn(s) = own[s]
               /\ c = On("Own", own[s])
            \/ /\ ours /\ QuorumOn(s) # own[s] /\ reached[s] # {}
               /\ c = fallback
            \/ /\ ours /\ reached[s] = {} /\ witnessed[s] # own[s]
               /\ c = Pass
            \/ /\ ours /\ reached[s] = {} /\ witnessed[s] = own[s]
               /\ c = IF UseWitness THEN On("Witness", own[s]) ELSE Wait
<1> DEFINE stalled  == Known(own) = {} \/ newest > Newest(Known(own)) + STALL
           fallback == IF breaker /\ QuorumOn(s) # None THEN On("Quorum", QuorumOn(s)) ELSE Pass
           atHash   == IF QuorumOn(s) = own[s] THEN On("Own", own[s])
                       ELSE IF reached[s] # {} THEN fallback
                       ELSE IF witnessed[s] # own[s] THEN Pass
                       ELSE IF UseWitness THEN On("Witness", own[s]) ELSE Wait
           atNone   == IF breaker /\ stalled THEN fallback ELSE Wait
<1>1. /\ own[s] \in Hashes \cup {None, Borrowed} /\ None \notin Hashes /\ Borrowed \notin Hashes
      /\ Borrowed # None /\ UseWitness \in BOOLEAN
  BY SigningConstants DEF TypeOK
<1>2. c = CASE own[s] = None -> atNone [] own[s] = Borrowed -> fallback [] own[s] \in Hashes -> atHash
  BY Zenon DEF OwnChoice
<1> HIDE DEF atNone, atHash, fallback
<1>3. CASE own[s] = None
  <2>1. own[s] # Borrowed /\ own[s] \notin Hashes
    BY <1>1, <1>3
  <2>2. c = atNone
    BY <1>2, <1>3, <2>1, Zenon
  <2>3. QED
    BY <1>3, <2>2 DEF atNone, fallback
<1>4. CASE own[s] = Borrowed
  <2>1. own[s] # None /\ own[s] \notin Hashes
    BY <1>1, <1>4
  <2>2. c = fallback
    BY <1>2, <1>4, <2>1, Zenon
  <2>3. QED
    BY <1>4, <2>2 DEF fallback
<1>5. CASE own[s] \in Hashes
  <2>1. own[s] # None /\ own[s] # Borrowed
    BY <1>1, <1>5
  <2>2. c = atHash
    BY <1>2, <1>5, <2>1, Zenon
  <2>3. QED
    BY <1>1, <1>5, <2>2 DEF atHash, fallback
<1>6. QED
  BY <1>1, <1>3, <1>4, <1>5

\* What is named to be signed: a hash no quorum here contradicts, and one said
\* to be ours is the one our engine made.
LEMMA ChoiceIs ==
  ASSUME TypeOK, MadeAsTold, NEW s \in Ledgers, NEW breaker \in BOOLEAN, breaker => MayBreak,
         NEW c, c = Choice(s, breaker), c # Pass, c # Wait
  PROVE  /\ c.basis \in {"Quorum", "Witness", "Own"} /\ c.hash \in Hashes
         /\ reached[s] \subseteq {c.hash}
         /\ c.basis \in {"Own", "Witness"} => c.hash = made[s]
         /\ c.basis = "Witness" => c.hash = Net[s]
         /\ mode = "own" => c.basis # "Quorum"
<1>1. \A b, h : On(b, h).basis = b /\ On(b, h).hash = h
  BY DEF On
<1>2. /\ QuorumOn(s) \in Hashes \cup {None} /\ None \notin Hashes
      /\ QuorumOn(s) # None => reached[s] = {QuorumOn(s)}
  BY QuorumOnIs, SigningConstants
<1>3. /\ own[s] \in {None, made[s]} /\ witnessed[s] \in Hashes \cup {None}
      /\ witnessed[s] # None => witnessed[s] = made[s] /\ made[s] = Net[s]
  BY DEF TypeOK, MadeAsTold
<1>4. CASE SignsOwn
  <2>1. c = OwnChoice(s, NewestSeen, breaker)
    BY <1>4 DEF Choice
  <2>2. mode = "own" => ~breaker
    BY DEF MayBreak
  <2>3. \/ breaker /\ QuorumOn(s) # None /\ c = On("Quorum", QuorumOn(s))
        \/ own[s] \in Hashes /\ QuorumOn(s) = own[s] /\ c = On("Own", own[s])
        \/ own[s] \in Hashes /\ reached[s] = {} /\ witnessed[s] = own[s] /\ c = On("Witness", own[s])
    BY <2>1, OwnChoiceIs
  <2>4. CASE breaker /\ QuorumOn(s) # None /\ c = On("Quorum", QuorumOn(s))
    <3>1. c.basis = "Quorum" /\ c.hash = QuorumOn(s) /\ mode # "own"
      BY <1>1, <2>2, <2>4
    <3>2. QED
      BY <1>2, <2>4, <3>1
  <2>5. CASE own[s] \in Hashes /\ QuorumOn(s) = own[s] /\ c = On("Own", own[s])
    BY <1>1, <1>2, <1>3, <2>5
  <2>6. CASE own[s] \in Hashes /\ reached[s] = {} /\ witnessed[s] = own[s] /\ c = On("Witness", own[s])
    BY <1>1, <1>2, <1>3, <2>6
  <2>7. QED
    BY <2>3, <2>4, <2>5, <2>6
<1>5. CASE ~SignsOwn
  <2>0. mode # "own"
    BY <1>5 DEF SignsOwn
  <2>1. c = QuorumChoice(s, NewestSeen)
    BY <1>5 DEF Choice
  <2>2. \/ QuorumOn(s) # None /\ c = On("Quorum", QuorumOn(s))
        \/ witnessed[s] # None /\ reached[s] \subseteq {witnessed[s]} /\ c = On("Witness", witnessed[s])
    BY <2>1 DEF QuorumChoice
  <2>3. CASE QuorumOn(s) # None /\ c = On("Quorum", QuorumOn(s))
    BY <1>1, <1>2, <2>0, <2>3
  <2>4. CASE witnessed[s] # None /\ reached[s] \subseteq {witnessed[s]} /\ c = On("Witness", witnessed[s])
    BY <1>1, <1>3, <2>4
  <2>5. QED
    BY <2>2, <2>3, <2>4
<1>6. QED
  BY <1>4, <1>5

\* The newest sequence seen is at least any heard or witnessed, and ours when that counts.
LEMMA NewestSeenIs ==
  ASSUME TypeOK
  PROVE  /\ NewestSeen \in 0 .. MaxSeq
         /\ \A s \in Ledgers : witnessed[s] # None => s <= NewestSeen
<1> DEFINE S == HeardOrWitnessed \cup (IF SignsOwn THEN Known(own) ELSE {})
<1>1. S \in SUBSET Ledgers /\ MaxSeq \in Nat
  BY SigningConstants DEF TypeOK, HeardOrWitnessed, Known
<1>2. NewestSeen = IF S = {} THEN 0 ELSE Newest(S)
  BY DEF NewestSeen
<1>3. \A s \in Ledgers : witnessed[s] # None => s \in S
  BY DEF HeardOrWitnessed, Known
<1> HIDE DEF S
<1>4. CASE S = {}
  BY <1>1, <1>2, <1>3, <1>4
<1>5. CASE S # {}
  BY <1>1, <1>2, <1>3, <1>5, NewestIs DEF Ledgers
<1>6. QED
  BY <1>4, <1>5

\* The ledger the scan stops at comes after the last one looked at, and those
\* of the window before it are passed over because there is nothing to sign.
LEMMA StopsAtIs ==
  ASSUME TypeOK, NEW breaker \in BOOLEAN, NEW stop, stop = StopsAt(breaker), stop # None
  PROVE  /\ stop \in Ledgers /\ From \in Nat /\ From > last_validated_seq
         /\ From <= stop /\ stop <= NewestSeen /\ Choice(stop, breaker) # Pass
         /\ \A s \in Ledgers : From <= s /\ s < stop => Choice(s, breaker) = Pass
<1> DEFINE S == {s \in Ledgers : From <= s /\ s <= NewestSeen /\ Choice(s, breaker) # Pass}
<1>1. /\ NewestSeen \in 0 .. MaxSeq /\ last_validated_seq \in 0 .. MaxSeq /\ MaxSeq \in Nat
      /\ GIVE_UP \in Nat /\ CATCH_UP \in Nat
  BY NewestSeenIs, SigningConstants DEF TypeOK
<1>2. Known(own) # {} => Newest(Known(own)) \in Nat
  <2>1. Known(own) \in SUBSET Ledgers
    BY DEF Known
  <2>2. QED
    BY <2>1, NewestIs, LedgersFinite
<1>3. From \in Nat /\ From > last_validated_seq
  BY <1>1, <1>2 DEF From, WindowFrom, Larger
<1>4. S \in SUBSET Ledgers /\ S # {} /\ stop = Oldest(S)
  BY DEF StopsAt, FirstOf
<1>5. stop \in S /\ \A t \in S : stop <= t
  BY <1>4, OldestIs
<1>6. ASSUME NEW s \in Ledgers, From <= s, s < stop PROVE Choice(s, breaker) = Pass
  <2>1. s \in Nat /\ stop \in Nat /\ stop <= NewestSeen
    BY <1>5, LedgersFinite
  <2>2. s <= NewestSeen /\ ~ (stop <= s)
    BY <1>1, <1>6, <2>1
  <2>3. QED
    BY <1>5, <1>6, <2>2
<1>7. QED
  BY <1>3, <1>5, <1>6

-------------------------------------------------------------------------------
(* A signature *)

\* The loop looks at ledger s and may sign r, which is for it.
LooksAt(s, r) ==
  /\ r \in Record /\ r.seq = s /\ r.start = starts
  /\ s > last_validated_seq /\ last_validated_seq' = s
  /\ signed' \in {signed, Append(signed, r)}
  /\ UNCHANGED <<viewVars, landVars, mode, starts>>

\* No quorum contradicts r, and a hash said to be ours is.
Rightly(r) ==
  /\ r.basis # "Verified" /\ reached[r.seq] \subseteq {r.hash}
  /\ r.basis \in {"Own", "Witness"} => r.hash = made[r.seq]
  /\ r.basis = "Witness" => r.hash = Net[r.seq]
  /\ mode = "own" => r.basis # "Quorum"

\* On a validation it is what the choice names.
LEMMA ValidationSigns ==
  ASSUME TypeOK, MadeAsTold, OnValidation
  PROVE  \E s \in Ledgers, r \in Record : LooksAt(s, r) /\ Rightly(r)
<1>1. PICK breaker \in {FALSE, MayBreak} :
        LET s == StopsAt(breaker)
        IN s # None /\ Choice(s, breaker) # Wait
             /\ Signs(s, Choice(s, breaker).hash, Choice(s, breaker).basis)
  BY DEF OnValidation
<1> DEFINE s == StopsAt(breaker)
           c == Choice(s, breaker)
           r == [seq |-> s, hash |-> c.hash, basis |-> c.basis, start |-> starts]
<1>2. breaker \in BOOLEAN /\ (breaker => MayBreak)
  BY DEF MayBreak
<1>3. /\ s \in Ledgers /\ From \in Nat /\ From > last_validated_seq /\ From <= s /\ c # Pass
  BY <1>1, <1>2, StopsAtIs
<1>4. /\ c.basis \in {"Quorum", "Witness", "Own"} /\ c.hash \in Hashes
      /\ reached[s] \subseteq {c.hash}
      /\ c.basis \in {"Own", "Witness"} => c.hash = made[s]
      /\ c.basis = "Witness" => c.hash = Net[s]
      /\ mode = "own" => c.basis # "Quorum"
  BY <1>1, <1>2, <1>3, ChoiceIs
<1>5. /\ last_validated_seq' = s
      /\ signed' = signed \/ signed' = Append(signed, r)
  BY <1>1 DEF Signs
<1>6. UNCHANGED <<viewVars, landVars, mode, starts>>
  BY DEF OnValidation
<1> HIDE DEF s, c
<1>7. r \in Record /\ r.seq = s /\ r.start = starts /\ r.hash = c.hash /\ r.basis = c.basis
  BY <1>3, <1>4 DEF TypeOK, Record
<1>8. s > last_validated_seq
  BY <1>3, LedgersFinite DEF TypeOK
<1> HIDE DEF r
<1>9. LooksAt(s, r)
  BY <1>5, <1>6, <1>7, <1>8 DEF LooksAt
<1>10. Rightly(r)
  BY <1>4, <1>7 DEF Rightly
<1>11. QED
  BY <1>3, <1>7, <1>9, <1>10

\* When a peer announces a ledger it is the hash announced, if any.
LEMMA AcceptedSigns ==
  ASSUME TypeOK, OnAccepted
  PROVE  \E s \in Ledgers, r \in Record : LooksAt(s, r) /\ r.basis = "Verified"
<1>1. PICK s \in Ledgers, h \in Hashes \cup {None} :
        /\ s > last_validated_seq
        /\ IF h = None THEN last_validated_seq' = s /\ UNCHANGED signed ELSE Signs(s, h, "Verified")
  BY DEF OnAccepted
<1> DEFINE r == [seq |-> s, hash |-> IF h = None THEN Net[s] ELSE h, basis |-> "Verified", start |-> starts]
<1>2. r \in Record /\ r.seq = s /\ r.start = starts /\ r.basis = "Verified"
  BY SigningConstants DEF TypeOK, Record
<1>3. last_validated_seq' = s /\ (signed' = signed \/ signed' = Append(signed, r))
  BY <1>1 DEF Signs
<1>4. UNCHANGED <<viewVars, landVars, mode, starts>>
  BY DEF OnAccepted
<1> HIDE DEF r
<1>5. LooksAt(s, r)
  BY <1>1, <1>2, <1>3, <1>4 DEF LooksAt
<1>6. QED
  BY <1>2, <1>5

-------------------------------------------------------------------------------
(* Types, and what was told *)

\* The initial state has every type.
LEMMA TypeInit == Init => TypeOK /\ MadeAsTold
<1> SUFFICES ASSUME Init PROVE TypeOK /\ MadeAsTold
  OBVIOUS
<1> USE DEF Init, ViewInit, NothingYet
<1>1. Known(witnessed) = {} /\ Known(own) = {} /\ held = {}
  BY DEF Known
<1>2. \A S \in {held, Known(witnessed), Known(own)} : Cardinality(S) <= KEEP
  <2>1. Cardinality({}) <= KEEP
    BY FS_EmptySet, SigningConstants
  <2>2. QED
    BY <1>1, <2>1
<1>3. /\ landed \in 0 .. LandsTo /\ last_validated_seq \in 0 .. MaxSeq /\ starts \in 0 .. MaxStarts
      /\ signed \in Seq(Record)
  BY SigningConstants
<1>4. TypeOK
  BY <1>2, <1>3 DEF TypeOK
<1>5. MadeAsTold
  BY FS_EmptySet DEF MadeAsTold
<1>6. QED
  BY <1>4, <1>5

\* Every step keeps every type, and what the tally was told.
LEMMA TypeStep ==
  ASSUME TypeOK, MadeAsTold, [Next]_vars
  PROVE  TypeOK' /\ MadeAsTold'
<1>0. /\ MaxSeq \in Nat /\ LandsTo \in 0 .. MaxSeq /\ MaxStarts \in Nat /\ KEEP \in Nat
      /\ None \notin Hashes /\ Borrowed \notin Hashes /\ Borrowed # None
  BY SigningConstants
<1> USE DEF TypeOK
<1>1. CASE Hears
  <2>1. PICK s \in Ledgers, now \in {{}} \cup {{h} : h \in Hashes} : Hear(s, now)
    BY <1>1 DEF Hears, Heard
  <2>2. /\ held' \subseteq Ledgers /\ Cardinality(held') <= KEEP
        /\ reached' \in [Ledgers -> SUBSET Hashes]
        /\ \A q \in Ledgers : IsFiniteSet(reached'[q])
    BY <2>1, HearIs DEF MadeAsTold
  <2>3. UNCHANGED <<landVars, signVars, mode, starts>>
    BY <1>1 DEF Hears
  <2>4. Known(witnessed)' = Known(witnessed) /\ Known(own)' = Known(own)
    BY <2>3 DEF Known, landVars
  <2>5. TypeOK'
    BY <2>2, <2>3, <2>4 DEF landVars, signVars
  <2>6. MadeAsTold'
    BY <2>2, <2>3 DEF MadeAsTold, landVars
  <2>7. QED
    BY <2>5, <2>6
<1>2. CASE Land
  <2>1. PICK whole \in BOOLEAN, ours \in Hashes :
          /\ judged' = IF whole /\ prev THEN ours ELSE Borrowed
          /\ prev' = (ours = Net[landed'])
          /\ witnessed' = IF whole /\ prev /\ ours = Net[landed']
                            THEN Kept([witnessed EXCEPT ![landed'] = ours]) ELSE witnessed
    BY <1>2 DEF Land
  <2>2. /\ landed < LandsTo /\ landed' = landed + 1 /\ judged = None
        /\ made' = [made EXCEPT ![landed'] = judged']
        /\ UNCHANGED <<held, reached, last_validated_seq, signed, own, mode, starts>>
    BY <1>2 DEF Land, viewVars, signVars
  <2>3. landed' \in 0 .. LandsTo /\ landed' \in Ledgers /\ landed' > landed /\ landed' \in Nat
    BY <1>0, <2>2 DEF Ledgers
  <2>4. judged' \in Hashes \cup {Borrowed}
    BY <2>1
  <2>5. made' \in [Ledgers -> Hashes \cup {None, Borrowed}] /\ made'[landed'] = judged'
        /\ \A s \in Ledgers : s # landed' => made'[s] = made[s]
    BY <2>2, <2>3, <2>4
  <2>6. made[landed'] = None /\ own[landed'] = None /\ witnessed[landed'] = None
    BY <1>0, <2>3 DEF MadeAsTold
  <2>7. /\ witnessed' \in [Ledgers -> Hashes \cup {None}] /\ Cardinality(Known(witnessed')) <= KEEP
        /\ \A s \in Ledgers : witnessed'[s] # None => witnessed'[s] = made'[s] /\ made'[s] = Net[s]
    <3>1. CASE whole /\ prev /\ ours = Net[landed']
      <4>1. witnessed' = Kept([witnessed EXCEPT ![landed'] = ours]) /\ judged' = ours
        BY <2>1, <3>1
      <4>2. /\ witnessed' \in [Ledgers -> Hashes \cup {None}] /\ Cardinality(Known(witnessed')) <= KEEP
            /\ \A q \in Ledgers : witnessed'[q] \in {IF q = landed' THEN ours ELSE witnessed[q], None}
        <5>1. /\ witnessed \in [Ledgers -> Hashes \cup {None}] /\ Cardinality(Known(witnessed)) <= KEEP
              /\ None \in Hashes \cup {None} /\ ours \in Hashes \cup {None}
          OBVIOUS
        <5> DEFINE e == [witnessed EXCEPT ![landed'] = ours]
        <5>2. /\ e \in [Ledgers -> Hashes \cup {None}] /\ e[landed'] = ours /\ witnessed' = Kept(e)
              /\ \A q \in Ledgers : q # landed' => e[q] = witnessed[q]
          BY <2>3, <4>1, <5>1
        <5> HIDE DEF e
        <5>3. /\ Kept(e) \in [Ledgers -> Hash] /\ Cardinality(Known(Kept(e))) <= KEEP
              /\ \A q \in Ledgers : Kept(e)[q] \in {e[q], None}
          BY <2>3, <5>1, <5>2, KeptIs DEF Hash
        <5>4. QED
          BY <2>3, <5>2, <5>3 DEF Hash
      <4>3. QED
        BY <2>5, <3>1, <4>1, <4>2 DEF MadeAsTold
    <3>2. CASE ~ (whole /\ prev /\ ours = Net[landed'])
      BY <2>1, <2>5, <2>6, <3>2 DEF MadeAsTold
    <3>3. QED
      BY <3>1, <3>2
  <2>8. Known(witnessed)' = Known(witnessed') /\ Known(own)' = Known(own)
    BY <2>2 DEF Known
  <2>9. TypeOK'
    BY <2>1, <2>2, <2>3, <2>4, <2>5, <2>7, <2>8
  <2>10. \A s \in Ledgers : s > landed' => made'[s] = None
    <3>1. ASSUME NEW s \in Ledgers, s > landed' PROVE s # landed' /\ s > landed
      BY <2>2, <2>3, <3>1, LedgersFinite
    <3>2. QED
      BY <2>5, <3>1 DEF MadeAsTold
  <2>11. \A s \in Ledgers : own'[s] \in {None, made'[s]}
    BY <2>2, <2>5, <2>6 DEF MadeAsTold
  <2>12. MadeAsTold'
    BY <2>2, <2>3, <2>5, <2>7, <2>10, <2>11 DEF MadeAsTold
  <2>13. QED
    BY <2>9, <2>12
<1>3. CASE OwnLedger
  <2>1. /\ judged # None /\ judged' = None /\ own' = Kept([own EXCEPT ![landed] = judged])
        /\ UNCHANGED <<held, reached, last_validated_seq, signed, landed, prev, witnessed, made, mode, starts>>
    BY <1>3 DEF OwnLedger, viewVars, signVars
  <2>2. landed \in Ledgers /\ judged = made[landed]
    BY <2>1 DEF MadeAsTold
  <2>3. /\ own' \in [Ledgers -> Hashes \cup {None, Borrowed}] /\ Cardinality(Known(own')) <= KEEP
        /\ \A q \in Ledgers : own'[q] \in {IF q = landed THEN judged ELSE own[q], None}
    <3>1. /\ own \in [Ledgers -> Hashes \cup {None, Borrowed}] /\ Cardinality(Known(own)) <= KEEP
          /\ None \in Hashes \cup {None, Borrowed} /\ judged \in Hashes \cup {None, Borrowed}
      OBVIOUS
    <3> DEFINE e == [own EXCEPT ![landed] = judged]
    <3>2. /\ e \in [Ledgers -> Hashes \cup {None, Borrowed}] /\ e[landed] = judged /\ own' = Kept(e)
          /\ \A q \in Ledgers : q # landed => e[q] = own[q]
      BY <2>1, <2>2, <3>1
    <3> HIDE DEF e
    <3>3. /\ Kept(e) \in [Ledgers -> Hash] /\ Cardinality(Known(Kept(e))) <= KEEP
          /\ \A q \in Ledgers : Kept(e)[q] \in {e[q], None}
      BY <2>2, <3>1, <3>2, KeptIs DEF Hash
    <3>4. QED
      BY <2>2, <3>2, <3>3 DEF Hash
  <2>4. Known(own)' = Known(own') /\ Known(witnessed)' = Known(witnessed)
    BY <2>1 DEF Known
  <2>5. TypeOK'
    BY <2>1, <2>3, <2>4
  <2>6. MadeAsTold'
    BY <2>1, <2>2, <2>3 DEF MadeAsTold
  <2>7. QED
    BY <2>5, <2>6
<1>4. ASSUME NEW s \in Ledgers, NEW r \in Record, LooksAt(s, r) PROVE TypeOK' /\ MadeAsTold'
  <2>1. UNCHANGED <<held, reached, landed, judged, prev, witnessed, own, made, mode, starts>>
    BY <1>4 DEF LooksAt, viewVars, landVars
  <2>2. last_validated_seq' \in 0 .. MaxSeq /\ signed' \in Seq(Record)
    <3>1. s \in 0 .. MaxSeq
      BY <1>0 DEF Ledgers
    <3>2. Append(signed, r) \in Seq(Record)
      OBVIOUS
    <3>3. QED
      BY <1>4, <3>1, <3>2 DEF LooksAt
  <2>3. Known(own)' = Known(own) /\ Known(witnessed)' = Known(witnessed)
    BY <2>1 DEF Known
  <2>4. TypeOK'
    BY <2>1, <2>2, <2>3
  <2>5. MadeAsTold'
    BY <2>1 DEF MadeAsTold
  <2>6. QED
    BY <2>4, <2>5
<1>5. CASE OnValidation
  BY <1>4, <1>5, ValidationSigns
<1>6. CASE OnAccepted
  BY <1>4, <1>6, AcceptedSigns
<1>7. CASE Restart
  <2>1. /\ held' = {} /\ reached' = [s \in Ledgers |-> {}] /\ starts < MaxStarts /\ starts' = starts + 1
        /\ witnessed' = NothingYet /\ own' = NothingYet /\ made' = NothingYet
        /\ judged' = None /\ prev' = FALSE /\ last_validated_seq' = 0
        /\ mode' \in Modes /\ UNCHANGED <<landed, signed>>
    BY <1>7 DEF Restart
  <2>2. /\ Known(witnessed)' = {} /\ Known(own)' = {}
        /\ NothingYet \in [Ledgers -> Hashes \cup {None}]
        /\ NothingYet \in [Ledgers -> Hashes \cup {None, Borrowed}]
        /\ \A s \in Ledgers : NothingYet[s] = None
    BY <2>1 DEF Known, NothingYet
  <2>3. \A S \in {held', Known(witnessed)', Known(own)'} : Cardinality(S) <= KEEP
    <3>1. Cardinality({}) <= KEEP
      BY <1>0, FS_EmptySet
    <3>2. QED
      BY <2>1, <2>2, <3>1
  <2>4. starts' \in 0 .. MaxStarts /\ 0 \in 0 .. MaxSeq
    BY <1>0, <2>1
  <2>5. TypeOK'
    BY <2>1, <2>2, <2>3, <2>4
  <2>6. MadeAsTold'
    BY <2>1, <2>2, FS_EmptySet DEF MadeAsTold
  <2>7. QED
    BY <2>5, <2>6
<1>8. CASE UNCHANGED vars
  <2>1. UNCHANGED <<held, reached, landed, judged, prev, witnessed, own, made, last_validated_seq, signed, mode, starts>>
    BY <1>8 DEF vars, viewVars, landVars, signVars
  <2>2. Known(own)' = Known(own) /\ Known(witnessed)' = Known(witnessed)
    BY <2>1 DEF Known
  <2>3. QED
    BY <2>1, <2>2 DEF MadeAsTold
<1>9. QED
  BY <1>1, <1>2, <1>3, <1>5, <1>6, <1>7, <1>8 DEF Next

\* In every behaviour the variables keep their types, and each decision is as the choice made it.
LEMMA TypeHolds == Spec => [](TypeOK /\ MadeAsTold)
<1>1. QED
  BY TypeInit, TypeStep, PTL DEF Spec

\* Every variable keeps its type: what is held is never more than KEEP ledgers, a signature is for
\* a ledger of the chain and one of its hashes (quorum.rs, live_viewer.rs).
THEOREM TypeCorrect == Spec => []TypeOK
<1>1. QED
  BY TypeHolds, PTL

-------------------------------------------------------------------------------
(* The order of the signatures *)

\* The signatures of this start are of ledgers looked at; one on our own hash
\* is of a ledger landed, and if it is of an earlier start, of one landed before
\* all that were made since.
SignedInOrder ==
  \A i \in 1 .. Len(signed) :
    /\ signed[i].start <= starts
    /\ signed[i].start = starts => signed[i].seq <= last_validated_seq
    /\ signed[i].basis \in {"Own", "Witness"} =>
         /\ signed[i].seq <= landed
         /\ signed[i].start < starts => \A s \in Ledgers : made[s] # None => signed[i].seq < s

\* A signature is a record of naturals.
LEMMA SignedTypes ==
  ASSUME TypeOK
  PROVE  /\ Len(signed) \in Nat /\ landed \in Nat /\ starts \in Nat /\ last_validated_seq \in Nat
         /\ \A i \in 1 .. Len(signed) : /\ signed[i].seq \in Nat /\ signed[i].seq \in Ledgers
                                        /\ signed[i].start \in Nat
<1>1. MaxSeq \in Nat /\ LandsTo \in Nat /\ MaxStarts \in Nat
  BY SigningConstants
<1>2. signed \in Seq(Record) /\ \A r \in Record : r.seq \in Ledgers /\ r.start \in 0 .. MaxStarts
  BY DEF TypeOK, Record
<1>3. Len(signed) \in Nat /\ \A i \in 1 .. Len(signed) : signed[i] \in Record
  BY <1>2
<1>4. landed \in Nat /\ starts \in Nat /\ last_validated_seq \in Nat
  BY <1>1 DEF TypeOK
<1>5. ASSUME NEW r \in Record PROVE r.seq \in Nat /\ r.start \in Nat
  <2>1. r.seq \in Ledgers /\ r.start \in 0 .. MaxStarts
    BY <1>2
  <2>2. QED
    BY <1>1, <2>1 DEF Ledgers
<1>6. QED
  BY <1>2, <1>3, <1>4, <1>5

\* Signing in order of the ledgers keeps the signatures in order.
LEMMA LookStays ==
  ASSUME TypeOK, MadeAsTold, SignedInOrder, SignsForward,
         NEW s \in Ledgers, NEW r \in Record, LooksAt(s, r),
         r.basis \in {"Own", "Witness"} => made[s] # None
  PROVE  SignedInOrder' /\ SignsForward'
<1>1. /\ s \in Nat /\ s > last_validated_seq /\ last_validated_seq' = s /\ r.seq = s /\ r.start = starts
      /\ UNCHANGED <<landed, made, starts>>
      /\ signed' = signed \/ signed' = Append(signed, r)
  BY LedgersFinite DEF LooksAt, landVars
<1>2. /\ Len(signed) \in Nat /\ landed \in Nat /\ starts \in Nat /\ last_validated_seq \in Nat
      /\ \A i \in 1 .. Len(signed) : signed[i].seq \in Nat /\ signed[i].start \in Nat
  BY SignedTypes
<1>3. r.basis \in {"Own", "Witness"} => s <= landed
  BY <1>1, <1>2 DEF MadeAsTold
<1>4. ASSUME NEW i \in 1 .. Len(signed)
      PROVE  /\ signed[i].start = starts => signed[i].seq < s
             /\ {signed[i].basis, r.basis} \subseteq {"Own", "Witness"} => signed[i].seq < s
  <2>1. signed[i].start = starts => signed[i].seq < s
    BY <1>1, <1>2 DEF SignedInOrder
  <2>2. ASSUME signed[i].basis \in {"Own", "Witness"}, r.basis \in {"Own", "Witness"}, signed[i].start # starts
        PROVE  signed[i].seq < s
    <3>1. signed[i].start < starts
      BY <1>2, <2>2 DEF SignedInOrder
    <3>2. QED
      BY <2>2, <3>1 DEF SignedInOrder
  <2>3. QED
    BY <2>1, <2>2
<1>5. CASE signed' = signed
  <2>1. SignedInOrder'
    <3>1. ASSUME NEW i \in 1 .. Len(signed), signed[i].start = starts PROVE signed[i].seq <= last_validated_seq'
      BY <1>1, <1>2, <1>4, <3>1
    <3>2. QED
      BY <1>1, <1>5, <3>1 DEF SignedInOrder
  <2>2. SignsForward'
    BY <1>5 DEF SignsForward
  <2>3. QED
    BY <2>1, <2>2
<1>6. CASE signed' = Append(signed, r)
  <2>1. signed \in Seq(Record)
    BY DEF TypeOK
  <2>2. /\ Len(signed') = Len(signed) + 1 /\ signed'[Len(signed) + 1] = r
        /\ \A i \in 1 .. Len(signed) : signed'[i] = signed[i]
    BY <1>6, <2>1
  <2>3. SignedInOrder'
    <3>1. ASSUME NEW i \in 1 .. Len(signed')
          PROVE  /\ signed'[i].start <= starts
                 /\ signed'[i].start = starts => signed'[i].seq <= s
                 /\ signed'[i].basis \in {"Own", "Witness"} =>
                      /\ signed'[i].seq <= landed
                      /\ signed'[i].start < starts => \A q \in Ledgers : made[q] # None => signed'[i].seq < q
      <4>1. CASE i \in 1 .. Len(signed)
        <5>1. signed'[i] = signed[i] /\ signed[i].seq \in Nat
          BY <1>2, <2>2, <4>1
        <5>2. signed[i].start = starts => signed[i].seq <= s
          BY <1>1, <1>4, <4>1, <5>1
        <5>3. QED
          BY <4>1, <5>1, <5>2 DEF SignedInOrder
      <4>2. CASE i = Len(signed) + 1
        <5>1. signed'[i] = r
          BY <2>2, <4>2
        <5>2. QED
          BY <1>1, <1>2, <1>3, <5>1
      <4>3. QED
        BY <1>2, <2>2, <4>1, <4>2
    <3>2. QED
      BY <1>1, <3>1 DEF SignedInOrder
  <2>4. SignsForward'
    <3>1. ASSUME NEW i \in 1 .. Len(signed'), NEW j \in 1 .. Len(signed'), i < j,
                 \/ signed'[i].start = signed'[j].start
                 \/ {signed'[i].basis, signed'[j].basis} \subseteq {"Own", "Witness"}
          PROVE  signed'[i].seq < signed'[j].seq
      <4>1. i \in 1 .. Len(signed) /\ signed'[i] = signed[i]
        BY <1>2, <2>2, <3>1
      <4>2. CASE j \in 1 .. Len(signed)
        BY <2>2, <3>1, <4>1, <4>2 DEF SignsForward
      <4>3. CASE j = Len(signed) + 1
        <5>1. signed'[j] = r
          BY <2>2, <4>3
        <5>2. QED
          BY <1>1, <1>4, <3>1, <4>1, <5>1
      <4>4. QED
        BY <1>2, <2>2, <4>2, <4>3
    <3>2. QED
      BY <3>1 DEF SignsForward
  <2>5. QED
    BY <2>3, <2>4
<1>7. QED
  BY <1>1, <1>5, <1>6

\* Every step keeps what is signed in order, and signs only forward.
LEMMA OrderStep ==
  ASSUME TypeOK, MadeAsTold, SignedInOrder, SignsForward, [Next]_vars
  PROVE  SignedInOrder' /\ SignsForward'
<1>0. /\ Len(signed) \in Nat /\ landed \in Nat /\ starts \in Nat /\ last_validated_seq \in Nat
      /\ \A i \in 1 .. Len(signed) : signed[i].seq \in Nat /\ signed[i].start \in Nat
  BY SignedTypes
<1>1. CASE Hears
  BY <1>1 DEF Hears, landVars, signVars, SignedInOrder, SignsForward
<1>2. CASE Land
  <2>1. /\ landed' = landed + 1 /\ made' = [made EXCEPT ![landed'] = judged']
        /\ UNCHANGED <<last_validated_seq, signed, starts>>
    BY <1>2 DEF Land, signVars
  <2>2. ASSUME NEW i \in 1 .. Len(signed), signed[i].basis \in {"Own", "Witness"}
        PROVE  /\ signed[i].seq <= landed'
               /\ signed[i].start < starts => \A s \in Ledgers : made'[s] # None => signed[i].seq < s
    <3>1. signed[i].seq <= landed /\ signed[i].seq < landed'
      BY <1>0, <2>1, <2>2 DEF SignedInOrder
    <3>2. ASSUME NEW s \in Ledgers, made'[s] # None, signed[i].start < starts PROVE signed[i].seq < s
      <4>1. CASE s = landed'
        BY <3>1, <4>1
      <4>2. CASE s # landed'
        <5>1. made[s] # None
          BY <2>1, <3>2, <4>2 DEF TypeOK
        <5>2. QED
          BY <2>2, <3>2, <5>1 DEF SignedInOrder
      <4>3. QED
        BY <4>1, <4>2
    <3>3. QED
      BY <1>0, <2>1, <3>1, <3>2
  <2>3. SignedInOrder'
    BY <2>1, <2>2 DEF SignedInOrder
  <2>4. SignsForward'
    BY <2>1 DEF SignsForward
  <2>5. QED
    BY <2>3, <2>4
<1>3. CASE OwnLedger
  BY <1>3 DEF OwnLedger, signVars, SignedInOrder, SignsForward
<1>4. CASE OnValidation
  <2>1. PICK s \in Ledgers, r \in Record : LooksAt(s, r) /\ Rightly(r)
    BY <1>4, ValidationSigns
  <2>2. r.basis \in {"Own", "Witness"} => made[s] # None
    BY <2>1, SigningConstants DEF LooksAt, Rightly, Record
  <2>3. QED
    BY <2>1, <2>2, LookStays
<1>5. CASE OnAccepted
  <2>1. PICK s \in Ledgers, r \in Record : LooksAt(s, r) /\ r.basis = "Verified"
    BY <1>5, AcceptedSigns
  <2>2. QED
    BY <2>1, LookStays
<1>6. CASE Restart
  <2>1. /\ starts' = starts + 1 /\ made' = NothingYet /\ last_validated_seq' = 0
        /\ UNCHANGED <<landed, signed>>
    BY <1>6 DEF Restart
  <2>2. ASSUME NEW i \in 1 .. Len(signed)
        PROVE  signed[i].start <= starts' /\ signed[i].start # starts'
    BY <1>0, <2>1 DEF SignedInOrder
  <2>3. \A s \in Ledgers : made'[s] = None
    BY <2>1 DEF NothingYet
  <2>4. SignedInOrder'
    BY <2>1, <2>2, <2>3 DEF SignedInOrder
  <2>5. SignsForward'
    BY <2>1 DEF SignsForward
  <2>6. QED
    BY <2>4, <2>5
<1>7. CASE UNCHANGED vars
  BY <1>7 DEF vars, landVars, signVars, SignedInOrder, SignsForward
<1>8. QED
  BY <1>1, <1>2, <1>3, <1>4, <1>5, <1>6, <1>7 DEF Next

\* Never an older ledger after a newer one, nor the same twice: not in one
\* process and, where our engine's hash is behind both, not across restarts
\* (last_validated_seq, next_own_to_sign).
THEOREM NeverSignsBack == Spec => []SignsForward
<1>1. Init => SignedInOrder /\ SignsForward
  BY DEF Init, SignedInOrder, SignsForward
<1>2. TypeOK /\ MadeAsTold /\ SignedInOrder /\ SignsForward /\ [Next]_vars => SignedInOrder' /\ SignsForward'
  BY OrderStep
<1>3. QED
  BY TypeHolds, <1>1, <1>2, PTL DEF Spec

-------------------------------------------------------------------------------
(* What is signed, and what is passed over *)

\* Of a step that signs, the signature is the one the loop looked at.
LEMMA LatestIs ==
  ASSUME TypeOK, NEW s \in Ledgers, NEW r \in Record, LooksAt(s, r), NewSignature
  PROVE  Latest = r /\ Latest.seq = s
<1>1. signed \in Seq(Record) /\ Len(signed) \in Nat
  BY DEF TypeOK
<1>2. signed' = Append(signed, r)
  BY <1>1 DEF LooksAt, NewSignature
<1>3. QED
  BY <1>1, <1>2 DEF Latest, LooksAt

\* Every step signs only what its mode allows.
LEMMA SignsRightStep ==
  ASSUME TypeOK, MadeAsTold, [Next]_vars, NewSignature
  PROVE  /\ Latest.basis = "Verified" \/ reached[Latest.seq] \subseteq {Latest.hash}
         /\ Latest.basis \in {"Own", "Witness"} => Latest.hash = made[Latest.seq]
         /\ Latest.basis = "Witness" => Latest.hash = Net[Latest.seq]
         /\ mode = "own" => Latest.basis # "Quorum"
<1>1. signed' # signed
  BY DEF NewSignature, TypeOK
<1>2. CASE OnValidation
  <2>1. PICK s \in Ledgers, r \in Record : LooksAt(s, r) /\ Rightly(r)
    BY <1>2, ValidationSigns
  <2>2. Latest = r
    BY <2>1, LatestIs
  <2>3. QED
    BY <2>1, <2>2 DEF Rightly
<1>3. CASE OnAccepted
  <2>1. PICK s \in Ledgers, r \in Record : LooksAt(s, r) /\ r.basis = "Verified"
    BY <1>3, AcceptedSigns
  <2>2. Latest = r
    BY <2>1, LatestIs
  <2>3. QED
    BY <2>1, <2>2
<1>4. QED
  BY <1>1, <1>2, <1>3 DEF Next, vars, Hears, Land, OwnLedger, Restart, signVars

\* A hash signed is one no quorum here contradicts, and one said to be our own
\* is the one our engine made with no part borrowed (next_to_sign, next_own_to_sign).
THEOREM NeverSignsWrong == Spec => SignsRight
<1>1. TypeOK /\ MadeAsTold /\ [Next]_vars =>
        [NewSignature => \/ Latest.basis = "Verified"
                         \/ reached[Latest.seq] \subseteq {Latest.hash}]_vars
  BY SignsRightStep
<1>2. TypeOK /\ MadeAsTold /\ [Next]_vars =>
        [NewSignature =>
           /\ Latest.basis \in {"Own", "Witness"} => Latest.hash = made[Latest.seq]
           /\ Latest.basis = "Witness" => Latest.hash = Net[Latest.seq]
           /\ mode = "own" => Latest.basis # "Quorum"]_vars
  BY SignsRightStep
<1>3. QED
  BY TypeHolds, <1>1, <1>2, PTL DEF Spec, SignsRight, NeverAgainstQuorum, OwnSignsItsOwn

\* A witness the map let go is KEEP behind one it still has.
WitnessKept ==
  KEEP > 0 => \A s \in Ledgers : made[s] = Net[s] /\ witnessed[s] = None =>
                \E t \in Ledgers : witnessed[t] # None /\ t >= s + KEEP

\* Every step keeps the witness of each ledger that is past the window.
LEMMA WitnessStep ==
  ASSUME TypeOK, MadeAsTold, WitnessKept, [Next]_vars
  PROVE  WitnessKept'
<1>0. /\ KEEP \in Nat /\ \A s \in Ledgers : Net[s] \in Hashes /\ Net[s] # None /\ Net[s] # Borrowed
      /\ Ledgers \subseteq Nat
  BY SigningConstants, LedgersFinite
<1>1. CASE UNCHANGED <<made, witnessed>>
  BY <1>1 DEF WitnessKept
<1>2. CASE Restart
  BY <1>0, <1>2 DEF Restart, NothingYet, WitnessKept
<1>3. CASE Land
  <2>1. PICK whole \in BOOLEAN, ours \in Hashes :
          /\ judged' = IF whole /\ prev THEN ours ELSE Borrowed
          /\ witnessed' = IF whole /\ prev /\ ours = Net[landed']
                            THEN Kept([witnessed EXCEPT ![landed'] = ours]) ELSE witnessed
    BY <1>3 DEF Land
  <2>2. landed < LandsTo /\ landed' = landed + 1 /\ made' = [made EXCEPT ![landed'] = judged']
    BY <1>3 DEF Land
  <2>3. landed' \in Ledgers /\ landed' > landed
    BY <2>2, SigningConstants DEF TypeOK, Ledgers
  <2>4. made'[landed'] = judged' /\ \A s \in Ledgers : s # landed' => made'[s] = made[s]
    BY <2>2, <2>3 DEF TypeOK
  <2>5. made[landed'] = None /\ witnessed[landed'] = None
    BY <1>0, <2>3 DEF MadeAsTold
  <2>6. CASE ~ (whole /\ prev /\ ours = Net[landed'])
    <3>1. witnessed' = witnessed /\ made'[landed'] # Net[landed']
      BY <1>0, <2>1, <2>3, <2>4, <2>6
    <3>2. QED
      BY <2>4, <3>1 DEF WitnessKept
  <2>7. CASE whole /\ prev /\ ours = Net[landed']
    <3> DEFINE e == [witnessed EXCEPT ![landed'] = ours]
    <3>1. /\ witnessed \in [Ledgers -> Hash] /\ e \in [Ledgers -> Hash] /\ Cardinality(Known(witnessed)) <= KEEP
          /\ \A q \in Ledgers : q # landed' => e[q] = witnessed[q]
          /\ e[landed'] = ours /\ witnessed' = Kept(e)
      BY <2>1, <2>3, <2>7 DEF TypeOK, Hash
    <3> HIDE DEF e
    <3>2. \A q \in Ledgers : Kept(e)[q] = None /\ e[q] # None =>
            \E t \in Ledgers : e[t] # None /\ t >= q + KEEP /\ (KEEP > 0 => Kept(e)[t] # None)
      BY <2>3, <3>1, KeptIs DEF Hash
    <3>3. ASSUME KEEP > 0, NEW s \in Ledgers, made'[s] = Net[s], witnessed'[s] = None
          PROVE  \E t \in Ledgers : witnessed'[t] # None /\ t >= s + KEEP
      <4>1. CASE e[s] # None
        BY <3>1, <3>2, <3>3, <4>1
      <4>2. CASE e[s] = None
        <5>1. s # landed' /\ made[s] = Net[s] /\ witnessed[s] = None
          BY <1>0, <2>3, <2>4, <2>7, <3>1, <3>3, <4>2
        <5>2. PICK t \in Ledgers : witnessed[t] # None /\ t >= s + KEEP
          BY <3>3, <5>1 DEF WitnessKept
        <5>3. e[t] # None
          BY <2>5, <3>1, <5>2
        <5>4. CASE Kept(e)[t] # None
          BY <3>1, <5>2, <5>4
        <5>5. CASE Kept(e)[t] = None
          <6>1. PICK u \in Ledgers : u >= t + KEEP /\ Kept(e)[u] # None
            BY <3>2, <3>3, <5>3, <5>5
          <6>2. u >= s + KEEP
            BY <1>0, <5>2, <6>1
          <6>3. QED
            BY <3>1, <6>1, <6>2
        <5>6. QED
          BY <5>4, <5>5
      <4>3. QED
        BY <4>1, <4>2
    <3>4. QED
      BY <3>3 DEF WitnessKept
  <2>8. QED
    BY <2>6, <2>7
<1>4. QED
  BY <1>1, <1>2, <1>3 DEF Next, Hears, OwnLedger, OnValidation, OnAccepted, landVars, vars

\* What is in the window has not been let go, and is not before the scan's start.
LEMMA InWindowIs ==
  ASSUME TypeOK, MadeAsTold, WitnessKept, NEW s \in Ledgers, s > last_validated_seq, InWindow(s),
         s <= NewestSeen, made[s] = Net[s]
  PROVE  From <= s /\ witnessed[s] = made[s] /\ witnessed[s] # None
<1>1. /\ NewestSeen \in Nat /\ last_validated_seq \in Nat /\ s \in Nat
      /\ GIVE_UP \in Nat /\ CATCH_UP \in Nat /\ KEEP \in Nat /\ KEEP >= CATCH_UP + GIVE_UP
      /\ Net[s] # None
  BY NewestSeenIs, SigningConstants, LedgersFinite DEF TypeOK
<1>2. Known(own) # {} => Newest(Known(own)) \in Nat
  <2>1. Known(own) \in SUBSET Ledgers
    BY DEF Known
  <2>2. QED
    BY <2>1, NewestIs, LedgersFinite
<1>3. \/ s > NewestSeen - GIVE_UP
      \/ /\ Known(own) # {} /\ NewestSeen <= Newest(Known(own)) + CATCH_UP
         /\ s > Newest(Known(own)) - GIVE_UP
  BY DEF InWindow
<1>4. From <= s
  BY <1>1, <1>2, <1>3 DEF From, WindowFrom, Larger
<1>5. ASSUME witnessed[s] = None PROVE FALSE
  <2>1. NewestSeen < s + KEEP
    BY <1>1, <1>2, <1>3
  <2>2. KEEP > 0
    BY <1>1, <2>1
  <2>3. PICK t \in Ledgers : witnessed[t] # None /\ t >= s + KEEP
    BY <1>5, <2>2 DEF WitnessKept
  <2>4. t \in Nat /\ t <= NewestSeen
    BY <2>3, NewestSeenIs, LedgersFinite
  <2>5. QED
    BY <1>1, <2>1, <2>3, <2>4
<1>6. QED
  BY <1>1, <1>4, <1>5 DEF MadeAsTold

\* A ledger made right that no quorum contradicts is not one to pass.
LEMMA NotPassed ==
  ASSUME TypeOK, MadeAsTold, NEW s \in Ledgers, NEW breaker \in BOOLEAN, breaker => MayBreak,
         Choice(s, breaker) = Pass,
         made[s] = Net[s], witnessed[s] = made[s], witnessed[s] # None, reached[s] \subseteq {made[s]},
         mode # "announce"
  PROVE  (mode = "quorum" /\ ~UseWitness) \/ (MayBreak /\ own[s] = None)
<1>1. \A h : On("Quorum", h) # Pass /\ On("Own", h) # Pass /\ On("Witness", h) # Pass
  <2>1. Pass.basis = "pass" /\ \A b, h : On(b, h).basis = b
    BY DEF On, Pass
  <2>2. QED
    BY <2>1
<1>2. Wait # Pass
  BY DEF Wait, Pass
<1>3. /\ own[s] \in {None, made[s]} /\ made[s] \in Hashes /\ made[s] # None /\ made[s] # Borrowed
      /\ mode \in {"quorum", "own", "breaker"}
  BY SigningConstants DEF TypeOK, MadeAsTold
<1>4. CASE SignsOwn
  <2>1. Pass = OwnChoice(s, NewestSeen, breaker)
    BY <1>4 DEF Choice
  <2>2. own[s] # Borrowed
    BY <1>3, SigningConstants
  <2>3. CASE own[s] = None
    <3>1. own[s] \notin Hashes
      BY <2>3, SigningConstants
    <3>2. breaker
      BY <1>2, <2>1, <2>2, <3>1, OwnChoiceIs
    <3>3. QED
      BY <2>3, <3>2
  <2>4. CASE own[s] \in Hashes
    <3>1. own[s] # None /\ own[s] = made[s]
      BY <1>3, <2>4, SigningConstants
    <3>2. reached[s] # {} /\ QuorumOn(s) # own[s]
      BY <1>1, <1>2, <2>1, <2>2, <2>4, <3>1, OwnChoiceIs
    <3>3. reached[s] = {own[s]}
      BY <3>1, <3>2
    <3>4. QED
      BY <2>4, <3>2, <3>3, QuorumOnIs
  <2>5. QED
    BY <1>3, <2>3, <2>4
<1>5. CASE ~SignsOwn
  <2>1. Pass = QuorumChoice(s, NewestSeen) /\ UseWitness \in BOOLEAN
    BY <1>5, SigningConstants DEF Choice
  <2>2. mode = "quorum"
    BY <1>3, <1>5 DEF SignsOwn
  <2>3. UseWitness => FALSE
    <3>1. reached[s] \subseteq {witnessed[s]}
      OBVIOUS
    <3>2. QED
      BY <1>1, <2>1, <3>1 DEF QuorumChoice
  <2>4. QED
    BY <2>1, <2>2, <2>3
<1>6. QED
  BY <1>4, <1>5

\* Every step passes over no ledger that could still be signed.
LEMMA PassesStep ==
  ASSUME TypeOK, MadeAsTold, WitnessKept, [Next]_vars,
         NEW s \in last_validated_seq + 1 .. last_validated_seq' - 1
  PROVE  mode = "announce" \/ ~InWindow(s) \/ made[s] # Net[s] \/ ~(reached[s] \subseteq {made[s]})
         \/ (mode = "quorum" /\ ~UseWitness) \/ (MayBreak /\ own[s] = None)
<1>1. last_validated_seq \in Nat /\ last_validated_seq \in 0 .. MaxSeq /\ MaxSeq \in Nat
  BY SigningConstants DEF TypeOK
<1>2. CASE OnAccepted
  BY <1>2 DEF OnAccepted
<1>3. CASE OnValidation
  <2>1. PICK breaker \in {FALSE, MayBreak} :
          StopsAt(breaker) # None /\ last_validated_seq' = StopsAt(breaker) /\ mode # "announce"
    BY <1>3 DEF OnValidation, Signs
  <2> DEFINE stop == StopsAt(breaker)
  <2>2. breaker \in BOOLEAN /\ (breaker => MayBreak)
    BY DEF MayBreak
  <2>3. /\ stop \in Ledgers /\ stop <= NewestSeen
        /\ \A q \in Ledgers : From <= q /\ q < stop => Choice(q, breaker) = Pass
    BY <2>1, <2>2, StopsAtIs
  <2>4. /\ NewestSeen \in Nat /\ stop \in Nat /\ stop <= MaxSeq
    BY <1>1, <2>3, NewestSeenIs DEF Ledgers
  <2> HIDE DEF stop
  <2>5. last_validated_seq' = stop
    BY <2>1 DEF stop
  <2>6. s \in Nat /\ s > last_validated_seq /\ s < stop /\ s <= NewestSeen /\ s \in Ledgers
    BY <1>1, <2>3, <2>4, <2>5 DEF Ledgers
  <2>7. SUFFICES ASSUME InWindow(s), made[s] = Net[s], reached[s] \subseteq {made[s]}
                 PROVE  (mode = "quorum" /\ ~UseWitness) \/ (MayBreak /\ own[s] = None)
    OBVIOUS
  <2>8. From <= s /\ witnessed[s] = made[s] /\ witnessed[s] # None
    BY <2>6, <2>7, InWindowIs
  <2>9. Choice(s, breaker) = Pass
    BY <2>3, <2>6, <2>8
  <2>10. QED
    BY <2>1, <2>2, <2>6, <2>7, <2>8, <2>9, NotPassed
<1>4. CASE Restart
  BY <1>1, <1>4 DEF Restart
<1>5. CASE UNCHANGED last_validated_seq
  BY <1>1, <1>5
<1>6. QED
  BY <1>2, <1>3, <1>4, <1>5 DEF Next, Hears, Land, OwnLedger, vars, signVars

\* A ledger of the window that our engine made right, and no quorum here
\* contradicts, is not passed over for a newer one, not even between the two calls
\* that tell the tally of it (next_own_to_sign, note_witness, own_ledger).
THEOREM PassesNoneOver == Spec => NeverPassesOver
<1>1. Init => WitnessKept
  BY SigningConstants DEF Init, NothingYet, WitnessKept
<1>2. TypeOK /\ MadeAsTold /\ WitnessKept /\ [Next]_vars => WitnessKept'
  BY WitnessStep
<1>3. TypeOK /\ MadeAsTold /\ WitnessKept /\ [Next]_vars =>
        [\A s \in last_validated_seq + 1 .. last_validated_seq' - 1 :
           mode = "announce" \/ ~InWindow(s) \/ made[s] # Net[s] \/ ~(reached[s] \subseteq {made[s]})
           \/ (mode = "quorum" /\ ~UseWitness) \/ (MayBreak /\ own[s] = None)]_vars
  BY PassesStep
<1>4. QED
  BY TypeHolds, <1>1, <1>2, <1>3, PTL DEF Spec, NeverPassesOver
=================================================================================
