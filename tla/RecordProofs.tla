------------------------------ MODULE RecordProofs ------------------------------
(* Theorems about the validator's two records of its own work, for every bound: the days counted
   as signed with its own hash, and the lines of the consensus rounds. *)
EXTENDS ConsensusRecord, SignedDays, Integers, FiniteSetTheorems, SequenceTheorems, WellFoundedInduction, TLAPS

\* A set of natural numbers has a least one.
LEMMA LeastNatural ==
  ASSUME NEW S \in SUBSET Nat, S # {}
  PROVE  \E s \in S : \A t \in S : s <= t
<1>1. PICK s \in S : \A t \in S : ~ (<<t, s>> \in OpToRel(<, Nat))
  BY NatLessThanWellFounded, WFMin
<1>2. ASSUME NEW t \in S PROVE s <= t
  <2>1. s \in Nat /\ t \in Nat /\ ~ (t < s)
    BY <1>1 DEF OpToRel
  <2>2. QED
    BY <2>1
<1>3. QED
  BY <1>2

\* The least and the greatest of some numbers below a bound.
LEMMA Extremes ==
  ASSUME NEW S, NEW m \in Nat, S \subseteq 0 .. m, S # {}
  PROVE  /\ Min(S) \in S /\ \A t \in S : Min(S) <= t
         /\ Max(S) \in S /\ \A t \in S : t <= Max(S)
<1>1. S \in SUBSET Nat /\ \A s \in S : s <= m /\ s \in Nat
  OBVIOUS
<1>2. \E s \in S : \A t \in S : s <= t
  BY <1>1, LeastNatural
<1>3. \E s \in S : \A t \in S : s >= t
  <2> DEFINE D == {m - s : s \in S}
  <2>1. D \in SUBSET Nat /\ D # {}
    <3>1. \A s \in S : m - s \in Nat
      BY <1>1
    <3>2. QED
      BY <3>1
  <2>2. PICK d \in D : \A e \in D : d <= e
    BY <2>1, LeastNatural
  <2>3. PICK s \in S : d = m - s
    OBVIOUS
  <2>4. \A t \in S : m - s <= m - t
    BY <2>2, <2>3
  <2>5. \A t \in S : s >= t
    <3> SUFFICES ASSUME NEW t \in S PROVE s >= t
      OBVIOUS
    <3>1. s \in Nat /\ t \in Nat /\ m - s <= m - t
      BY <1>1, <2>4
    <3>2. QED
      BY <3>1
  <2>6. QED
    BY <2>5
<1>4. Min(S) \in S /\ \A t \in S : Min(S) <= t
  BY <1>2 DEF Min
<1>5. Max(S) \in S /\ \A t \in S : Max(S) >= t
  BY <1>3 DEF Max
<1>6. QED
  BY <1>1, <1>4, <1>5

\* Of two numbers.
LEMMA OfTwo ==
  ASSUME NEW a \in Nat, NEW b \in Nat
  PROVE  /\ Min({a, b}) = IF a <= b THEN a ELSE b
         /\ Max({a, b}) = IF a <= b THEN b ELSE a
<1>1. PICK m \in Nat : a <= m /\ b <= m
  <2>1. a + b \in Nat /\ a <= a + b /\ b <= a + b
    OBVIOUS
  <2>2. QED
    BY <2>1
<1>2. {a, b} \subseteq 0 .. m /\ {a, b} # {}
  BY <1>1
<1>3. /\ Min({a, b}) \in {a, b} /\ \A t \in {a, b} : Min({a, b}) <= t
      /\ Max({a, b}) \in {a, b} /\ \A t \in {a, b} : t <= Max({a, b})
  BY <1>2, Extremes
<1>4. QED
  BY <1>3

-------------------------------------------------------------------------------
(* What a day's tally says of the day *)

DayTallies == [signed : Nat, own : Nat, borrowed : Nat, first : Nat, last : Nat, order_on : BOOLEAN, peers : BOOLEAN]

\* The tally r tells what was signed, s.
Tells(r, s) ==
  /\ r.signed = Cardinality(s.signed) /\ r.borrowed = Cardinality(s.signed \ s.own)
  /\ s.signed # {}
  /\ r.first \in s.signed /\ r.last \in s.signed
  /\ \A x \in s.signed : r.first <= x /\ x <= r.last
  /\ (r.order_on /\ r.peers) <=> s.off = {}

\* What is noted of a day: ledgers decided by now.
NotedOf(s, next) ==
  /\ s.signed \subseteq 1 .. next - 1 /\ s.own \subseteq s.signed /\ s.off \subseteq s.signed

SaidAfter(s, own) ==
  [signed |-> s.signed \cup {ledger}, own |-> IF own THEN s.own \cup {ledger} ELSE s.own,
   off |-> IF order /\ source THEN s.off ELSE s.off \cup {ledger}]

\* One more signature, told as the ones before.
LEMMA TalliedTells ==
  ASSUME ledger \in Nat \ {0}, order \in BOOLEAN, source \in BOOLEAN, NEW own \in BOOLEAN,
         NEW s, NotedOf(s, ledger), NEW r \in DayTallies, Tells(r, s)
  PROVE  Tells(Tallied(r, ledger, own), SaidAfter(s, own))
<1> DEFINE S == s.signed  B == s.signed \ s.own  t == Tallied(r, ledger, own)  u == SaidAfter(s, own)
<1>1. S \subseteq 1 .. ledger - 1 /\ ledger \notin S /\ s.own \subseteq S /\ s.off \subseteq S
  BY DEF NotedOf
<1>2. IsFiniteSet(S) /\ IsFiniteSet(B)
  <2>1. IsFiniteSet(1 .. ledger - 1)
    BY FS_Interval
  <2>2. B \subseteq S
    OBVIOUS
  <2>3. QED
    BY <1>1, <2>1, <2>2, FS_Subset
<1>3. Cardinality(S \cup {ledger}) = Cardinality(S) + 1 /\ Cardinality(B \cup {ledger}) = Cardinality(B) + 1
  <2>1. ASSUME NEW T, IsFiniteSet(T), T \subseteq S PROVE Cardinality(T \cup {ledger}) = Cardinality(T) + 1
    <3>1. ledger \notin T
      BY <1>1, <2>1
    <3>2. QED
      BY <2>1, <3>1, FS_AddElement
  <2>2. S \subseteq S /\ B \subseteq S
    OBVIOUS
  <2> HIDE DEF S, B
  <2>3. QED
    BY <1>2, <2>1, <2>2
<1>4. /\ u.signed = S \cup {ledger} /\ u.own = (IF own THEN s.own \cup {ledger} ELSE s.own)
      /\ u.off = (IF order /\ source THEN s.off ELSE s.off \cup {ledger})
  <2>1. u.signed = S \cup {ledger}
    BY DEF SaidAfter
  <2>2. u.own = (IF own THEN s.own \cup {ledger} ELSE s.own)
    BY DEF SaidAfter
  <2>3. u.off = (IF order /\ source THEN s.off ELSE s.off \cup {ledger})
    BY DEF SaidAfter
  <2>4. QED
    BY <2>1, <2>2, <2>3
<1>5. /\ t.signed = r.signed + 1 /\ t.borrowed = (IF own THEN r.borrowed ELSE r.borrowed + 1)
      /\ t.first = Min({r.first, ledger}) /\ t.last = Max({r.last, ledger})
      /\ t.order_on = (r.order_on /\ order) /\ t.peers = (r.peers /\ source)
  BY DEF Tallied
<1>6. /\ r.signed = Cardinality(S) /\ r.borrowed = Cardinality(B)
      /\ r.first \in S /\ r.last \in S /\ r.first \in Nat /\ r.last \in Nat
      /\ \A x \in S : r.first <= x /\ x <= r.last
      /\ (r.order_on /\ r.peers) <=> s.off = {}
  <2>1. r.first \in Nat /\ r.last \in Nat
    BY DEF DayTallies
  <2>2. QED
    BY <2>1 DEF Tells
<1>7. t.first = r.first /\ t.last = ledger
  <2>1. r.first < ledger /\ r.last < ledger /\ ledger \in Nat
    BY <1>1, <1>6
  <2>2. /\ Min({r.first, ledger}) = IF r.first <= ledger THEN r.first ELSE ledger
        /\ Max({r.last, ledger}) = IF r.last <= ledger THEN ledger ELSE r.last
    BY <1>6, <2>1, OfTwo
  <2>3. t.first = Min({r.first, ledger}) /\ t.last = Max({r.last, ledger})
    BY <1>5
  <2> HIDE DEF t
  <2>4. QED
    BY <1>6, <2>1, <2>2, <2>3
<1> HIDE DEF S, B, t, u
<1>8. u.signed \ u.own = IF own THEN B ELSE B \cup {ledger}
  BY <1>1, <1>4 DEF B, S
<1>9. t.signed = Cardinality(u.signed) /\ t.borrowed = Cardinality(u.signed \ u.own)
  BY <1>3, <1>4, <1>5, <1>6, <1>8
<1>10. \A x \in u.signed : t.first <= x /\ x <= t.last
  <2>1. \A x \in S : x \in Int /\ x <= ledger
    BY <1>1
  <2>2. r.first <= ledger /\ ledger \in Int
    BY <1>6, <2>1
  <2>3. QED
    BY <1>4, <1>6, <1>7, <2>1, <2>2
<1>11. (t.order_on /\ t.peers) <=> u.off = {}
  BY <1>4, <1>5, <1>6
<1>12. QED
  BY <1>4, <1>6, <1>7, <1>9, <1>10, <1>11 DEF Tells, t, u

\* And the first one of a day.
LEMMA FirstTells ==
  ASSUME ledger \in Nat \ {0}, order \in BOOLEAN, source \in BOOLEAN, NEW own \in BOOLEAN,
         NEW s, NotedOf(s, ledger), s.signed = {}
  PROVE  Tells(Tallied(NewDay(ledger), ledger, own), SaidAfter(s, own))
<1> DEFINE t == Tallied(NewDay(ledger), ledger, own)  u == SaidAfter(s, own)
<1>1. s.own = {} /\ s.off = {}
  BY DEF NotedOf
<1>2. /\ u.signed = {ledger} /\ u.own = (IF own THEN {ledger} ELSE {})
      /\ u.off = (IF order /\ source THEN {} ELSE {ledger})
  BY <1>1 DEF SaidAfter
<1>3. /\ t.signed = 1 /\ t.borrowed = (IF own THEN 0 ELSE 1)
      /\ t.first = ledger /\ t.last = ledger
      /\ t.order_on = (order /\ order) /\ t.peers = (source /\ source)
  <2>1. Min({ledger, ledger}) = ledger /\ Max({ledger, ledger}) = ledger
    BY OfTwo
  <2>2. QED
    BY <2>1 DEF Tallied, NewDay
<1>4. Cardinality({ledger}) = 1 /\ Cardinality({}) = 0
  BY FS_Singleton, FS_EmptySet
<1> HIDE DEF t, u
<1>5. u.signed \ u.own = IF own THEN {} ELSE {ledger}
  BY <1>2
<1>6. QED
  BY <1>2, <1>3, <1>4, <1>5 DEF Tells, t, u

\* A tally stays a tally.
LEMMA TalliedType ==
  ASSUME ledger \in Nat \ {0}, order \in BOOLEAN, source \in BOOLEAN, NEW own \in BOOLEAN, NEW r \in DayTallies
  PROVE  /\ Tallied(r, ledger, own) \in DayTallies /\ NewDay(ledger) \in DayTallies
         /\ Tallied(r, ledger, own).signed = r.signed + 1
<1>1. Min({r.first, ledger}) \in Nat /\ Max({r.last, ledger}) \in Nat
  <2>1. r.first \in Nat /\ r.last \in Nat
    BY DEF DayTallies
  <2>2. QED
    BY <2>1, OfTwo
<1>2. QED
  BY <1>1 DEF Tallied, NewDay, DayTallies

-------------------------------------------------------------------------------
(* What holds in every state *)

\* What f notes of day d, as far as the ledgers K tell it.
Of(f, d, K) == [signed |-> f[d].signed \cap K, own |-> f[d].own \cap K, off |-> f[d].off \cap K]

\* On day t the tallies D tell what f notes of the ledgers K: of every day, but for those dropped for
\* their age when there were KEEP_DAYS of later ones.
Holds(D, K, f, t) ==
  /\ DOMAIN D \subseteq 1 .. t /\ Cardinality(DOMAIN D) <= KEEP_DAYS
  /\ \A d \in DOMAIN D : D[d] \in DayTallies /\ Of(f, d, K).signed # {} /\ Tells(D[d], Of(f, d, K))
  /\ \A d \in 1 .. t : (Of(f, d, K).signed # {} /\ d \notin DOMAIN D) =>
       (Cardinality(DOMAIN D) = KEEP_DAYS /\ \A x \in DOMAIN D : x > d)

Clocks ==
  /\ today \in 1 .. MaxDay /\ ledger \in Nat \ {0} /\ order \in BOOLEAN /\ source \in BOOLEAN
  /\ since_save \in Nat /\ since_save < SAVE_EVERY

Sayings ==
  /\ said = [d \in 1 .. MaxDay |-> said[d]]
  /\ \A d \in 1 .. MaxDay : NotedOf(said[d], ledger) /\ (d > today => said[d].signed = {})

\* Every ledger signed so far.
Signatures(f, t) == UNION {f[d].signed : d \in 1 .. t}

\* What is lost with the stops and the writes so far, and what the next stop would add to it.
Lost == stops * (SAVE_EVERY - 1) + unsaved * SAVE_EVERY
Losses ==
  /\ stops \in Nat /\ unsaved \in Nat /\ known \subseteq 1 .. ledger - 1 /\ filed \subseteq 1 .. ledger - 1
  /\ ~ unread =>
       /\ Cardinality(Signatures(said, today) \ known) <= Lost
       /\ Cardinality(Signatures(said, today) \ filed) <= Lost + since_save
       /\ unsaved = 0 => DOMAIN on_disk = DOMAIN live

DaysInv == Clocks /\ Sayings /\ Holds(live, known, said, today) /\ Holds(on_disk, filed, said, today) /\ Losses

\* The tallies hold when what is noted of their ledgers is the same, and nothing of a later day.
LEMMA SameHolds ==
  ASSUME NEW D, NEW K, NEW f, NEW g, NEW t \in Nat, NEW u \in Nat, t <= u, Holds(D, K, f, t),
         \A d \in 1 .. t : Of(g, d, K) = Of(f, d, K),
         \A d \in 1 .. u : d \notin 1 .. t => Of(g, d, K).signed = {}
  PROVE  Holds(D, K, g, u)
<1>1. 1 .. t \subseteq 1 .. u /\ DOMAIN D \subseteq 1 .. t
  BY DEF Holds
<1>2. \A d \in DOMAIN D : D[d] \in DayTallies /\ Of(g, d, K).signed # {} /\ Tells(D[d], Of(g, d, K))
  BY <1>1 DEF Holds
<1>3. \A d \in 1 .. u : (Of(g, d, K).signed # {} /\ d \notin DOMAIN D) =>
        (Cardinality(DOMAIN D) = KEEP_DAYS /\ \A x \in DOMAIN D : x > d)
  BY DEF Holds
<1>4. QED
  BY <1>1, <1>2, <1>3 DEF Holds

\* No tallies hold of no ledgers.
LEMMA EmptyHolds ==
  ASSUME NEW f, NEW t
  PROVE  Holds(<<>>, {}, f, t)
<1>1. DOMAIN <<>> = {} /\ Cardinality({}) = 0
  BY FS_EmptySet
<1>2. \A d \in 1 .. t : Of(f, d, {}).signed = {}
  BY DEF Of
<1>3. Cardinality(DOMAIN <<>>) <= KEEP_DAYS
  BY <1>1, DaysConstants
<1>4. QED
  BY <1>1, <1>2, <1>3 DEF Holds

\* It holds at the start.
LEMMA FirstDay == DaysInit => DaysInv
<1> SUFFICES ASSUME DaysInit PROVE DaysInv
  OBVIOUS
<1> USE DEF DaysInit
<1>1. Clocks
  BY DaysConstants DEF Clocks
<1>2. \A d \in 1 .. MaxDay : said[d].signed = {} /\ said[d].own = {} /\ said[d].off = {}
  OBVIOUS
<1>3. Sayings
  BY <1>2 DEF Sayings, NotedOf
<1>4. Holds(live, known, said, today) /\ Holds(on_disk, filed, said, today)
  BY EmptyHolds
<1>5. Losses
  <2>1. Signatures(said, today) = {}
    BY <1>1, <1>2 DEF Signatures, Clocks
  <2>2. Lost = 0
    <3>1. stops = 0 /\ unsaved = 0 /\ SAVE_EVERY \in Int
      BY DaysConstants
    <3>2. QED
      BY <3>1 DEF Lost
  <2>3. Cardinality(Signatures(said, today) \ known) = 0 /\ Cardinality(Signatures(said, today) \ filed) = 0
    BY <2>1, FS_EmptySet
  <2>4. QED
    BY <2>2, <2>3 DEF Losses
<1>6. QED
  BY <1>1, <1>3, <1>4, <1>5 DEF DaysInv

\* The days kept after a signature: today's among them, and one fewer of the old ones when there were
\* KEEP_DAYS of them without today's.
LEMMA DaysAfter ==
  ASSUME DaysInv, NEW own \in BOOLEAN
  PROVE  LET L == SignedOn(live, today, ledger, own)
             t == Tallied(IF today \in DOMAIN live THEN live[today] ELSE NewDay(ledger), ledger, own) IN
         /\ today \in DOMAIN L /\ L[today] = t
         /\ DOMAIN L \subseteq DOMAIN live \cup {today}
         /\ \A d \in DOMAIN L : d # today => d \in DOMAIN live /\ L[d] = live[d]
         /\ Cardinality(DOMAIN L) <= KEEP_DAYS
         /\ today \in DOMAIN live => DOMAIN L = DOMAIN live
         /\ \A d \in DOMAIN live : d \notin DOMAIN L => \A x \in DOMAIN L : x > d
         /\ (DOMAIN live \ DOMAIN L # {} \/ Cardinality(DOMAIN live) = KEEP_DAYS) => Cardinality(DOMAIN L) = KEEP_DAYS
<1> DEFINE t == Tallied(IF today \in DOMAIN live THEN live[today] ELSE NewDay(ledger), ledger, own)
           K == DOMAIN live
           E == K \cup {today}
           M == [x \in E |-> IF x = today THEN t ELSE live[x]]
           L == SignedOn(live, today, ledger, own)
<1>1. /\ K \subseteq 1 .. today /\ Cardinality(K) <= KEEP_DAYS /\ IsFiniteSet(K) /\ Cardinality(K) \in Nat
      /\ today \in Nat /\ KEEP_DAYS \in Nat \ {0}
  <2>1. K \subseteq 1 .. today /\ Cardinality(K) <= KEEP_DAYS /\ today \in Nat
    BY DEF DaysInv, Holds, Clocks
  <2>2. IsFiniteSet(K)
    <3>1. IsFiniteSet(1 .. today)
      BY <2>1, FS_Interval
    <3>2. QED
      BY <2>1, <3>1, FS_Subset
  <2>3. QED
    BY <2>1, <2>2, FS_CardinalityType, DaysConstants
<1>2. L = IF Cardinality(E) > KEEP_DAYS THEN Restrict(M, E \ {Min(E)}) ELSE M
  <2>1. L = Oldest([x \in E |-> IF x = today THEN Tallied(IF today \in DOMAIN live THEN live[today] ELSE NewDay(ledger), ledger, own)
                                 ELSE live[x]])
    BY DEF SignedOn
  <2>2. L = Oldest(M)
    BY <2>1
  <2>3. DOMAIN M = E
    OBVIOUS
  <2>4. QED
    BY <2>2, <2>3 DEF Oldest
<1>3. DOMAIN M = E /\ \A x \in E : M[x] = IF x = today THEN t ELSE live[x]
  OBVIOUS
<1>4. /\ today \in E
      /\ today \in K => E = K
      /\ E = K \cup {today}
  OBVIOUS
<1>5. /\ IsFiniteSet(E) /\ Cardinality(E) \in Nat
      /\ today \notin K => Cardinality(E) = Cardinality(K) + 1
      /\ today \in K => Cardinality(E) = Cardinality(K)
  <2>1. IsFiniteSet(E) /\ (today \notin K => Cardinality(E) = Cardinality(K) + 1)
    BY <1>1, FS_AddElement
  <2>2. today \in K => Cardinality(E) = Cardinality(K)
    <3>1. CASE today \in K
      <4>1. E = K
        BY <3>1
      <4>2. QED
        BY ONLY <4>1
    <3>2. QED
      BY <3>1
  <2>3. QED
    BY <2>1, <2>2, FS_CardinalityType
<1> HIDE DEF t, K, E, M, L
<1>6. CASE ~ (Cardinality(E) > KEEP_DAYS)
  <2>1. L = M
    BY <1>2, <1>6
  <2>2. DOMAIN L = E /\ \A x \in E : L[x] = IF x = today THEN t ELSE live[x]
    BY <1>3, <2>1
  <2>3. Cardinality(E) <= KEEP_DAYS
    BY <1>1, <1>5, <1>6
  <2>4. Cardinality(K) = KEEP_DAYS => Cardinality(E) = KEEP_DAYS
    BY <1>1, <1>4, <1>5, <2>3
  <2>5. QED
    BY <1>4, <2>2, <2>3, <2>4 DEF K, t, L
<1>7. CASE Cardinality(E) > KEEP_DAYS
  <2> DEFINE m == Min(E)
  <2>1. today \notin K /\ Cardinality(K) = KEEP_DAYS /\ Cardinality(E) = KEEP_DAYS + 1
    BY <1>1, <1>4, <1>5, <1>7
  <2>2. K # {}
    BY <1>1, <2>1, FS_EmptySet
  <2>3. m \in E /\ \A x \in E : m <= x
    <3>1. E \subseteq 0 .. today /\ E # {}
      BY <1>1, <1>4
    <3>2. QED
      BY <1>1, <3>1, Extremes
  <2>4. m # today /\ m \in K
    <3>1. PICK k \in K : TRUE
      BY <2>2
    <3>2. k < today /\ m <= k /\ k \in Nat
      <4>1. k \in 1 .. today /\ k # today /\ k \in E
        BY <1>1, <1>4, <2>1, <3>1
      <4>2. QED
        BY <1>1, <2>3, <4>1
    <3>3. m # today
      BY <1>1, <3>2
    <3>4. QED
      BY <1>4, <2>3, <3>3
  <2>5. DOMAIN L = E \ {m} /\ \A x \in E \ {m} : L[x] = IF x = today THEN t ELSE live[x]
    <3>1. L = [x \in E \ {m} |-> M[x]]
      BY <1>2, <1>7 DEF Restrict
    <3>2. QED
      BY <1>3, <3>1
  <2>6. Cardinality(E \ {m}) = KEEP_DAYS
    <3>1. Cardinality(E \ {m}) = Cardinality(E) - 1
      BY <1>5, <2>3, FS_RemoveElement
    <3>2. QED
      BY <1>1, <2>1, <3>1
  <2>7. \A d \in K : d \notin E \ {m} => d = m
    BY <1>4
  <2>8. \A x \in E \ {m} : x > m
    <3>1. \A x \in E : x \in Nat
      BY <1>1, <1>4
    <3>2. QED
      BY <2>3, <3>1
  <2> HIDE DEF m
  <2>9. today \in DOMAIN L /\ L[today] = t
    BY <1>4, <2>4, <2>5
  <2>10. /\ DOMAIN L \subseteq K \cup {today} /\ Cardinality(DOMAIN L) = KEEP_DAYS
         /\ \A d \in DOMAIN L : d # today => d \in K /\ L[d] = live[d]
    BY <1>4, <2>5, <2>6
  <2>11. \A d \in K : d \notin DOMAIN L => \A x \in DOMAIN L : x > d
    BY <2>5, <2>7, <2>8
  <2>12. Cardinality(DOMAIN L) <= KEEP_DAYS
    BY <1>1, <2>10
  <2>13. QED
    BY <2>1, <2>9, <2>10, <2>11, <2>12 DEF K, t, L
<1>8. QED
  BY <1>6, <1>7

\* The tallies in memory hold after a signature.
LEMMA SignedHolds ==
  ASSUME DaysInv, NEW own \in BOOLEAN, signed(own)
  PROVE  /\ Holds(live', known', said', today)
         /\ \A d \in 1 .. MaxDay : Of(said', d, filed) = Of(said, d, filed)
         /\ said' = [d \in 1 .. MaxDay |-> said'[d]]
         /\ \A d \in 1 .. MaxDay : NotedOf(said'[d], ledger + 1) /\ (d > today => said'[d].signed = {})
         /\ \A d \in 1 .. MaxDay : said'[d].signed = IF d = today THEN said[d].signed \cup {ledger} ELSE said[d].signed
         /\ today \in DOMAIN live => DOMAIN live' = DOMAIN live
<1> DEFINE t == Tallied(IF today \in DOMAIN live THEN live[today] ELSE NewDay(ledger), ledger, own)
           n == SaidAfter(said[today], own)
           k == Of(said, today, known)
<1>1. /\ today \in 1 .. MaxDay /\ today \in Nat /\ MaxDay \in Nat /\ ledger \in Nat \ {0} /\ order \in BOOLEAN /\ source \in BOOLEAN
      /\ known \subseteq 1 .. ledger - 1 /\ filed \subseteq 1 .. ledger - 1 /\ ledger \notin known /\ ledger \notin filed
  BY DaysConstants DEF DaysInv, Clocks, Losses
<1>2. live' = SignedOn(live, today, ledger, own) /\ known' = known \cup {ledger}
  BY DEF signed
<1>3. /\ today \in DOMAIN live' /\ live'[today] = t
      /\ DOMAIN live' \subseteq DOMAIN live \cup {today}
      /\ \A d \in DOMAIN live' : d # today => d \in DOMAIN live /\ live'[d] = live[d]
      /\ Cardinality(DOMAIN live') <= KEEP_DAYS
      /\ today \in DOMAIN live => DOMAIN live' = DOMAIN live
      /\ \A d \in DOMAIN live : d \notin DOMAIN live' => \A x \in DOMAIN live' : x > d
      /\ (DOMAIN live \ DOMAIN live' # {} \/ Cardinality(DOMAIN live) = KEEP_DAYS) => Cardinality(DOMAIN live') = KEEP_DAYS
  BY <1>2, DaysAfter
<1>4. /\ said' = [d \in 1 .. MaxDay |-> said'[d]]
      /\ said'[today] = n
      /\ \A d \in 1 .. MaxDay : d # today => said'[d] = said[d]
  <2>1. said' = [said EXCEPT ![today] = n]
    BY DEF signed, SaidAfter
  <2>2. said = [d \in 1 .. MaxDay |-> said[d]]
    BY DEF DaysInv, Sayings
  <2> HIDE DEF n
  <2>3. QED
    BY <1>1, <2>1, <2>2
<1>5. \A d \in 1 .. MaxDay : /\ NotedOf(said[d], ledger) /\ (d > today => said[d].signed = {})
                             /\ ledger \notin said[d].signed /\ ledger \notin said[d].own /\ ledger \notin said[d].off
  BY <1>1 DEF DaysInv, Sayings, NotedOf
<1>6. /\ n.signed = said[today].signed \cup {ledger}
      /\ n.own = (IF own THEN said[today].own \cup {ledger} ELSE said[today].own)
      /\ n.off = (IF order /\ source THEN said[today].off ELSE said[today].off \cup {ledger})
  <2>1. n.signed = said[today].signed \cup {ledger}
    BY DEF SaidAfter
  <2>2. n.own = (IF own THEN said[today].own \cup {ledger} ELSE said[today].own)
    BY DEF SaidAfter
  <2>3. n.off = (IF order /\ source THEN said[today].off ELSE said[today].off \cup {ledger})
    BY DEF SaidAfter
  <2>4. QED
    BY <2>1, <2>2, <2>3
<1>7. /\ k.signed = said[today].signed \cap known /\ k.own = said[today].own \cap known /\ k.off = said[today].off \cap known
      /\ NotedOf(k, ledger)
  <2>1. k.signed = said[today].signed \cap known /\ k.own = said[today].own \cap known /\ k.off = said[today].off \cap known
    BY DEF Of
  <2> HIDE DEF k
  <2>2. QED
    BY <1>1, <1>5, <2>1 DEF NotedOf
<1>8. Of(said', today, known') = SaidAfter(k, own)
  <2>1. /\ n.signed \cap known' = k.signed \cup {ledger}
        /\ n.own \cap known' = (IF own THEN k.own \cup {ledger} ELSE k.own)
        /\ n.off \cap known' = (IF order /\ source THEN k.off ELSE k.off \cup {ledger})
    <3> HIDE DEF n, k
    <3>1. ledger \notin said[today].own /\ ledger \notin said[today].off
      BY <1>1, <1>5
    <3>2. QED
      BY <1>2, <1>6, <1>7, <3>1
  <2> HIDE DEF n, k
  <2>2. Of(said', today, known') = [signed |-> n.signed \cap known', own |-> n.own \cap known', off |-> n.off \cap known']
    BY <1>4 DEF Of
  <2>3. QED
    BY <2>1, <2>2 DEF SaidAfter
<1>9. ASSUME NEW d \in 1 .. MaxDay, d # today PROVE Of(said', d, known') = Of(said, d, known)
  <2>1. said'[d] = said[d]
    BY <1>4, <1>9
  <2>2. /\ said[d].signed \cap known' = said[d].signed \cap known
        /\ said[d].own \cap known' = said[d].own \cap known
        /\ said[d].off \cap known' = said[d].off \cap known
    BY <1>2, <1>5
  <2>3. QED
    BY <2>1, <2>2 DEF Of
<1>10. ASSUME NEW d \in 1 .. MaxDay PROVE Of(said', d, filed) = Of(said, d, filed)
  <2>1. CASE d = today
    <3>1. /\ n.signed \cap filed = said[d].signed \cap filed
          /\ n.own \cap filed = said[d].own \cap filed
          /\ n.off \cap filed = said[d].off \cap filed
      <4> HIDE DEF n
      <4>1. QED
        BY <1>1, <1>6, <2>1
    <3>2. said'[d] = n
      BY <1>4, <2>1
    <3> HIDE DEF n
    <3>3. QED
      BY <3>1, <3>2 DEF Of
  <2>2. CASE d # today
    BY <1>4, <2>2 DEF Of
  <2>3. QED
    BY <2>1, <2>2
<1>11. today \in DOMAIN live => live[today] \in DayTallies /\ k.signed # {} /\ Tells(live[today], k)
  BY DEF DaysInv, Holds
<1>12. t \in DayTallies
  <2>1. CASE today \in DOMAIN live
    BY <1>1, <1>11, <2>1, TalliedType
  <2>2. CASE today \notin DOMAIN live
    <3>1. NewDay(ledger) \in DayTallies
      BY <1>1 DEF NewDay, DayTallies
    <3>2. QED
      BY <1>1, <2>2, <3>1, TalliedType
  <2>3. QED
    BY <2>1, <2>2
<1>13. Tells(t, SaidAfter(k, own))
  <2>1. CASE today \in DOMAIN live
    BY <1>1, <1>7, <1>11, <2>1, TalliedTells
  <2>2. CASE today \notin DOMAIN live /\ k.signed = {}
    BY <1>1, <1>7, <2>2, FirstTells
  <2>3. ~ (today \notin DOMAIN live /\ k.signed # {})
    <3> SUFFICES ASSUME today \notin DOMAIN live, k.signed # {} PROVE FALSE
      OBVIOUS
    <3>1. today \in 1 .. today
      BY <1>1
    <3>2. /\ Cardinality(DOMAIN live) = KEEP_DAYS /\ \A x \in DOMAIN live : x > today
          /\ DOMAIN live \subseteq 1 .. today
      BY <3>1 DEF DaysInv, Holds
    <3>3. DOMAIN live = {}
      <4>1. \A x \in DOMAIN live : x \in 1 .. today /\ x > today
        BY <3>2
      <4>2. \A x \in DOMAIN live : FALSE
        BY <1>1, <4>1
      <4>3. QED
        BY <4>2
    <3>4. Cardinality(DOMAIN live) = 0
      BY <3>3, FS_EmptySet
    <3>5. QED
      BY <3>2, <3>4, DaysConstants
  <2>4. QED
    BY <2>1, <2>2, <2>3
<1>14. SaidAfter(k, own).signed # {}
  BY DEF SaidAfter
<1> HIDE DEF t, n, k
<1>15. Holds(live', known', said', today)
  <2>1. DOMAIN live \subseteq 1 .. today
    BY DEF DaysInv, Holds
  <2>2. DOMAIN live' \subseteq 1 .. today
    BY <1>1, <1>3, <2>1
  <2>3. ASSUME NEW d \in DOMAIN live'
        PROVE  live'[d] \in DayTallies /\ Of(said', d, known').signed # {} /\ Tells(live'[d], Of(said', d, known'))
    <3>1. CASE d = today
      BY <1>3, <1>8, <1>12, <1>13, <1>14, <3>1
    <3>2. CASE d # today
      <4>1. d \in DOMAIN live /\ live'[d] = live[d]
        BY <1>3, <3>2
      <4>2. d \in 1 .. MaxDay
        BY <1>1, <2>1, <4>1
      <4>3. Of(said', d, known') = Of(said, d, known)
        BY <1>9, <3>2, <4>2
      <4>4. QED
        BY <4>1, <4>3 DEF DaysInv, Holds
    <3>3. QED
      BY <3>1, <3>2
  <2>4. ASSUME NEW d \in 1 .. today, Of(said', d, known').signed # {}, d \notin DOMAIN live'
        PROVE  Cardinality(DOMAIN live') = KEEP_DAYS /\ \A x \in DOMAIN live' : x > d
    <3>1. d # today /\ d \in 1 .. MaxDay /\ d < today /\ d \in Nat
      BY <1>1, <1>3, <2>4
    <3>2. Of(said, d, known).signed # {}
      BY <1>9, <2>4, <3>1
    <3>3. CASE d \in DOMAIN live
      BY <1>3, <2>4, <3>3
    <3>4. CASE d \notin DOMAIN live
      <4>1. Cardinality(DOMAIN live) = KEEP_DAYS /\ \A x \in DOMAIN live : x > d
        BY <3>2, <3>4 DEF DaysInv, Holds
      <4>2. \A x \in DOMAIN live' : x > d
        <5> SUFFICES ASSUME NEW x \in DOMAIN live' PROVE x > d
          OBVIOUS
        <5>1. CASE x = today
          BY <1>1, <3>1, <5>1
        <5>2. CASE x # today
          BY <1>3, <4>1, <5>2
        <5>3. QED
          BY <5>1, <5>2
      <4>3. QED
        BY <1>3, <4>1, <4>2
    <3>5. QED
      BY <3>3, <3>4
  <2>5. QED
    BY <1>3, <2>2, <2>3, <2>4 DEF Holds
<1>16. ASSUME NEW d \in 1 .. MaxDay
       PROVE  /\ NotedOf(said'[d], ledger + 1) /\ (d > today => said'[d].signed = {})
              /\ said'[d].signed = IF d = today THEN said[d].signed \cup {ledger} ELSE said[d].signed
  <2>1. NotedOf(said[d], ledger) /\ (d > today => said[d].signed = {})
    BY <1>5
  <2>2. CASE d = today
    <3>1. said'[d] = n
      BY <1>4, <2>2
    <3>2. NotedOf(n, ledger + 1)
      BY <1>1, <1>6, <2>1, <2>2 DEF NotedOf
    <3>3. QED
      BY <1>1, <1>6, <2>2, <3>1, <3>2
  <2>3. CASE d # today
    <3>1. said'[d] = said[d]
      BY <1>4, <2>3
    <3>2. NotedOf(said[d], ledger + 1)
      BY <1>1, <2>1 DEF NotedOf
    <3>3. QED
      BY <2>1, <2>3, <3>1, <3>2
  <2>4. QED
    BY <2>2, <2>3
<1>17. QED
  BY <1>3, <1>4, <1>10, <1>15, <1>16

\* The ledgers signed are finitely many.
LEMMA FewSigned ==
  ASSUME DaysInv
  PROVE  /\ Signatures(said, today) \subseteq 1 .. ledger - 1 /\ IsFiniteSet(Signatures(said, today))
         /\ IsFiniteSet(Signatures(said, today) \ known) /\ Cardinality(Signatures(said, today) \ known) \in Nat
         /\ IsFiniteSet(Signatures(said, today) \ filed) /\ Cardinality(Signatures(said, today) \ filed) \in Nat
<1> DEFINE A == Signatures(said, today)
<1>1. A \subseteq 1 .. ledger - 1
  <2>1. \A d \in 1 .. today : d \in 1 .. MaxDay /\ said[d].signed \subseteq 1 .. ledger - 1
    <3>1. \A d \in 1 .. today : d \in 1 .. MaxDay
      BY DaysConstants DEF DaysInv, Clocks
    <3>2. QED
      BY <3>1 DEF DaysInv, Sayings, NotedOf
  <2>2. QED
    BY <2>1 DEF Signatures
<1> HIDE DEF A
<1>2. IsFiniteSet(1 .. ledger - 1)
  <2>1. ledger - 1 \in Int
    BY DEF DaysInv, Clocks
  <2>2. QED
    BY <2>1, FS_Interval
<1>3. IsFiniteSet(A) /\ IsFiniteSet(A \ known) /\ IsFiniteSet(A \ filed)
  <2>1. A \ known \subseteq A /\ A \ filed \subseteq A
    OBVIOUS
  <2>2. QED
    BY <1>1, <1>2, <2>1, FS_Subset
<1>4. QED
  BY <1>1, <1>3, FS_CardinalityType DEF A

\* One more stop, and one more write that failed.
LEMMA MoreLost ==
  ASSUME NEW s \in Nat, NEW u \in Nat
  PROVE  /\ s * (SAVE_EVERY - 1) + u * SAVE_EVERY \in Nat
         /\ (s + 1) * (SAVE_EVERY - 1) + u * SAVE_EVERY = s * (SAVE_EVERY - 1) + u * SAVE_EVERY + (SAVE_EVERY - 1)
         /\ s * (SAVE_EVERY - 1) + (u + 1) * SAVE_EVERY = s * (SAVE_EVERY - 1) + u * SAVE_EVERY + SAVE_EVERY
<1>1. PICK k \in Nat : k = SAVE_EVERY - 1 /\ SAVE_EVERY = k + 1
  BY DaysConstants
<1>2. \A a, b, c \in Nat : a * c + b * (c + 1) \in Nat
  BY Z3
<1>3. \A a, b, c \in Nat : (a + 1) * c + b * (c + 1) = a * c + b * (c + 1) + c
  BY Z3
<1>4. \A a, b, c \in Nat : a * c + (b + 1) * (c + 1) = a * c + b * (c + 1) + (c + 1)
  BY Z3
<1>5. QED
  BY <1>1, <1>2, <1>3, <1>4

\* What is lost when a signature is taken.
LEMMA SignedLosses ==
  ASSUME DaysInv, NEW own \in BOOLEAN, signed(own)
  PROVE  Losses'
<1> DEFINE A == Signatures(said, today)
           B == Signatures(said', today)
<1>1. /\ stops \in Nat /\ unsaved \in Nat /\ ledger \in Nat \ {0} /\ since_save \in Nat /\ since_save < SAVE_EVERY
      /\ SAVE_EVERY \in Nat \ {0} /\ today \in 1 .. MaxDay /\ MaxDay \in Nat
      /\ known \subseteq 1 .. ledger - 1 /\ filed \subseteq 1 .. ledger - 1
  BY DaysConstants DEF DaysInv, Clocks, Losses
<1>2. /\ known' = known \cup {ledger} /\ ledger' = ledger + 1 /\ today' = today /\ stops' = stops /\ unread' = unread
      /\ IF today \notin DOMAIN live \/ since_save + 1 >= SAVE_EVERY
         THEN since_save' = 0 /\ save
         ELSE since_save' = since_save + 1 /\ on_disk' = on_disk /\ filed' = filed /\ unsaved' = unsaved
  BY DEF signed
<1>3. B = A \cup {ledger}
  <2>1. \A d \in 1 .. MaxDay : said'[d].signed = IF d = today THEN said[d].signed \cup {ledger} ELSE said[d].signed
    BY SignedHolds
  <2>2. \A d \in 1 .. today : d \in 1 .. MaxDay
    BY <1>1
  <2>3. today \in 1 .. today
    BY <1>1
  <2>4. QED
    BY <2>1, <2>2, <2>3 DEF Signatures
<1>4. /\ A \subseteq 1 .. ledger - 1 /\ IsFiniteSet(A \ filed)
      /\ Cardinality(A \ known) \in Nat /\ Cardinality(A \ filed) \in Nat
  BY FewSigned
<1> HIDE DEF A, B
<1>5. ledger \notin A /\ ledger \notin filed
  BY <1>1, <1>4
<1>6. Cardinality(B \ known') = Cardinality(A \ known)
  <2>1. B \ known' = A \ known
    BY <1>2, <1>3, <1>5
  <2>2. QED
    BY ONLY <2>1
<1>7. Cardinality(B \ filed) = Cardinality(A \ filed) + 1
  <2>1. B \ filed = (A \ filed) \cup {ledger}
    BY <1>3, <1>5
  <2>2. ledger \notin A \ filed
    BY <1>5
  <2>3. Cardinality((A \ filed) \cup {ledger}) = Cardinality(A \ filed) + 1
    BY <1>4, <2>2, FS_AddElement
  <2>4. QED
    BY <2>1, <2>3
<1>8. known' \subseteq 1 .. ledger' - 1 /\ filed \subseteq 1 .. ledger' - 1
  BY <1>1, <1>2
<1>9. ~ unread => /\ Cardinality(A \ known) <= Lost /\ Cardinality(A \ filed) <= Lost + since_save
                  /\ unsaved = 0 => DOMAIN on_disk = DOMAIN live
  BY DEF DaysInv, Losses, A
<1>10. Lost \in Nat
  BY <1>1, MoreLost DEF Lost
<1>11. CASE since_save' = 0 /\ on_disk' = live' /\ filed' = known' /\ unsaved' = unsaved
  <2>1. Lost' = Lost
    BY <1>2, <1>11 DEF Lost
  <2>2. Cardinality(B \ filed') = Cardinality(B \ known')
    BY <1>11
  <2>3. ~ unread' => Cardinality(B \ known') <= Lost' /\ Cardinality(B \ filed') <= Lost' + since_save'
    BY <1>2, <1>4, <1>6, <1>9, <1>10, <1>11, <2>1, <2>2
  <2>4. QED
    BY <1>1, <1>2, <1>8, <1>11, <2>3 DEF Losses, B
<1>12. CASE since_save' = 0 /\ unsaved' = unsaved + 1 /\ on_disk' = on_disk /\ filed' = filed
  <2>1. Lost' = Lost + SAVE_EVERY
    BY <1>1, <1>2, <1>12, MoreLost DEF Lost
  <2>2. ~ unread' => Cardinality(B \ known') <= Lost' /\ Cardinality(B \ filed') <= Lost' + since_save'
    <3>1. ~ unread' => Cardinality(A \ filed) + 1 <= Lost + SAVE_EVERY
      BY <1>1, <1>2, <1>4, <1>9, <1>10
    <3>2. QED
      BY <1>1, <1>2, <1>4, <1>6, <1>7, <1>9, <1>10, <1>12, <2>1, <3>1
  <2>3. QED
    BY <1>1, <1>2, <1>8, <1>12, <2>2 DEF Losses, B
<1>13. CASE since_save' = since_save + 1 /\ on_disk' = on_disk /\ filed' = filed /\ unsaved' = unsaved /\ today \in DOMAIN live
  <2>1. Lost' = Lost
    BY <1>2, <1>13 DEF Lost
  <2>2. ~ unread' => Cardinality(B \ known') <= Lost' /\ Cardinality(B \ filed') <= Lost' + since_save'
    BY <1>1, <1>2, <1>4, <1>6, <1>7, <1>9, <1>10, <1>13, <2>1
  <2>3. DOMAIN live' = DOMAIN live
    BY <1>13, SignedHolds
  <2>4. QED
    BY <1>1, <1>2, <1>8, <1>9, <1>13, <2>2, <2>3 DEF Losses, B
<1>14. QED
  BY <1>2, <1>11, <1>12, <1>13 DEF save

\* A signature keeps it.
LEMMA SignedStep ==
  ASSUME DaysInv, NEW own \in BOOLEAN, signed(own)
  PROVE  DaysInv'
<1>1. /\ today \in 1 .. MaxDay /\ today \in Nat /\ MaxDay \in Nat /\ ledger \in Nat \ {0}
      /\ since_save \in Nat /\ since_save < SAVE_EVERY /\ SAVE_EVERY \in Nat \ {0}
  BY DaysConstants DEF DaysInv, Clocks
<1>2. /\ IF today \notin DOMAIN live \/ since_save + 1 >= SAVE_EVERY
         THEN since_save' = 0 /\ save
         ELSE since_save' = since_save + 1 /\ on_disk' = on_disk /\ filed' = filed
      /\ ledger' = ledger + 1 /\ today' = today /\ order' = order /\ source' = source
  BY DEF signed
<1>3. Clocks'
  BY <1>1, <1>2 DEF DaysInv, Clocks
<1>4. Sayings'
  BY <1>2, SignedHolds DEF Sayings
<1>5. Holds(live', known', said', today)
  BY SignedHolds
<1>6. Holds(on_disk, filed, said', today)
  <2>1. \A d \in 1 .. today : Of(said', d, filed) = Of(said, d, filed)
    <3>1. \A d \in 1 .. today : d \in 1 .. MaxDay
      BY <1>1
    <3>2. QED
      BY <3>1, SignedHolds
  <2>2. Holds(on_disk, filed, said, today)
    BY DEF DaysInv
  <2>3. QED
    BY <1>1, <2>1, <2>2, SameHolds
<1>7. Holds(on_disk', filed', said', today)
  <2>1. (on_disk' = live' /\ filed' = known') \/ (on_disk' = on_disk /\ filed' = filed)
    BY <1>2 DEF save
  <2>2. CASE on_disk' = live' /\ filed' = known'
    BY <1>5, <2>2
  <2>3. CASE on_disk' = on_disk /\ filed' = filed
    BY <1>6, <2>3
  <2>4. QED
    BY <2>1, <2>2, <2>3
<1>8. QED
  BY <1>2, <1>3, <1>4, <1>5, <1>7, SignedLosses DEF DaysInv

\* An interval that ends later holds the one that ends earlier.
LEMMA Longer ==
  ASSUME NEW a \in Int, NEW b \in Int, a <= b
  PROVE  1 .. a - 1 \subseteq 1 .. b - 1
  OBVIOUS

\* A ledger left unsigned and midnight keep it.
LEMMA QuietStep ==
  ASSUME DaysInv, LeftUnsigned \/ Midnight
  PROVE  DaysInv'
<1>1. /\ UNCHANGED <<order, source, live, since_save, on_disk, said, known, filed, unsaved, unread, stops>>
      /\ ledger' \in {ledger, ledger + 1} /\ today' \in {today, today + 1} /\ today' <= MaxDay
  BY DaysConstants DEF LeftUnsigned, Midnight, DaysInv, Clocks, day_history
<1>2. today \in 1 .. MaxDay /\ today \in Nat /\ MaxDay \in Nat /\ ledger \in Nat \ {0}
  BY DaysConstants DEF DaysInv, Clocks
<1>3. Clocks'
  BY <1>1, <1>2 DEF DaysInv, Clocks
<1>4. \A d \in 1 .. MaxDay : (d > today => said[d].signed = {}) /\ (d > today' => said[d].signed = {})
  <2>1. \A d \in 1 .. MaxDay : d > today => said[d].signed = {}
    BY DEF DaysInv, Sayings
  <2>2. QED
    BY <1>1, <1>2, <2>1
<1>5. Sayings'
  <2>1. ASSUME NEW n \in Nat \ {0}, ledger <= n, NEW d \in 1 .. MaxDay PROVE NotedOf(said[d], n)
    <3>1. NotedOf(said[d], ledger)
      BY DEF DaysInv, Sayings
    <3>2. QED
      BY <1>2, <2>1, <3>1 DEF NotedOf
  <2>2. \A d \in 1 .. MaxDay : NotedOf(said[d], ledger')
    <3>1. ledger' \in Nat \ {0} /\ ledger <= ledger'
      BY <1>1, <1>2
    <3>2. QED
      BY <2>1, <3>1
  <2>3. said = [d \in 1 .. MaxDay |-> said[d]]
    BY DEF DaysInv, Sayings
  <2>4. QED
    BY <1>1, <1>4, <2>2, <2>3 DEF Sayings
<1>6. \A d \in 1 .. today' : d \notin 1 .. today => said[d].signed = {}
  BY <1>1, <1>2, <1>4
<1>7. ASSUME NEW D, NEW K, Holds(D, K, said, today) PROVE Holds(D, K, said, today')
  <2>1. \A d \in 1 .. today' : d \notin 1 .. today => Of(said, d, K).signed = {}
    BY <1>6 DEF Of
  <2>2. today' \in Nat /\ today <= today'
    BY <1>1, <1>2
  <2>3. QED
    BY <1>2, <1>7, <2>1, <2>2, SameHolds
<1>8. Signatures(said, today') = Signatures(said, today)
  <2>1. 1 .. today \subseteq 1 .. today'
    BY <1>1, <1>2
  <2>2. QED
    BY <1>6, <2>1 DEF Signatures
<1>9. Losses'
  <2>1. known \subseteq 1 .. ledger' - 1 /\ filed \subseteq 1 .. ledger' - 1
    <3>1. 1 .. ledger - 1 \subseteq 1 .. ledger' - 1
      <4>1. ledger \in Int /\ ledger' \in Int /\ ledger <= ledger'
        BY <1>1, <1>2
      <4>2. QED
        BY <4>1, Longer
    <3>2. QED
      BY <3>1 DEF DaysInv, Losses
  <2>2. Lost' = Lost
    BY <1>1 DEF Lost
  <2>3. QED
    BY <1>1, <1>8, <2>1, <2>2 DEF DaysInv, Losses
<1>10. Holds(live', known', said', today') /\ Holds(on_disk', filed', said', today')
  BY <1>1, <1>7 DEF DaysInv
<1>11. QED
  BY <1>3, <1>5, <1>9, <1>10 DEF DaysInv

\* A stop keeps it: the tally is what the file told, or nothing.
LEMMA StopStep ==
  ASSUME DaysInv, StopAndStart
  PROVE  DaysInv'
<1>1. /\ since_save' = 0 /\ on_disk' = on_disk /\ said' = said /\ today' = today /\ ledger' = ledger /\ source' = source
      /\ order' \in BOOLEAN /\ filed' = filed /\ unsaved' = unsaved /\ stops' = stops + 1
      /\ \/ live' = on_disk /\ known' = filed /\ unread' = unread
         \/ live' = <<>> /\ known' = {} /\ unread' = TRUE
  BY DEF StopAndStart
<1>2. Clocks' /\ Sayings'
  BY <1>1, DaysConstants DEF DaysInv, Clocks, Sayings
<1>3. Holds(live', known', said', today') /\ Holds(on_disk', filed', said', today')
  <2>1. CASE live' = on_disk /\ known' = filed
    BY <1>1, <2>1 DEF DaysInv
  <2>2. CASE live' = <<>> /\ known' = {}
    BY <1>1, <2>2, EmptyHolds DEF DaysInv
  <2>3. QED
    BY <1>1, <2>1, <2>2
<1>4. /\ stops \in Nat /\ unsaved \in Nat /\ since_save \in Nat /\ since_save <= SAVE_EVERY - 1 /\ SAVE_EVERY \in Nat \ {0}
      /\ filed \subseteq 1 .. ledger - 1 /\ Cardinality(Signatures(said, today) \ filed) \in Nat
  BY DaysConstants, FewSigned DEF DaysInv, Clocks, Losses
<1>5. Lost \in Nat /\ Lost' = Lost + (SAVE_EVERY - 1)
  BY <1>1, <1>4, MoreLost DEF Lost
<1>6. CASE live' = on_disk /\ known' = filed /\ unread' = unread
  <2>1. ~ unread => Cardinality(Signatures(said, today) \ filed) <= Lost + since_save
    BY DEF DaysInv, Losses
  <2>2. ~ unread => Cardinality(Signatures(said, today) \ filed) <= Lost + (SAVE_EVERY - 1)
    BY <1>4, <1>5, <2>1
  <2>3. QED
    BY <1>1, <1>2, <1>3, <1>4, <1>5, <1>6, <2>2 DEF DaysInv, Losses
<1>7. CASE live' = <<>> /\ known' = {} /\ unread' = TRUE
  BY <1>1, <1>2, <1>3, <1>4, <1>7 DEF DaysInv, Losses
<1>8. QED
  BY <1>1, <1>6, <1>7

-------------------------------------------------------------------------------
(* What the count says *)

\* A tally that tells a day has its ends, and nothing borrowed exactly when all was our own.
LEMMA WhatIsTold ==
  ASSUME NEW s, NEW next \in Nat \ {0}, NotedOf(s, next), NEW r \in DayTallies, Tells(r, s)
  PROVE  /\ r.first = Min(s.signed) /\ r.last = Max(s.signed) /\ r.signed = Cardinality(s.signed) /\ r.signed > 0
         /\ r.borrowed = 0 <=> s.own = s.signed
         /\ (r.order_on /\ r.peers) <=> s.off = {}
<1> DEFINE S == s.signed
<1>1. /\ S \subseteq 1 .. next - 1 /\ S # {} /\ s.own \subseteq S
      /\ r.signed = Cardinality(S) /\ r.borrowed = Cardinality(S \ s.own)
      /\ r.first \in S /\ r.last \in S /\ \A x \in S : r.first <= x /\ x <= r.last
      /\ (r.order_on /\ r.peers) <=> s.off = {}
  BY DEF NotedOf, Tells
<1> HIDE DEF S
<1>2. IsFiniteSet(S) /\ IsFiniteSet(S \ s.own)
  <2>1. IsFiniteSet(1 .. next - 1)
    BY FS_Interval
  <2>2. S \ s.own \subseteq S
    OBVIOUS
  <2>3. QED
    BY <1>1, <2>1, <2>2, FS_Subset
<1>3. /\ Min(S) \in S /\ \A t \in S : Min(S) <= t
      /\ Max(S) \in S /\ \A t \in S : t <= Max(S)
  <2>1. S \subseteq 0 .. next - 1 /\ next - 1 \in Nat
    BY <1>1
  <2>2. QED
    BY <1>1, <2>1, Extremes
<1>4. r.first = Min(S) /\ r.last = Max(S)
  <2>1. \A x \in S : x \in Int
    BY <1>1
  <2>2. Min(S) \in Int /\ Max(S) \in Int /\ r.first \in Int /\ r.last \in Int
    BY <1>1, <1>3, <2>1
  <2>3. Min(S) <= r.first /\ r.first <= Min(S) /\ Max(S) <= r.last /\ r.last <= Max(S)
    BY <1>1, <1>3
  <2>4. QED
    BY <2>2, <2>3
<1>5. Cardinality(S \ s.own) = 0 <=> S \ s.own = {}
  BY <1>2, FS_EmptySet
<1>6. Cardinality(S) # 0 /\ Cardinality(S) \in Nat
  BY <1>1, <1>2, FS_EmptySet, FS_CardinalityType
<1>7. S \ s.own = {} <=> s.own = S
  BY <1>1
<1>8. QED
  BY <1>1, <1>4, <1>5, <1>6, <1>7 DEF S

\* The count says what was earned, and all of it.
LEMMA CountIsRight ==
  ASSUME DaysInv
  PROVE  DaysOK
<1>1. today \in 1 .. MaxDay /\ today \in Nat /\ ledger \in Nat \ {0} /\ MaxDay \in Nat /\ SAVE_EVERY \in Nat
  BY DaysConstants DEF DaysInv, Clocks
<1>2. ASSUME NEW d \in 1 .. today PROVE NotedOf(KnownOf(d), ledger) /\ KnownOf(d) = Of(said, d, known)
  <2>1. d \in 1 .. MaxDay
    BY <1>1
  <2>2. NotedOf(said[d], ledger)
    BY <2>1 DEF DaysInv, Sayings
  <2>3. QED
    BY <2>2 DEF NotedOf, KnownOf, Of
<1>3. \A d \in DOMAIN live : d \in 1 .. today /\ live[d] \in DayTallies /\ KnownOf(d).signed # {} /\ Tells(live[d], KnownOf(d))
  BY <1>2 DEF DaysInv, Holds
<1>4. CountIsEarned
  <2> SUFFICES ASSUME NEW i \in 1 .. streak(live)
               PROVE  LET s == KnownOf(today - i) IN
                      /\ s.signed # {} /\ s.own = s.signed /\ s.off = {}
                      /\ Cardinality(s.signed) * 100 >= MIN_COVERAGE * (Max(s.signed) - Min(s.signed) + 1)
    BY DEF CountIsEarned
  <2> DEFINE N == {n \in 0 .. today - 1 : \A j \in 1 .. n : today - j \in DOMAIN live /\ Counts(live[today - j])}
             d == today - i
  <2>1. streak(live) \in N
    <3>1. N \subseteq 0 .. today - 1 /\ today - 1 \in Nat
      BY <1>1
    <3>2. 0 \in N
      BY <1>1
    <3>3. Max(N) \in N
      BY <3>1, <3>2, Extremes
    <3>4. QED
      BY <3>3 DEF streak
  <2>2. d \in DOMAIN live /\ Counts(live[d])
    BY <2>1
  <2>3. d \in 1 .. today /\ NotedOf(KnownOf(d), ledger) /\ live[d] \in DayTallies /\ Tells(live[d], KnownOf(d))
    BY <1>2, <1>3, <2>2
  <2> HIDE DEF d
  <2>4. /\ live[d].first = Min(KnownOf(d).signed) /\ live[d].last = Max(KnownOf(d).signed)
        /\ live[d].signed = Cardinality(KnownOf(d).signed) /\ live[d].signed > 0
        /\ live[d].borrowed = 0 <=> KnownOf(d).own = KnownOf(d).signed
        /\ (live[d].order_on /\ live[d].peers) <=> KnownOf(d).off = {}
    BY <1>1, <2>3, WhatIsTold
  <2>5. KnownOf(d).signed # {}
    BY <2>3 DEF Tells
  <2>6. /\ live[d].borrowed = 0 /\ live[d].order_on /\ live[d].peers
        /\ live[d].signed * 100 >= MIN_COVERAGE * (live[d].last - live[d].first + 1)
    BY <2>2 DEF Counts, Covered
  <2>7. QED
    BY <2>4, <2>5, <2>6 DEF d
<1>5. EarnedIsCounted
  <2> SUFFICES ASSUME NEW d \in 1 .. today - 1,
                      KnownOf(d).signed # {}, KnownOf(d).own = KnownOf(d).signed, KnownOf(d).off = {},
                      Max(KnownOf(d).signed) - Min(KnownOf(d).signed) + 1 = Cardinality(KnownOf(d).signed),
                      Cardinality({x \in 1 .. today : x >= d /\ KnownOf(x).signed # {}}) <= KEEP_DAYS
               PROVE  d \in DOMAIN live /\ Counts(live[d])
    BY DEF EarnedIsCounted
  <2>1. d \in 1 .. today /\ NotedOf(KnownOf(d), ledger)
    BY <1>1, <1>2
  <2>2. d \in DOMAIN live
    <3> SUFFICES ASSUME d \notin DOMAIN live PROVE FALSE
      OBVIOUS
    <3> DEFINE K == DOMAIN live
               X == {x \in 1 .. today : x >= d /\ KnownOf(x).signed # {}}
    <3>1. Cardinality(K) = KEEP_DAYS /\ \A x \in K : x > d
      BY <1>2, <2>1 DEF DaysInv, Holds
    <3>2. K \subseteq 1 .. today /\ \A x \in K : KnownOf(x).signed # {}
      BY <1>3
    <3>3. K \cup {d} \subseteq X
      <4>1. \A x \in K : x \in 1 .. today /\ x >= d
        BY <1>1, <3>1, <3>2
      <4>2. d >= d
        BY <1>1
      <4>3. QED
        BY <2>1, <3>2, <4>1, <4>2
    <3>4. IsFiniteSet(X) /\ IsFiniteSet(K)
      <4>1. X \subseteq 1 .. today
        OBVIOUS
      <4>2. IsFiniteSet(1 .. today)
        <5>1. today \in Int /\ 1 \in Int
          BY <1>1
        <5>2. QED
          BY ONLY <5>1, FS_Interval
      <4>3. QED
        BY <3>2, <4>1, <4>2, FS_Subset
    <3> HIDE DEF X, K
    <3>5. d \notin K
      BY DEF K
    <3>6. Cardinality(K \cup {d}) = Cardinality(K) + 1
      BY <3>4, <3>5, FS_AddElement
    <3>7. Cardinality(K \cup {d}) <= Cardinality(X)
      BY <3>3, <3>4, FS_Subset
    <3>8. Cardinality(X) <= KEEP_DAYS
      BY DEF X
    <3>9. Cardinality(X) \in Nat /\ KEEP_DAYS \in Nat
      BY <3>4, FS_CardinalityType, DaysConstants
    <3>10. QED
      BY <3>1, <3>6, <3>7, <3>8, <3>9
  <2>3. live[d] \in DayTallies /\ Tells(live[d], KnownOf(d))
    BY <1>3, <2>2
  <2>4. /\ live[d].first = Min(KnownOf(d).signed) /\ live[d].last = Max(KnownOf(d).signed)
        /\ live[d].signed = Cardinality(KnownOf(d).signed) /\ live[d].signed > 0
        /\ live[d].borrowed = 0 <=> KnownOf(d).own = KnownOf(d).signed
        /\ (live[d].order_on /\ live[d].peers) <=> KnownOf(d).off = {}
    BY <1>1, <2>1, <2>3, WhatIsTold
  <2>5. Covered(live[d])
    <3>1. live[d].last - live[d].first + 1 = live[d].signed /\ live[d].signed \in Nat
      BY <2>3, <2>4 DEF DayTallies
    <3>2. \A n \in Nat : \A m \in 0 .. 100 : n * 100 >= m * n
      BY Z3
    <3>3. QED
      BY <3>1, <3>2, DaysConstants DEF Covered
  <2>6. QED
    BY <2>2, <2>4, <2>5 DEF Counts
<1>6. LittleIsLost
  <2>1. AllSigned = Signatures(said, today)
    BY DEF AllSigned, Signatures
  <2>2. QED
    BY <2>1 DEF DaysInv, Losses, Lost, LittleIsLost
<1>7. QED
  BY <1>4, <1>5, <1>6 DEF DaysOK

\* The count of days signed with our own hash counts only days that were, as far as the tally knows
\* them, and every such day that is not too old to be kept; and what it does not know are fewer than
\* SAVE_EVERY signatures for each stop and SAVE_EVERY for each write of the file that failed, unless a
\* start could not read the file (independence_days.rs Days::signed, streak, signed, save, live).
THEOREM DaysAreCounted == DaysInit /\ [][DaysNext]_day_vars => []DaysOK
<1>1. DaysInv /\ [DaysNext]_day_vars => DaysInv'
  <2> SUFFICES ASSUME DaysInv, [DaysNext]_day_vars PROVE DaysInv'
    OBVIOUS
  <2>1. CASE \E own \in BOOLEAN : signed(own)
    BY <2>1, SignedStep
  <2>2. CASE LeftUnsigned \/ Midnight
    BY <2>2, QuietStep
  <2>3. CASE StopAndStart
    BY <2>3, StopStep
  <2>4. CASE UNCHANGED day_vars
    BY <2>4 DEF day_vars, day_history, DaysInv, Clocks, Sayings, Losses, Lost
  <2>5. QED
    BY <2>1, <2>2, <2>3, <2>4 DEF DaysNext
<1>2. DaysInv => DaysOK
  BY CountIsRight
<1>3. QED
  BY FirstDay, <1>1, <1>2, PTL

-------------------------------------------------------------------------------
(* Sequences with their places *)

LineSeq(f) == f \in Seq(Range(f))

\* The places of a sequence are 1 to its length, and each holds a member of its range.
LEMMA Places1 ==
  ASSUME NEW f, LineSeq(f)
  PROVE  Len(f) \in Nat /\ DOMAIN f = 1 .. Len(f) /\ \A i \in 1 .. Len(f) : f[i] \in Range(f)
<1>1. Len(f) \in Nat /\ DOMAIN f = 1 .. Len(f)
  BY LenProperties DEF LineSeq
<1>2. QED
  BY <1>1 DEF Range

\* A sequence over a set is one over its own range, which the set holds.
LEMMA OverRange ==
  ASSUME NEW S, NEW f \in Seq(S)
  PROVE  LineSeq(f) /\ Range(f) \subseteq S
<1>1. Len(f) \in Nat /\ DOMAIN f = 1 .. Len(f) /\ f \in [1 .. Len(f) -> S]
  BY LenProperties
<1>2. Range(f) \subseteq S
  BY <1>1 DEF Range
<1>3. \A i \in 1 .. Len(f) : f[i] \in Range(f)
  BY <1>1 DEF Range
<1>4. SubSeq(f, 1, Len(f)) \in Seq(Range(f))
  <2>1. 1 \in Int /\ Len(f) \in Int
    BY <1>1
  <2>2. QED
    BY <1>3, <2>1, SubSeqProperties
<1>5. f \in Seq(Range(f))
  BY <1>4, SubSeqFull
<1>6. LineSeq(f)
  BY <1>5 DEF LineSeq
<1>7. QED
  BY <1>2, <1>6

\* One more at the end.
LEMMA Appended ==
  ASSUME NEW f, LineSeq(f), NEW x
  PROVE  /\ LineSeq(Append(f, x)) /\ Len(Append(f, x)) = Len(f) + 1 /\ Append(f, x)[Len(f) + 1] = x
         /\ \A i \in 1 .. Len(f) : Append(f, x)[i] = f[i]
         /\ Range(Append(f, x)) = Range(f) \cup {x}
         /\ Append(f, x) # <<>>
<1> DEFINE S == Range(f) \cup {x}  g == Append(f, x)
<1>1. Len(f) \in Nat /\ DOMAIN f = 1 .. Len(f) /\ \A i \in 1 .. Len(f) : f[i] \in Range(f)
  BY Places1
<1>2. f \in Seq(S) /\ x \in S
  <2>1. f \in Seq(Range(f)) /\ Range(f) \subseteq S
    BY DEF LineSeq
  <2>2. QED
    BY <2>1, SeqMonotonic
<1> HIDE DEF S
<1>3. g \in Seq(S) /\ Len(g) = Len(f) + 1 /\ g[Len(f) + 1] = x /\ \A i \in 1 .. Len(f) : g[i] = f[i]
  BY <1>1, <1>2
<1>4. LineSeq(g)
  BY <1>3, OverRange
<1>5. DOMAIN g = 1 .. Len(f) + 1
  BY <1>3, <1>4, Places1
<1> HIDE DEF g
<1>6. Range(g) = Range(f) \cup {x}
  <2>1. \A y \in Range(g) : y \in Range(f) \cup {x}
    <3> SUFFICES ASSUME NEW i \in 1 .. Len(f) + 1 PROVE g[i] \in Range(f) \cup {x}
      BY <1>5 DEF Range
    <3>1. CASE i = Len(f) + 1
      BY <1>3, <3>1
    <3>2. CASE i # Len(f) + 1
      <4>1. i \in 1 .. Len(f)
        BY <1>1, <3>2
      <4>2. QED
        BY <1>1, <1>3, <4>1
    <3>3. QED
      BY <3>1, <3>2
  <2>2. \A y \in Range(f) : y \in Range(g)
    <3> SUFFICES ASSUME NEW i \in 1 .. Len(f) PROVE f[i] \in Range(g)
      BY <1>1 DEF Range
    <3>1. i \in 1 .. Len(f) + 1 /\ g[i] = f[i]
      BY <1>1, <1>3
    <3>2. QED
      BY <1>5, <3>1 DEF Range
  <2>3. x \in Range(g)
    <3>1. Len(f) + 1 \in 1 .. Len(f) + 1
      BY <1>1
    <3>2. QED
      BY <1>3, <1>5, <3>1 DEF Range
  <2>4. QED
    BY <2>1, <2>2, <2>3
<1>7. g # <<>>
  BY <1>1, <1>3
<1>8. QED
  BY <1>3, <1>4, <1>6, <1>7 DEF g

\* All but the last.
LEMMA Fronted ==
  ASSUME NEW f, LineSeq(f), f # <<>>
  PROVE  /\ LineSeq(Front(f)) /\ Len(Front(f)) = Len(f) - 1 /\ Len(f) - 1 \in Nat
         /\ \A i \in 1 .. Len(f) - 1 : Front(f)[i] = f[i]
<1>1. Len(f) \in Nat \ {0} /\ \A i \in 1 .. Len(f) : f[i] \in Range(f)
  BY Places1, EmptySeq DEF LineSeq
<1>2. \A i \in 1 .. Len(f) - 1 : f[i] \in Range(f)
  BY <1>1
<1>3. /\ SubSeq(f, 1, Len(f) - 1) \in Seq(Range(f))
      /\ Len(SubSeq(f, 1, Len(f) - 1)) = IF 1 <= Len(f) - 1 THEN Len(f) - 1 - 1 + 1 ELSE 0
      /\ \A i \in 1 .. Len(f) - 1 - 1 + 1 : SubSeq(f, 1, Len(f) - 1)[i] = f[1 + i - 1]
  <2>1. 1 \in Int /\ Len(f) - 1 \in Int
    BY <1>1
  <2>2. QED
    BY <1>2, <2>1, SubSeqProperties
<1>4. Len(f) - 1 - 1 + 1 = Len(f) - 1 /\ \A i \in 1 .. Len(f) - 1 : 1 + i - 1 = i
  BY <1>1
<1>5. \A i \in 1 .. Len(f) - 1 : SubSeq(f, 1, Len(f) - 1)[i] = f[i]
  BY <1>3, <1>4
<1>6. Len(SubSeq(f, 1, Len(f) - 1)) = Len(f) - 1 /\ Len(f) - 1 \in Nat
  <2>1. \A n \in Nat \ {0} : \A m : m = (IF 1 <= n - 1 THEN n - 1 - 1 + 1 ELSE 0) => m = n - 1 /\ n - 1 \in Nat
    OBVIOUS
  <2>2. Len(SubSeq(f, 1, Len(f) - 1)) = IF 1 <= Len(f) - 1 THEN Len(f) - 1 - 1 + 1 ELSE 0
    BY <1>3
  <2>3. Len(f) \in Nat \ {0}
    BY <1>1
  <2>4. QED
    BY ONLY <2>1, <2>2, <2>3
<1>7. LineSeq(SubSeq(f, 1, Len(f) - 1))
  <2>1. SubSeq(f, 1, Len(f) - 1) \in Seq(Range(f))
    BY <1>3
  <2>2. QED
    BY ONLY <2>1, OverRange
<1>8. QED
  BY <1>5, <1>6, <1>7 DEF Front

-------------------------------------------------------------------------------
(* What a reader finds in a file *)

\* The line at place i is to be read with the table list, unless the table was swallowed.
ReadWith(f, i, list) ==
  \/ \E g \in Earlier(f, i, "garbage") : \A t \in Earlier(f, i, "unl") : t < g
  \/ Earlier(f, i, "unl") # {} /\ f[Max(Earlier(f, i, "unl"))].keys = list

\* Read with the table list, the line gives the rows back.
Gives(line, list) ==
  LET trusted == {m \in Range(line.of) : Knows(list, m.by)} IN
  /\ decode_round(line, list) = trusted \cup line.pu
  /\ line.pu \subseteq Range(line.of) \ trusted

LineReads(f, i) ==
  f[i].k = "r" =>
    \/ \E g \in Earlier(f, i, "garbage") : \A t \in Earlier(f, i, "unl") : t < g
    \/ Earlier(f, i, "unl") # {} /\ Gives(f[i], f[Max(Earlier(f, i, "unl"))].keys)

FileReads(f) == LineSeq(f) /\ \A i \in 1 .. Len(f) : LineReads(f, i)

\* A round written to the file next, by the table list, will be read.
Ready(f, list) == f # <<>> /\ Last(f) # Torn /\ ReadWith(f, Len(f) + 1, list)

\* The tables before a line, if there are any, have a last one.
LEMMA LastEarlier ==
  ASSUME NEW f, NEW i \in Nat, NEW kind, Earlier(f, i, kind) # {}
  PROVE  /\ Max(Earlier(f, i, kind)) \in Earlier(f, i, kind) /\ Max(Earlier(f, i, kind)) \in 1 .. i - 1
         /\ \A t \in Earlier(f, i, kind) : t <= Max(Earlier(f, i, kind))
<1>1. Earlier(f, i, kind) \subseteq 0 .. i /\ \A t \in Earlier(f, i, kind) : t \in 1 .. i - 1
  BY DEF Earlier
<1>2. QED
  BY <1>1, Extremes

\* What can be read of a line is settled by the lines up to it.
LEMMA ReadsAlike ==
  ASSUME NEW f, NEW g, NEW i \in Nat \ {0}, \A j \in 1 .. i - 1 : f[j] = g[j]
  PROVE  /\ \A kind : Earlier(f, i, kind) = Earlier(g, i, kind)
         /\ \A list : ReadWith(f, i, list) <=> ReadWith(g, i, list)
         /\ f[i] = g[i] => (LineReads(f, i) <=> LineReads(g, i))
<1>1. \A kind : Earlier(f, i, kind) = Earlier(g, i, kind)
  BY DEF Earlier
<1>2. Earlier(f, i, "unl") # {} => f[Max(Earlier(f, i, "unl"))] = g[Max(Earlier(g, i, "unl"))]
  <2> SUFFICES ASSUME Earlier(f, i, "unl") # {} PROVE f[Max(Earlier(f, i, "unl"))] = g[Max(Earlier(g, i, "unl"))]
    OBVIOUS
  <2>1. Max(Earlier(f, i, "unl")) \in 1 .. i - 1
    BY LastEarlier
  <2>2. Max(Earlier(f, i, "unl")) = Max(Earlier(g, i, "unl"))
    <3>1. Earlier(f, i, "unl") = Earlier(g, i, "unl")
      BY <1>1
    <3>2. QED
      BY ONLY <3>1
  <2>3. QED
    BY <2>1, <2>2
<1>3. ASSUME NEW list PROVE ReadWith(f, i, list) <=> ReadWith(g, i, list)
  <2>1. Earlier(f, i, "unl") = Earlier(g, i, "unl") /\ Earlier(f, i, "garbage") = Earlier(g, i, "garbage")
    BY <1>1
  <2>2. QED
    BY <1>2, <2>1 DEF ReadWith
<1>4. ASSUME f[i] = g[i] PROVE LineReads(f, i) <=> LineReads(g, i)
  <2>1. Earlier(f, i, "unl") = Earlier(g, i, "unl") /\ Earlier(f, i, "garbage") = Earlier(g, i, "garbage")
    BY <1>1
  <2>2. CASE Earlier(f, i, "unl") = {}
    BY <1>4, <2>1, <2>2 DEF LineReads
  <2>3. CASE Earlier(f, i, "unl") # {}
    <3>1. f[Max(Earlier(f, i, "unl"))].keys = g[Max(Earlier(g, i, "unl"))].keys
      BY <1>2, <2>3
    <3>2. Gives(f[i], f[Max(Earlier(f, i, "unl"))].keys) <=> Gives(g[i], g[Max(Earlier(g, i, "unl"))].keys)
      BY <1>4, <3>1
    <3>3. QED
      BY <1>4, <2>1, <2>3, <3>2 DEF LineReads
  <2>4. QED
    BY <2>2, <2>3
<1>5. QED
  BY <1>1, <1>3, <1>4

\* A file grown by a line reads as before, up to the line.
LEMMA GrownReads ==
  ASSUME NEW f, FileReads(f), NEW line, LineReads(Append(f, line), Len(f) + 1)
  PROVE  FileReads(Append(f, line))
<1> DEFINE g == Append(f, line)
<1>1. LineSeq(f) /\ Len(f) \in Nat
  BY Places1 DEF FileReads
<1>2. LineSeq(g) /\ Len(g) = Len(f) + 1 /\ \A i \in 1 .. Len(f) : g[i] = f[i]
  BY <1>1, Appended
<1> HIDE DEF g
<1>3. ASSUME NEW i \in 1 .. Len(f) PROVE LineReads(g, i)
  <2>1. i \in Nat \ {0} /\ f[i] = g[i] /\ \A j \in 1 .. i - 1 : f[j] = g[j]
    BY <1>1, <1>2
  <2>2. LineReads(f, i)
    BY DEF FileReads
  <2>3. QED
    BY <2>1, <2>2, ReadsAlike
<1>4. \A i \in 1 .. Len(f) + 1 : i \in 1 .. Len(f) \/ i = Len(f) + 1
  BY <1>1
<1>5. LineReads(g, Len(f) + 1)
  BY DEF g
<1>6. \A i \in 1 .. Len(f) + 1 : LineReads(g, i)
  BY <1>3, <1>4, <1>5
<1>7. QED
  BY <1>2, <1>6 DEF FileReads, g

\* A file that reads back right does so without its last line (what a torn line is replaced from).
LEMMA ShorterReads ==
  ASSUME NEW f, FileReads(f), f # <<>>
  PROVE  FileReads(Front(f)) /\ Len(Front(f)) = Len(f) - 1 /\ Len(f) - 1 \in Nat
<1>1. LineSeq(f) /\ Len(f) \in Nat
  BY Places1 DEF FileReads
<1>2. /\ LineSeq(Front(f)) /\ Len(Front(f)) = Len(f) - 1 /\ Len(f) - 1 \in Nat
      /\ \A i \in 1 .. Len(f) - 1 : Front(f)[i] = f[i]
  BY <1>1, Fronted
<1>3. ASSUME NEW i \in 1 .. Len(f) - 1 PROVE LineReads(Front(f), i)
  <2>1. i \in Nat \ {0} /\ f[i] = Front(f)[i] /\ \A j \in 1 .. i - 1 : f[j] = Front(f)[j]
    BY <1>1, <1>2
  <2>2. LineReads(f, i)
    <3>1. i \in 1 .. Len(f)
      BY <1>1
    <3>2. QED
      BY <3>1 DEF FileReads
  <2>3. QED
    BY <2>1, <2>2, ReadsAlike
<1>4. QED
  BY <1>2, <1>3 DEF FileReads

\* A line that is no round never reads wrong.
LEMMA WrittenOther ==
  ASSUME NEW f, FileReads(f), NEW line, line.k # "r"
  PROVE  FileReads(Written(f, line))
<1>1. ASSUME NEW g, FileReads(g), NEW x, x.k # "r" PROVE FileReads(Append(g, x))
  <2>1. Append(g, x)[Len(g) + 1] = x
    BY <1>1, Appended DEF FileReads
  <2>2. LineReads(Append(g, x), Len(g) + 1)
    BY <1>1, <2>1 DEF LineReads
  <2>3. QED
    BY <1>1, <2>2, GrownReads
<1>2. CASE f # <<>> /\ Last(f) = Torn
  <2>1. Torn.k # "r" /\ Garbage.k # "r"
    BY DEF Torn, Garbage
  <2>2. FileReads(Append(Front(f), Torn)) /\ FileReads(Append(Front(f), Garbage))
    BY <1>1, <1>2, <2>1, ShorterReads
  <2>3. QED
    BY <1>2, <2>2 DEF Written
<1>3. CASE ~ (f # <<>> /\ Last(f) = Torn)
  BY <1>1, <1>3 DEF Written
<1>4. QED
  BY <1>2, <1>3

\* After a table the rounds can be read by it, or the table was swallowed.
LEMMA WrittenTable ==
  ASSUME NEW f, FileReads(f), NEW list
  PROVE  FileReads(Written(f, UnlLine(list))) /\ Ready(Written(f, UnlLine(list)), list)
<1> DEFINE u == UnlLine(list)
<1>1. u.k = "unl" /\ u.keys = list /\ Torn.k = "torn" /\ Garbage.k = "garbage"
  BY DEF UnlLine, Torn, Garbage
<1> HIDE DEF u
<1>2. u # Torn /\ Garbage # Torn
  BY <1>1
<1>3. FileReads(Written(f, u))
  BY <1>1, WrittenOther
<1>4. CASE f # <<>> /\ Last(f) = Torn
  <2> DEFINE g == Append(Front(f), Garbage)
  <2>1. Written(f, u) = g
    BY <1>2, <1>4 DEF Written
  <2>2. LineSeq(Front(f)) /\ Len(Front(f)) \in Nat
    BY <1>4, ShorterReads, Places1 DEF FileReads
  <2>3. g # <<>> /\ Len(g) = Len(Front(f)) + 1 /\ g[Len(Front(f)) + 1] = Garbage
    BY <2>2, Appended
  <2> HIDE DEF g
  <2>4. Last(g) # Torn
    BY <1>2, <2>3 DEF Last
  <2>5. \E h \in Earlier(g, Len(g) + 1, "garbage") : \A t \in Earlier(g, Len(g) + 1, "unl") : t < h
    <3>1. Len(g) \in Earlier(g, Len(g) + 1, "garbage")
      BY <1>1, <2>2, <2>3 DEF Earlier
    <3>2. Len(g) \notin Earlier(g, Len(g) + 1, "unl")
      BY <1>1, <2>2, <2>3 DEF Earlier
    <3>3. \A t \in Earlier(g, Len(g) + 1, "unl") : t \in 1 .. Len(g)
      BY <2>2, <2>3 DEF Earlier
    <3>4. Len(g) \in Nat
      BY <2>2, <2>3
    <3>5. \A t \in Earlier(g, Len(g) + 1, "unl") : t < Len(g)
      BY <3>2, <3>3, <3>4
    <3>6. QED
      BY <3>1, <3>5
  <2>6. Ready(g, list)
    BY <2>3, <2>4, <2>5 DEF Ready, ReadWith
  <2>7. QED
    BY <1>3, <2>1, <2>6 DEF u
<1>5. CASE ~ (f # <<>> /\ Last(f) = Torn)
  <2> DEFINE g == Append(f, u)
  <2>1. Written(f, u) = g
    BY <1>5 DEF Written
  <2>2. LineSeq(f) /\ Len(f) \in Nat
    BY Places1 DEF FileReads
  <2>3. g # <<>> /\ Len(g) = Len(f) + 1 /\ g[Len(f) + 1] = u
    BY <2>2, Appended
  <2> HIDE DEF g
  <2>4. Last(g) # Torn
    BY <1>2, <2>3 DEF Last
  <2>5. Earlier(g, Len(g) + 1, "unl") # {} /\ g[Max(Earlier(g, Len(g) + 1, "unl"))].keys = list
    <3>1. Len(g) \in Nat /\ Len(g) + 1 \in Nat
      BY <2>2, <2>3
    <3>2. Len(g) \in Earlier(g, Len(g) + 1, "unl")
      BY <1>1, <2>2, <2>3 DEF Earlier
    <3>3. Max(Earlier(g, Len(g) + 1, "unl")) = Len(g)
      <4>1. /\ Max(Earlier(g, Len(g) + 1, "unl")) \in 1 .. Len(g) + 1 - 1
            /\ Len(g) <= Max(Earlier(g, Len(g) + 1, "unl"))
        BY <3>1, <3>2, LastEarlier
      <4>2. QED
        BY <3>1, <4>1
    <3>4. QED
      BY <1>1, <2>3, <3>2, <3>3
  <2>6. Ready(g, list)
    BY <2>3, <2>4, <2>5 DEF Ready, ReadWith
  <2>7. QED
    BY <1>3, <2>1, <2>6 DEF u
<1>6. QED
  BY <1>4, <1>5

\* A round written by the table the file is ready for is read back, and so is the next one.
LEMMA WrittenRound ==
  ASSUME NEW f, FileReads(f), NEW list, Ready(f, list), NEW line, line.k = "r", Gives(line, list)
  PROVE  /\ Written(f, line) = Append(f, line)
         /\ FileReads(Written(f, line)) /\ Ready(Written(f, line), list)
<1> DEFINE g == Append(f, line)
<1>1. Written(f, line) = g
  BY DEF Written, Ready
<1>2. LineSeq(f) /\ Len(f) \in Nat
  BY Places1 DEF FileReads
<1>3. g # <<>> /\ Len(g) = Len(f) + 1 /\ g[Len(f) + 1] = line /\ \A i \in 1 .. Len(f) : g[i] = f[i]
  BY <1>2, Appended
<1> HIDE DEF g
<1>4. ReadWith(g, Len(f) + 1, list)
  <2>1. \A j \in 1 .. Len(f) + 1 - 1 : f[j] = g[j]
    BY <1>2, <1>3
  <2>2. Len(f) + 1 \in Nat \ {0}
    BY <1>2
  <2>3. ReadWith(f, Len(f) + 1, list)
    BY DEF Ready
  <2>4. QED
    BY <2>1, <2>2, <2>3, ReadsAlike
<1>5. LineReads(g, Len(f) + 1)
  BY <1>3, <1>4 DEF LineReads, ReadWith
<1>6. FileReads(g)
  BY <1>5, GrownReads DEF g
<1>7. Last(g) # Torn
  <2>1. Torn.k = "torn"
    BY DEF Torn
  <2>2. Last(g) = line
    BY <1>3 DEF Last
  <2>3. QED
    BY <2>1, <2>2
<1>8. \A kind : kind # "r" => Earlier(g, Len(g) + 1, kind) = Earlier(g, Len(f) + 1, kind)
  <2> SUFFICES ASSUME NEW kind, kind # "r" PROVE Earlier(g, Len(g) + 1, kind) = Earlier(g, Len(f) + 1, kind)
    OBVIOUS
  <2>1. Len(g) + 1 - 1 = Len(f) + 1 /\ Len(f) + 1 - 1 = Len(f)
    BY <1>2, <1>3
  <2>2. \A j \in 1 .. Len(f) + 1 : g[j].k = kind <=> j \in 1 .. Len(f) /\ g[j].k = kind
    BY <1>2, <1>3
  <2>3. \A j \in 1 .. Len(f) : j \in 1 .. Len(f) + 1
    BY <1>2
  <2>4. QED
    BY <2>1, <2>2, <2>3 DEF Earlier
<1>9. ReadWith(g, Len(g) + 1, list)
  <2>1. Earlier(g, Len(g) + 1, "unl") = Earlier(g, Len(f) + 1, "unl") /\ Earlier(g, Len(g) + 1, "garbage") = Earlier(g, Len(f) + 1, "garbage")
    BY <1>8
  <2>2. Max(Earlier(g, Len(g) + 1, "unl")) = Max(Earlier(g, Len(f) + 1, "unl"))
    BY ONLY <2>1
  <2>3. QED
    BY <1>4, <2>1, <2>2 DEF ReadWith
<1>10. QED
  BY <1>1, <1>3, <1>6, <1>7, <1>9 DEF Ready, g

-------------------------------------------------------------------------------
(* A round read with the table it was written by *)

\* The trusted rows come back to the keys that signed them, and those of the others that were kept.
LEMMA GivesBack ==
  ASSUME NEW b, b.rows \in Seq(RoundMsgs), NEW header, NEW list \in Seq(Nat), NEW listed, NEW lost
  PROVE  /\ encode_round(b, header, list, listed, lost).k = "r"
         /\ encode_round(b, header, list, listed, lost).of = b.rows
         /\ Gives(encode_round(b, header, list, listed, lost), list)
<1> DEFINE rows == b.rows
           line == encode_round(b, header, list, listed, lost)
           P == Places(rows, "p", list, TRUE)  V == Places(rows, "v", list, TRUE)  U == Places(rows, "p", list, FALSE)
           trusted == {m \in Range(rows) : Knows(list, m.by)}
<1>1. /\ line.k = "r" /\ line.of = rows
      /\ line.pr = Indexed(rows, P, list) /\ line.va = Indexed(rows, V, list)
      /\ line.pu = {rows[i] : i \in Earliest(U, MAX_UNKNOWN_PROPOSALS)}
  BY DEF encode_round
<1>2. /\ Len(rows) \in Nat /\ DOMAIN rows = 1 .. Len(rows) /\ \A i \in 1 .. Len(rows) : rows[i] \in RoundMsgs
      /\ Range(rows) \subseteq RoundMsgs
  BY LenProperties, OverRange
<1> HIDE DEF line, rows
<1>3. ASSUME NEW m \in RoundMsgs, Knows(list, m.by)
      PROVE  /\ [m EXCEPT !.by = Index(list, @)].by \in DOMAIN list
             /\ [[m EXCEPT !.by = Index(list, @)] EXCEPT !.by = list[@]] = m
  <2>1. m \in [kind : {"p", "v"}, by : Nat, ok : BOOLEAN]
    BY RecordConstants
  <2>2. PICK i \in DOMAIN list : list[i] = m.by
    BY <1>3 DEF Knows, Range
  <2>3. Index(list, m.by) \in DOMAIN list /\ list[Index(list, m.by)] = m.by
    BY <2>2 DEF Index
  <2> DEFINE x == [m EXCEPT !.by = Index(list, @)]
  <2>4. x = [kind |-> m.kind, by |-> Index(list, m.by), ok |-> m.ok]
    BY <2>1
  <2> HIDE DEF x
  <2>5. x.by = Index(list, m.by)
    BY <2>4
  <2>6. [x EXCEPT !.by = list[@]] = [kind |-> m.kind, by |-> list[Index(list, m.by)], ok |-> m.ok]
    BY <2>4
  <2>7. m = [kind |-> m.kind, by |-> m.by, ok |-> m.ok]
    BY <2>1
  <2>8. [x EXCEPT !.by = list[@]] = m
    BY <2>3, <2>6, <2>7
  <2>9. x.by \in DOMAIN list
    BY <2>3, <2>5
  <2>10. QED
    BY <2>8, <2>9 DEF x
<1>4. ASSUME NEW I, I \subseteq {i \in DOMAIN rows : Knows(list, rows[i].by)}
      PROVE  Named(Indexed(rows, I, list), list) = {rows[i] : i \in I}
  <2>1. ASSUME NEW i \in I
        PROVE  /\ [rows[i] EXCEPT !.by = Index(list, @)].by \in DOMAIN list
               /\ [[rows[i] EXCEPT !.by = Index(list, @)] EXCEPT !.by = list[@]] = rows[i]
    <3>1. rows[i] \in RoundMsgs /\ Knows(list, rows[i].by)
      BY <1>2, <1>4
    <3>2. QED
      BY <1>3, <3>1
  <2> DEFINE to(m) == [m EXCEPT !.by = Index(list, @)]  back(m) == [m EXCEPT !.by = list[@]]
  <2>2. \A i \in I : to(rows[i]).by \in DOMAIN list /\ back(to(rows[i])) = rows[i]
    BY <2>1
  <2>3. Indexed(rows, I, list) = {to(rows[i]) : i \in I}
    BY DEF Indexed
  <2>4. Named(Indexed(rows, I, list), list) = {back(r) : r \in {x \in {to(rows[i]) : i \in I} : x.by \in DOMAIN list}}
    BY <2>3 DEF Named
  <2> HIDE DEF to, back
  <2>5. {x \in {to(rows[i]) : i \in I} : x.by \in DOMAIN list} = {to(rows[i]) : i \in I}
    BY <2>2
  <2>6. {back(r) : r \in {to(rows[i]) : i \in I}} = {rows[i] : i \in I}
    <3>1. \A x \in {back(r) : r \in {to(rows[i]) : i \in I}} : x \in {rows[i] : i \in I}
      BY <2>2
    <3>2. \A x \in {rows[i] : i \in I} : x \in {back(r) : r \in {to(rows[i]) : i \in I}}
      BY <2>2
    <3>3. QED
      BY <3>1, <3>2
  <2>7. QED
    BY <2>4, <2>5, <2>6
<1>5. Named(line.pr, list) = {rows[i] : i \in P} /\ Named(line.va, list) = {rows[i] : i \in V}
  <2>1. P \subseteq {i \in DOMAIN rows : Knows(list, rows[i].by)} /\ V \subseteq {i \in DOMAIN rows : Knows(list, rows[i].by)}
    BY DEF Places
  <2> HIDE DEF P, V
  <2>2. QED
    BY <1>1, <1>4, <2>1
<1>6. {rows[i] : i \in P} \cup {rows[i] : i \in V} = trusted
  <2>1. \A i \in DOMAIN rows : rows[i].kind = "p" \/ rows[i].kind = "v"
    <3> SUFFICES ASSUME NEW i \in DOMAIN rows PROVE rows[i].kind = "p" \/ rows[i].kind = "v"
      OBVIOUS
    <3>1. rows[i] \in [kind : {"p", "v"}, by : Nat, ok : BOOLEAN]
      BY <1>2, RecordConstants
    <3>2. QED
      BY <3>1
  <2>2. \A i \in DOMAIN rows : Knows(list, rows[i].by) <=> i \in P \cup V
    BY <2>1 DEF Places, Knows
  <2>3. P \cup V \subseteq DOMAIN rows
    BY DEF Places
  <2> HIDE DEF P, V
  <2>4. \A x \in trusted : x \in {rows[i] : i \in P} \cup {rows[i] : i \in V}
    BY <2>2 DEF Range
  <2>5. \A x \in {rows[i] : i \in P} \cup {rows[i] : i \in V} : x \in trusted
    BY <2>2, <2>3 DEF Range
  <2>6. QED
    BY <2>4, <2>5
<1>7. line.pu \subseteq Range(rows) \ trusted
  <2>1. \A i \in Earliest(U, MAX_UNKNOWN_PROPOSALS) : i \in DOMAIN rows /\ ~ Knows(list, rows[i].by)
    BY DEF Earliest, Places, Knows
  <2>2. \A i \in DOMAIN rows : rows[i] \in Range(rows)
    BY DEF Range
  <2>3. QED
    BY <1>1, <2>1, <2>2
<1>8. decode_round(line, list) = trusted \cup line.pu
  BY <1>5, <1>6 DEF decode_round
<1>9. QED
  BY <1>1, <1>7, <1>8 DEF Gives, line, rows

\* The shortest files.
LEMMA TwoLines ==
  ASSUME NEW u, NEW x
  PROVE  /\ Append(<<>>, x) = <<x>> /\ Append(<<u>>, x) = <<u, x>>
         /\ SubSeq(<<u, x>>, 1, 0) = <<>> /\ SubSeq(<<u, x>>, 1, 1) = <<u>> /\ SubSeq(<<u, x>>, 1, 2) = <<u, x>>
<1> DEFINE S == {u, x}
<1>1. <<>> \in Seq(S) /\ <<u>> \in Seq(S) /\ <<x>> \in Seq(S) /\ <<u, x>> \in Seq(S)
  OBVIOUS
<1>2. /\ Len(<<>>) = 0 /\ Len(<<u>>) = 1 /\ Len(<<x>>) = 1 /\ Len(<<u, x>>) = 2
      /\ <<u>>[1] = u /\ <<x>>[1] = x /\ <<u, x>>[1] = u /\ <<u, x>>[2] = x
  OBVIOUS
<1>3. Append(<<>>, x) = <<x>>
  <2>1. Append(<<>>, x) \in Seq(S) /\ Len(Append(<<>>, x)) = 1 /\ Append(<<>>, x)[1] = x
    BY <1>1, <1>2, AppendProperties
  <2>2. QED
    BY <1>1, <1>2, <2>1, SeqEqual
<1>4. Append(<<u>>, x) = <<u, x>>
  <2>1. /\ Append(<<u>>, x) \in Seq(S) /\ Len(Append(<<u>>, x)) = 2
        /\ Append(<<u>>, x)[1] = u /\ Append(<<u>>, x)[2] = x
    BY <1>1, <1>2, AppendProperties
  <2>2. \A i \in 1 .. 2 : Append(<<u>>, x)[i] = <<u, x>>[i]
    BY <1>2, <2>1
  <2>3. QED
    BY <1>1, <1>2, <2>1, <2>2, SeqEqual
<1>5. SubSeq(<<u, x>>, 1, 0) = <<>>
  BY SubSeqEmpty
<1>6. SubSeq(<<u, x>>, 1, 2) = <<u, x>>
  BY <1>1, <1>2, SubSeqFull
<1>7. SubSeq(<<u, x>>, 1, 1) = <<u>>
  <2> DEFINE t == SubSeq(<<u, x>>, 1, 1)
  <2>1. t \in Seq(S) /\ Len(t) = 1 /\ t[1] = u
    <3>1. \A i \in 1 .. 1 : <<u, x>>[i] \in S
      OBVIOUS
    <3>2. /\ t \in Seq(S) /\ Len(t) = (IF 1 <= 1 THEN 1 - 1 + 1 ELSE 0)
          /\ \A i \in 1 .. 1 - 1 + 1 : t[i] = <<u, x>>[1 + i - 1]
      BY <3>1, SubSeqProperties
    <3>3. 1 \in 1 .. 1 - 1 + 1 /\ 1 + 1 - 1 = 1
      OBVIOUS
    <3> HIDE DEF t
    <3>4. t[1] = <<u, x>>[1]
      BY <3>2, <3>3
    <3>5. QED
      BY <1>2, <3>2, <3>4
  <2> HIDE DEF t
  <2>2. \A i \in 1 .. 1 : t[i] = <<u>>[i]
    BY <1>2, <2>1
  <2>3. t = <<u>>
    BY <1>1, <1>2, <2>1, <2>2, SeqEqual
  <2>4. QED
    BY <2>3 DEF t
<1>8. QED
  BY <1>3, <1>4, <1>5, <1>6, <1>7

\* How far a flush's write can get: a table and a round, or a round alone.
LEMMA CutsOf ==
  ASSUME NEW u, NEW line
  PROVE  /\ Cuts(<<u, line>>) \subseteq {<<>>, <<u>>, <<u, line>>, <<Torn>>, <<u, Torn>>}
         /\ Cuts(<<line>>) \subseteq {<<>>, <<line>>, <<Torn>>}
<1>1. Cuts(<<u, line>>) \subseteq {<<>>, <<u>>, <<u, line>>, <<Torn>>, <<u, Torn>>}
  <2> DEFINE lines == <<u, line>>
  <2>1. /\ Len(lines) = 2
        /\ SubSeq(lines, 1, 0) = <<>> /\ SubSeq(lines, 1, 1) = <<u>> /\ SubSeq(lines, 1, 2) = lines
    <3>1. Len(<<u, line>>) = 2
      OBVIOUS
    <3>2. QED
      BY <3>1, TwoLines
  <2> HIDE DEF lines
  <2>2. \A n \in 0 .. 2 : n = 0 \/ n = 1 \/ n = 2
    OBVIOUS
  <2>3. \A n \in 0 .. 1 : n = 0 \/ n = 1
    OBVIOUS
  <2>4. ASSUME NEW n \in 0 .. 2 PROVE SubSeq(lines, 1, n) \in {<<>>, <<u>>, lines}
    BY <2>1, <2>2
  <2>5. ASSUME NEW n \in 0 .. 1 PROVE Append(SubSeq(lines, 1, n), Torn) \in {<<Torn>>, <<u, Torn>>}
    <3>1. Append(<<>>, Torn) = <<Torn>> /\ Append(<<u>>, Torn) = <<u, Torn>>
      BY TwoLines
    <3>2. QED
      BY <2>1, <2>3, <3>1
  <2>6. 0 .. Len(lines) - 1 = 0 .. 1 /\ 0 .. Len(lines) = 0 .. 2
    BY <2>1
  <2>7. \A cut \in Cuts(lines) : (\E n \in 0 .. 2 : cut = SubSeq(lines, 1, n)) \/ (\E n \in 0 .. 1 : cut = Append(SubSeq(lines, 1, n), Torn))
    BY <2>6 DEF Cuts
  <2>8. QED
    BY <2>4, <2>5, <2>7 DEF lines
<1>2. Cuts(<<line>>) \subseteq {<<>>, <<line>>, <<Torn>>}
  <2> DEFINE lines == <<line>>
  <2>1. Len(lines) = 1 /\ SubSeq(lines, 1, 0) = <<>> /\ SubSeq(lines, 1, 1) = lines
    <3>1. <<line>> \in Seq({line}) /\ Len(<<line>>) = 1
      OBVIOUS
    <3>2. SubSeq(<<line>>, 1, 1) = <<line>>
      BY <3>1, SubSeqFull
    <3>3. SubSeq(<<line>>, 1, 0) = <<>>
      BY SubSeqEmpty
    <3>4. QED
      BY <3>1, <3>2, <3>3
  <2> HIDE DEF lines
  <2>2. ASSUME NEW n \in 0 .. 1 PROVE SubSeq(lines, 1, n) \in {<<>>, lines}
    <3>1. n = 0 \/ n = 1
      OBVIOUS
    <3>2. QED
      BY <2>1, <3>1
  <2>3. Append(SubSeq(lines, 1, 0), Torn) = <<Torn>>
    BY <2>1, TwoLines
  <2>4. 0 .. Len(lines) - 1 = {0} /\ 0 .. Len(lines) = 0 .. 1
    BY <2>1
  <2>5. \A cut \in Cuts(lines) : (\E n \in 0 .. 1 : cut = SubSeq(lines, 1, n)) \/ cut = Append(SubSeq(lines, 1, 0), Torn)
    BY <2>4 DEF Cuts
  <2>6. QED
    BY <2>2, <2>3, <2>5 DEF lines
<1>3. QED
  BY <1>1, <1>2

\* Whatever of a flush's lines reaches the file, the file reads; when all of them do, and the table is
\* among them or the file was ready for the round, it is ready for the next.
LEMMA LinesLand ==
  ASSUME NEW f, FileReads(f), NEW list, NEW line, line.k = "r", Gives(line, list),
         NEW lines, lines = <<UnlLine(list), line>> \/ (lines = <<line>> /\ Ready(f, list))
  PROVE  /\ \A cut \in Cuts(lines) : FileReads(WrittenAll(f, cut))
         /\ FileReads(WrittenAll(f, lines)) /\ Ready(WrittenAll(f, lines), list)
<1> DEFINE u == UnlLine(list)
<1>1. FileReads(Written(f, u)) /\ Ready(Written(f, u), list)
  BY WrittenTable
<1>2. FileReads(Written(f, Torn)) /\ FileReads(Written(Written(f, u), Torn))
  <2>1. Torn.k # "r"
    BY DEF Torn
  <2>2. QED
    BY <1>1, <2>1, WrittenOther
<1>3. FileReads(Written(Written(f, u), line)) /\ Ready(Written(Written(f, u), line), list)
  BY <1>1, WrittenRound
<1> HIDE DEF u
<1>4. /\ \A x : WrittenAll(f, <<x>>) = Written(f, x)
      /\ \A x, y : WrittenAll(f, <<x, y>>) = Written(Written(f, x), y)
      /\ WrittenAll(f, <<>>) = f
  BY DEF WrittenAll
<1>5. CASE lines = <<u, line>>
  <2>1. ASSUME NEW cut \in {<<>>, <<u>>, <<u, line>>, <<Torn>>, <<u, Torn>>} PROVE FileReads(WrittenAll(f, cut))
    BY <1>1, <1>2, <1>3, <1>4 DEF u
  <2>2. Cuts(lines) \subseteq {<<>>, <<u>>, <<u, line>>, <<Torn>>, <<u, Torn>>}
    BY <1>5, CutsOf
  <2>3. QED
    BY <1>3, <1>4, <1>5, <2>1, <2>2
<1>6. CASE lines = <<line>> /\ Ready(f, list)
  <2>1. FileReads(Written(f, line)) /\ Ready(Written(f, line), list)
    BY <1>6, WrittenRound
  <2>2. ASSUME NEW cut \in {<<>>, <<line>>, <<Torn>>} PROVE FileReads(WrittenAll(f, cut))
    BY <1>2, <1>4, <2>1
  <2>3. Cuts(lines) \subseteq {<<>>, <<line>>, <<Torn>>}
    BY <1>6, CutsOf
  <2>4. QED
    BY <1>4, <1>6, <2>1, <2>2, <2>3
<1>7. QED
  BY <1>5, <1>6 DEF u

-------------------------------------------------------------------------------
(* The files *)

FilesRead(fs) == LineSeq(fs) /\ fs # <<>> /\ \A f \in Range(fs) : FileReads(f)

\* An empty file reads.
LEMMA EmptyReads == LineSeq(<<>>) /\ FileReads(<<>>) /\ Len(<<>>) = 0
<1>1. <<>> \in Seq({}) /\ Len(<<>>) = 0
  BY EmptySeq
<1>2. LineSeq(<<>>)
  BY <1>1, OverRange
<1>3. QED
  BY <1>1, <1>2 DEF FileReads

\* The first files kept are some, and the newest is among them (MovedUp and Halfway, by KEEP).
LEMMA FirstsOf ==
  ASSUME NEW S, NEW s, s \in Seq(S), s # <<>>, NEW n \in Nat \ {0}
  PROVE  FirstOf(s, n) \in Seq(S) /\ FirstOf(s, n) # <<>> /\ FirstOf(s, n)[1] = s[1]
<1>1. Len(s) \in Nat \ {0} /\ \A i \in 1 .. Len(s) : s[i] \in S
  BY EmptySeq, ElementOfSeq
<1>2. CASE Len(s) <= n
  BY <1>2 DEF FirstOf
<1>3. CASE ~ (Len(s) <= n)
  <2> DEFINE t == SubSeq(s, 1, n)
  <2>1. \A i \in 1 .. n : s[i] \in S
    BY <1>1, <1>3
  <2>2. /\ t \in Seq(S) /\ Len(t) = (IF 1 <= n THEN n - 1 + 1 ELSE 0)
        /\ \A i \in 1 .. n - 1 + 1 : t[i] = s[1 + i - 1]
    BY <2>1, SubSeqProperties
  <2> HIDE DEF t
  <2>3. 1 \in 1 .. n - 1 + 1 /\ 1 + 1 - 1 = 1
    OBVIOUS
  <2>4. t[1] = s[1]
    BY <2>2, <2>3
  <2>5. t # <<>>
    BY <2>2, EmptySeq
  <2>6. QED
    BY <1>3, <2>2, <2>4, <2>5 DEF FirstOf, t
<1>4. QED
  BY <1>2, <1>3

\* Files moved up, all the way or half of it, are the same files and an empty one.
LEMMA MovedReads ==
  ASSUME NEW fs, FilesRead(fs)
  PROVE  /\ FilesRead(MovedUp(fs)) /\ MovedUp(fs)[1] = <<>> /\ Range(MovedUp(fs)) \subseteq Range(fs) \cup {<<>>}
         /\ FilesRead(Halfway(fs)) /\ Range(Halfway(fs)) \subseteq Range(fs) \cup {<<>>}
<1> DEFINE S == Range(fs) \cup {<<>>}
<1>1. /\ fs \in Seq(S) /\ Len(fs) \in Nat \ {0} /\ \A i \in 1 .. Len(fs) : fs[i] \in S
      /\ \A f \in S : FileReads(f)
      /\ <<>> \in S /\ KEEP + 1 \in Nat \ {0}
  <2>1. fs \in Seq(Range(fs)) /\ Range(fs) \subseteq S /\ fs # <<>>
    BY DEF FilesRead, LineSeq
  <2>2. fs \in Seq(S)
    BY <2>1, SeqMonotonic
  <2>3. Len(fs) \in Nat \ {0} /\ \A i \in 1 .. Len(fs) : fs[i] \in S
    BY <2>1, <2>2, EmptySeq, ElementOfSeq
  <2>4. \A f \in S : FileReads(f)
    BY EmptyReads DEF FilesRead
  <2>5. QED
    BY <2>2, <2>3, <2>4, RecordConstants
<1> HIDE DEF S
<1>2. fs[1] \in S
  BY <1>1
<1>3. ASSUME NEW g, g \in Seq(S), g # <<>> PROVE FilesRead(g) /\ Range(g) \subseteq S
  BY <1>1, <1>3, OverRange DEF FilesRead
<1>4. /\ MovedUp(fs) \in Seq(S) /\ MovedUp(fs) # <<>> /\ MovedUp(fs)[1] = <<>>
  <2> DEFINE k == IF Len(fs) > 1 /\ fs[2] = <<>> THEN 3 ELSE 2
             a == <<<<>>, fs[1]>>
             z == SubSeq(fs, k, Len(fs))
  <2>1. z \in Seq(S)
    <3>1. k \in Int /\ Len(fs) \in Int /\ \A i \in k .. Len(fs) : fs[i] \in S
      <4>1. k \in {2, 3}
        OBVIOUS
      <4> HIDE DEF k
      <4>2. QED
        BY <1>1, <4>1
    <3> HIDE DEF k
    <3>2. QED
      BY <3>1, SubSeqProperties
  <2>2. a \in Seq(S) /\ Len(a) = 2 /\ a[1] = <<>>
    BY <1>1, <1>2
  <2>3. MovedUp(fs) = FirstOf(a \o z, KEEP + 1)
    BY DEF MovedUp
  <2> HIDE DEF a, z
  <2>4. a \o z \in Seq(S) /\ (a \o z)[1] = <<>> /\ a \o z # <<>>
    <3>1. Len(z) \in Nat
      BY <2>1, LenProperties
    <3>2. /\ a \o z \in Seq(S) /\ Len(a \o z) = 2 + Len(z)
          /\ \A i \in 1 .. 2 + Len(z) : (a \o z)[i] = IF i <= 2 THEN a[i] ELSE z[i - 2]
      <4>1. /\ a \o z \in Seq(S) /\ Len(a \o z) = Len(a) + Len(z)
            /\ \A i \in 1 .. Len(a) + Len(z) : (a \o z)[i] = IF i <= Len(a) THEN a[i] ELSE z[i - Len(a)]
        BY <2>1, <2>2, ConcatProperties
      <4>2. QED
        BY <2>2, <4>1
    <3>3. 1 \in 1 .. 2 + Len(z) /\ 2 + Len(z) # 0
      BY <3>1
    <3>4. (a \o z)[1] = <<>>
      BY <2>2, <3>2, <3>3
    <3>5. a \o z # <<>>
      BY <3>2, <3>3, EmptySeq
    <3>6. QED
      BY <3>2, <3>4, <3>5
  <2>5. QED
    BY <1>1, <2>3, <2>4, FirstsOf
<1>5. Halfway(fs) \in Seq(S) /\ Halfway(fs) # <<>>
  <2>1. CASE Len(fs) = 1
    BY <1>1, <2>1, EmptySeq DEF Halfway
  <2>2. CASE Len(fs) # 1
    <3> DEFINE a == <<fs[1], <<>>>>  z == Tail(fs)
    <3>1. a \in Seq(S) /\ Len(a) = 2
      BY <1>1, <1>2
    <3>2. z \in Seq(S) /\ Len(z) \in Nat
      <4>1. fs # <<>>
        BY <1>1, EmptySeq
      <4>2. z \in Seq(S)
        BY <1>1, <4>1, HeadTailProperties
      <4>3. QED
        BY <4>2, LenProperties
    <3>3. Halfway(fs) = FirstOf(a \o z, KEEP + 1)
      BY <2>2 DEF Halfway
    <3> HIDE DEF a, z
    <3>4. a \o z \in Seq(S) /\ Len(a \o z) = 2 + Len(z)
      <4>1. a \o z \in Seq(S) /\ Len(a \o z) = Len(a) + Len(z)
        BY <3>1, <3>2, ConcatProperties
      <4>2. QED
        BY <3>1, <4>1
    <3>5. a \o z # <<>>
      BY <3>2, <3>4, EmptySeq
    <3>6. QED
      BY <1>1, <3>3, <3>4, <3>5, FirstsOf
  <2>3. QED
    BY <2>1, <2>2
<1>6. QED
  BY <1>3, <1>4, <1>5 DEF S

\* The file in use with another in its place.
LEMMA ReplacedReads ==
  ASSUME NEW fs, FilesRead(fs), NEW g, FileReads(g)
  PROVE  /\ FilesRead([fs EXCEPT ![1] = g]) /\ [fs EXCEPT ![1] = g][1] = g
         /\ Range([fs EXCEPT ![1] = g]) \subseteq Range(fs) \cup {g}
<1> DEFINE S == Range(fs) \cup {g}  hs == [fs EXCEPT ![1] = g]
<1>1. fs \in Seq(S) /\ Len(fs) \in Nat \ {0} /\ (\A f \in S : FileReads(f)) /\ g \in S
  <2>1. fs \in Seq(Range(fs)) /\ Range(fs) \subseteq S /\ fs # <<>>
    BY DEF FilesRead, LineSeq
  <2>2. fs \in Seq(S)
    BY <2>1, SeqMonotonic
  <2>3. Len(fs) \in Nat \ {0}
    BY <2>1, EmptySeq
  <2>4. \A f \in S : FileReads(f)
    BY DEF FilesRead
  <2>5. QED
    BY <2>2, <2>3, <2>4
<1> HIDE DEF S
<1>2. 1 \in 1 .. Len(fs)
  BY <1>1
<1>3. hs \in Seq(S) /\ Len(hs) = Len(fs) /\ hs[1] = g
  BY <1>1, <1>2, ExceptSeq
<1> HIDE DEF hs
<1>4. hs # <<>>
  BY <1>1, <1>3, EmptySeq
<1>5. LineSeq(hs) /\ Range(hs) \subseteq S
  BY <1>3, OverRange
<1>6. QED
  BY <1>1, <1>3, <1>4, <1>5 DEF FilesRead, hs, S

\* The file in use is one of the files, so it reads back right.
LEMMA InUse ==
  ASSUME NEW fs, FilesRead(fs)
  PROVE  fs[1] \in Range(fs) /\ FileReads(fs[1])
<1>1. Len(fs) \in Nat \ {0} /\ \A i \in 1 .. Len(fs) : fs[i] \in Range(fs)
  <2>1. fs \in Seq(Range(fs)) /\ fs # <<>>
    BY DEF FilesRead, LineSeq
  <2>2. QED
    BY <2>1, EmptySeq, ElementOfSeq
<1>2. QED
  BY <1>1 DEF FilesRead

\* The file in use is ready unless the table is due.
ReadyInUse == file_open /\ ~ trust_due => Ready(files[1], trust)

\* Written, not opened, not rotated or cut short: every file still reads back right after a flush.
LEMMA FlushReads ==
  ASSUME FilesRead(files), ReadyInUse, trust \in Seq(Nat), NEW b, b.rows \in Seq(RoundMsgs), NEW header, flush(b, header)
  PROVE  FilesRead(files') /\ (file_open' /\ ~ trust_due' => Ready(files'[1], trust))
<1> DEFINE f == FilesFor[1]  line == LineFor(b, header)  lines == LinesFor(b, header)
<1>1. FilesRead(FilesFor) /\ (Rotates => f = <<>>) /\ (~ Rotates => f = files[1])
  BY MovedReads DEF FilesFor
<1>2. FileReads(f)
  BY <1>1, InUse
<1>3. line.k = "r" /\ Gives(line, trust)
  BY GivesBack DEF LineFor
<1>4. lines = <<UnlLine(trust), line>> \/ (lines = <<line>> /\ Ready(f, trust))
  BY <1>1 DEF LinesFor, Due, Opens, ReadyInUse
<1> HIDE DEF f, line
<1>5. /\ \A cut \in Cuts(lines) : FileReads(WrittenAll(f, cut))
      /\ FileReads(WrittenAll(f, lines)) /\ Ready(WrittenAll(f, lines), trust)
  BY <1>2, <1>3, <1>4, LinesLand
<1> HIDE DEF lines
<1>6. CASE WriteRound(b, header)
  <2>1. files' = [FilesFor EXCEPT ![1] = WrittenAll(f, lines)]
    BY <1>6 DEF WriteRound, f, lines
  <2>2. QED
    BY <1>1, <1>5, <2>1, ReplacedReads
<1>7. CASE OpenFails(b)
  BY <1>7 DEF OpenFails, Opens
<1>8. CASE RotateFails(b, header)
  <2>1. ~ file_open' /\ (files' = files \/ files' = Halfway(files) \/ files' = MovedUp(files))
    BY <1>8 DEF RotateFails
  <2>2. QED
    BY <2>1, MovedReads
<1>9. CASE LineFails(b, header)
  <2>1. PICK cut \in Cuts(lines) : files' = [FilesFor EXCEPT ![1] = WrittenAll(f, cut)]
    BY <1>9 DEF LineFails, f, lines
  <2>2. ~ file_open'
    BY <1>9 DEF LineFails
  <2>3. QED
    BY <1>1, <1>5, <2>1, <2>2, ReplacedReads
<1>10. QED
  BY <1>6, <1>7, <1>8, <1>9 DEF flush

-------------------------------------------------------------------------------
(* Copies, while no write fails *)

\* The rows of the last round in a file.
LastOf(f) == IF Rounds(f) = {} THEN {} ELSE Range(f[Max(Rounds(f))].of)

CopyFree(f) ==
  \A i \in Rounds(f) :
    /\ IsInjective(f[i].of)
    /\ Earlier(f, i, "r") # {} => Range(f[i].of) \cap Range(f[Max(Earlier(f, i, "r"))].of) = {}

Untorn(f) == \A i \in 1 .. Len(f) : f[i] # Torn

\* A line more.
LEMMA GrownCopies ==
  ASSUME NEW f, LineSeq(f), CopyFree(f), Untorn(f), NEW line, line # Torn,
         line.k = "r" => IsInjective(line.of) /\ Range(line.of) \cap LastOf(f) = {}
  PROVE  /\ Written(f, line) = Append(f, line)
         /\ CopyFree(Append(f, line)) /\ Untorn(Append(f, line)) /\ LineSeq(Append(f, line))
         /\ LastOf(Append(f, line)) = IF line.k = "r" THEN Range(line.of) ELSE LastOf(f)
<1> DEFINE g == Append(f, line)  n == Len(f) + 1
<1>1. Len(f) \in Nat /\ DOMAIN f = 1 .. Len(f)
  BY Places1
<1>2. /\ LineSeq(g) /\ Len(g) = n /\ g[n] = line /\ \A i \in 1 .. Len(f) : g[i] = f[i]
  BY Appended
<1>3. DOMAIN g = 1 .. n
  BY <1>2, Places1
<1>4. Written(f, line) = g
  <2>1. f # <<>> => Last(f) # Torn
    <3>1. f # <<>> => Len(f) \in 1 .. Len(f)
      BY <1>1, EmptySeq DEF LineSeq
    <3>2. QED
      BY <3>1 DEF Last, Untorn
  <2>2. QED
    BY <2>1 DEF Written
<1> HIDE DEF g
<1>5. Rounds(g) = IF line.k = "r" THEN Rounds(f) \cup {n} ELSE Rounds(f)
  <2>1. \A i : i \in 1 .. n <=> i \in 1 .. Len(f) \/ i = n
    BY <1>1
  <2>2. Rounds(f) = {i \in 1 .. Len(f) : f[i].k = "r"} /\ Rounds(g) = {i \in 1 .. n : g[i].k = "r"}
    BY <1>1, <1>3 DEF Rounds
  <2> HIDE DEF n
  <2>3. QED
    BY <1>2, <2>1, <2>2
<1>6. /\ \A i \in Rounds(f) : i \in 1 .. Len(f) /\ g[i] = f[i] /\ Earlier(g, i, "r") = Earlier(f, i, "r")
      /\ Earlier(g, n, "r") = Rounds(f)
  <2>1. ASSUME NEW i \in Rounds(f) PROVE i \in 1 .. Len(f) /\ g[i] = f[i] /\ Earlier(g, i, "r") = Earlier(f, i, "r")
    <3>1. i \in 1 .. Len(f)
      BY <1>1 DEF Rounds
    <3>2. i \in Nat \ {0} /\ \A j \in 1 .. i - 1 : f[j] = g[j]
      BY <1>1, <1>2, <3>1
    <3>3. Earlier(g, i, "r") = Earlier(f, i, "r")
      BY <3>2, ReadsAlike
    <3>4. QED
      BY <1>2, <3>1, <3>3
  <2>2. n - 1 = Len(f)
    BY <1>1
  <2>3. Earlier(g, n, "r") = {j \in 1 .. Len(f) : g[j].k = "r"}
    BY <2>2 DEF Earlier
  <2>4. Rounds(f) = {j \in 1 .. Len(f) : f[j].k = "r"}
    BY <1>1 DEF Rounds
  <2>5. QED
    BY <1>2, <2>1, <2>3, <2>4
<1>7. Rounds(f) # {} => /\ Max(Rounds(f)) \in Rounds(f) /\ \A i \in Rounds(f) : i <= Max(Rounds(f))
                        /\ g[Max(Rounds(f))] = f[Max(Rounds(f))]
  <2>1. Rounds(f) \subseteq 0 .. Len(f)
    BY <1>1 DEF Rounds
  <2>2. QED
    BY <1>1, <1>6, <2>1, Extremes
<1>8. CopyFree(g)
  <2>1. ASSUME NEW i \in Rounds(f)
        PROVE  /\ IsInjective(g[i].of)
               /\ Earlier(g, i, "r") # {} => Range(g[i].of) \cap Range(g[Max(Earlier(g, i, "r"))].of) = {}
    <3>1. /\ IsInjective(f[i].of)
          /\ Earlier(f, i, "r") # {} => Range(f[i].of) \cap Range(f[Max(Earlier(f, i, "r"))].of) = {}
      BY DEF CopyFree
    <3>2. g[i] = f[i] /\ Earlier(g, i, "r") = Earlier(f, i, "r") /\ i \in 1 .. Len(f)
      BY <1>6
    <3>3. Earlier(f, i, "r") # {} => g[Max(Earlier(f, i, "r"))] = f[Max(Earlier(f, i, "r"))]
      <4>1. Earlier(f, i, "r") # {} => Max(Earlier(f, i, "r")) \in 1 .. i - 1
        BY <1>1, <3>2, LastEarlier
      <4>2. \A j \in 1 .. i - 1 : j \in 1 .. Len(f)
        BY <1>1, <3>2
      <4>3. QED
        BY <1>2, <4>1, <4>2
    <3>4. Max(Earlier(g, i, "r")) = Max(Earlier(f, i, "r"))
      <4>1. Earlier(g, i, "r") = Earlier(f, i, "r")
        BY <3>2
      <4>2. QED
        BY ONLY <4>1
    <3>5. QED
      BY <3>1, <3>2, <3>3, <3>4
  <2>2. ASSUME line.k = "r"
        PROVE  /\ IsInjective(g[n].of)
               /\ Earlier(g, n, "r") # {} => Range(g[n].of) \cap Range(g[Max(Earlier(g, n, "r"))].of) = {}
    <3>1. Earlier(g, n, "r") = Rounds(f)
      BY <1>6
    <3>2. Max(Earlier(g, n, "r")) = Max(Rounds(f))
      BY ONLY <3>1
    <3>3. Rounds(f) # {} => Range(line.of) \cap Range(f[Max(Rounds(f))].of) = {}
      BY <2>2 DEF LastOf
    <3>4. QED
      BY <1>2, <1>7, <2>2, <3>1, <3>2, <3>3
  <2>3. QED
    BY <1>5, <2>1, <2>2 DEF CopyFree
<1>9. Untorn(g)
  <2>1. \A i \in 1 .. n : i \in 1 .. Len(f) \/ i = n
    BY <1>1
  <2>2. QED
    BY <1>2, <2>1 DEF Untorn
<1>10. LastOf(g) = IF line.k = "r" THEN Range(line.of) ELSE LastOf(f)
  <2>1. CASE line.k = "r"
    <3>1. Max(Rounds(g)) = n
      <4>1. Rounds(g) \subseteq 0 .. n /\ n \in Rounds(g) /\ n \in Nat
        BY <1>1, <1>3, <1>5, <2>1 DEF Rounds
      <4>2. Max(Rounds(g)) \in Rounds(g) /\ n <= Max(Rounds(g))
        BY <4>1, Extremes
      <4>3. QED
        BY <4>1, <4>2
    <3>2. Rounds(g) # {}
      BY <1>5, <2>1
    <3>3. QED
      BY <1>2, <2>1, <3>1, <3>2 DEF LastOf
  <2>2. CASE line.k # "r"
    <3>1. Rounds(g) = Rounds(f)
      BY <1>5, <2>2
    <3>2. Max(Rounds(g)) = Max(Rounds(f))
      BY ONLY <3>1
    <3>3. QED
      BY <1>7, <2>2, <3>1, <3>2 DEF LastOf
  <2>3. QED
    BY <2>1, <2>2
<1>11. QED
  BY <1>2, <1>4, <1>8, <1>9, <1>10 DEF g

\* A flush whose write does not fail.
LEMMA FlushCopies ==
  ASSUME FilesRead(files), \A f \in Range(files) : CopyFree(f) /\ Untorn(f), trust \in Seq(Nat),
         NEW b, b.rows \in Seq(RoundMsgs), IsInjective(b.rows), Range(b.rows) \cap LastOf(files[1]) = {},
         NEW header, WriteRound(b, header)
  PROVE  (\A f \in Range(files') : CopyFree(f) /\ Untorn(f)) /\ LastOf(files'[1]) = Range(b.rows)
<1> DEFINE f == FilesFor[1]  line == LineFor(b, header)  lines == LinesFor(b, header)
<1>1. /\ FilesRead(FilesFor) /\ (Rotates => f = <<>>) /\ (~ Rotates => f = files[1])
      /\ Range(FilesFor) \subseteq Range(files) \cup {<<>>}
  BY MovedReads DEF FilesFor
<1>2. line.k = "r" /\ line.of = b.rows /\ Gives(line, trust)
  BY GivesBack DEF LineFor
<1>3. CopyFree(<<>>) /\ Untorn(<<>>) /\ LastOf(<<>>) = {}
  <2>1. Rounds(<<>>) = {} /\ Len(<<>>) = 0
    <3>1. DOMAIN <<>> = {}
      BY EmptyReads, Places1
    <3>2. QED
      BY <3>1, EmptyReads DEF Rounds
  <2>2. QED
    BY <2>1 DEF CopyFree, Untorn, LastOf
<1>4. FileReads(f) /\ LineSeq(f) /\ CopyFree(f) /\ Untorn(f) /\ Range(b.rows) \cap LastOf(f) = {}
  <2>1. CASE Rotates
    BY <1>1, <1>3, <2>1, EmptyReads
  <2>2. CASE ~ Rotates
    BY <1>1, <2>2, InUse DEF FileReads
  <2>3. QED
    BY <2>1, <2>2
<1>5. lines = <<UnlLine(trust), line>> \/ lines = <<line>>
  BY DEF LinesFor
<1>6. files' = [FilesFor EXCEPT ![1] = WrittenAll(f, lines)]
  BY DEF WriteRound
<1> HIDE DEF f, line, lines
<1>7. line # Torn /\ UnlLine(trust).k = "unl" /\ UnlLine(trust) # Torn
  <2>1. Torn.k = "torn"
    BY DEF Torn
  <2>2. UnlLine(trust).k = "unl"
    BY DEF UnlLine
  <2>3. QED
    BY <1>2, <2>1, <2>2
<1>8. IsInjective(line.of) /\ Range(line.of) = Range(b.rows) /\ Range(line.of) \cap LastOf(f) = {}
  BY <1>2, <1>4
<1>9. /\ CopyFree(WrittenAll(f, lines)) /\ Untorn(WrittenAll(f, lines)) /\ LastOf(WrittenAll(f, lines)) = Range(b.rows)
  <2>1. CASE lines = <<line>>
    <3>1. WrittenAll(f, lines) = Written(f, line)
      BY <2>1 DEF WrittenAll
    <3>2. QED
      <4>1. /\ Written(f, line) = Append(f, line)
            /\ CopyFree(Append(f, line)) /\ Untorn(Append(f, line))
            /\ LastOf(Append(f, line)) = IF line.k = "r" THEN Range(line.of) ELSE LastOf(f)
        <5>1. line.k = "r" => IsInjective(line.of) /\ Range(line.of) \cap LastOf(f) = {}
          BY <1>8
        <5>2. QED
          BY <1>4, <1>7, <5>1, GrownCopies
      <4>2. QED
        BY <1>2, <1>8, <3>1, <4>1
  <2>2. CASE lines = <<UnlLine(trust), line>>
    <3> DEFINE g == Append(f, UnlLine(trust))
    <3>1. WrittenAll(f, lines) = Written(Written(f, UnlLine(trust)), line)
      BY <2>2 DEF WrittenAll
    <3>2. Written(f, UnlLine(trust)) = g /\ CopyFree(g) /\ Untorn(g) /\ LineSeq(g) /\ LastOf(g) = LastOf(f)
      BY <1>4, <1>7, GrownCopies
    <3> HIDE DEF g
    <3>3. QED
      <4>1. /\ Written(g, line) = Append(g, line)
            /\ CopyFree(Append(g, line)) /\ Untorn(Append(g, line))
            /\ LastOf(Append(g, line)) = IF line.k = "r" THEN Range(line.of) ELSE LastOf(g)
        <5>1. line.k = "r" => IsInjective(line.of) /\ Range(line.of) \cap LastOf(g) = {}
          BY <1>8, <3>2
        <5>2. QED
          BY <1>7, <3>2, <5>1, GrownCopies
      <4>2. QED
        BY <1>2, <1>8, <3>1, <3>2, <4>1
  <2>3. QED
    BY <1>5, <2>1, <2>2
<1>10. Range(files') \subseteq Range(FilesFor) \cup {WrittenAll(f, lines)} /\ files'[1] = WrittenAll(f, lines)
  <2> DEFINE g == WrittenAll(f, lines)  hs == FilesFor
  <2>1. LineSeq(hs) /\ hs # <<>> /\ files' = [hs EXCEPT ![1] = g]
    BY <1>1, <1>6 DEF FilesRead
  <2> HIDE DEF g, hs
  <2>2. DOMAIN hs = 1 .. Len(hs) /\ Len(hs) \in Nat \ {0}
    BY <2>1, Places1, EmptySeq DEF LineSeq
  <2>3. DOMAIN files' = 1 .. Len(hs) /\ files'[1] = g /\ \A n \in 1 .. Len(hs) : n # 1 => files'[n] = hs[n]
    BY <2>1, <2>2
  <2>4. \A n \in 1 .. Len(hs) : files'[n] \in Range(hs) \cup {g}
    BY <2>2, <2>3 DEF Range
  <2>5. QED
    BY <2>3, <2>4 DEF g, hs, Range
<1>11. QED
  BY <1>1, <1>3, <1>9, <1>10

-------------------------------------------------------------------------------
(* The recorder *)

Batches == [rows : Seq(RoundMsgs), pdup : Nat, vdup : Nat, bad : Nat]

\* Without a failure yet, what waits is new: none of it is in the last line or twice.
NewRows ==
  faults = 0 =>
    /\ \A f \in Range(files) : CopyFree(f) /\ Untorn(f)
    /\ LastOf(files[1]) \subseteq seen_before
    /\ IsInjective(waiting.rows) /\ Range(waiting.rows) \subseteq seen_now /\ Range(waiting.rows) \cap seen_before = {}

RecordInv ==
  /\ FilesRead(files) /\ ReadyInUse
  /\ trust \in Seq(Nat) /\ waiting \in Batches /\ faults \in Nat
  /\ NewRows

\* A message gathered is a row more at most, and one more in the batch.
LEMMA GatheredRows ==
  ASSUME waiting \in Batches, NEW m \in RoundMsgs
  PROVE  /\ Gathered(m) \in Batches
         /\ Gathered(m).rows = waiting.rows \/ (first_copy(m) /\ Gathered(m).rows = Append(waiting.rows, m))
         /\ BatchTotal(Gathered(m)) = BatchTotal(waiting) + 1
<1>1. PICK rows \in Seq(RoundMsgs), pdup \in Nat, vdup \in Nat, bad \in Nat :
        waiting = [rows |-> rows, pdup |-> pdup, vdup |-> vdup, bad |-> bad]
  BY DEF Batches
<1>2. Append(rows, m) \in Seq(RoundMsgs) /\ waiting.rows = rows
  BY <1>1
<1>3. /\ [waiting EXCEPT !.rows = Append(@, m)] = [rows |-> Append(rows, m), pdup |-> pdup, vdup |-> vdup, bad |-> bad]
      /\ [waiting EXCEPT !.bad = @ + 1] = [rows |-> rows, pdup |-> pdup, vdup |-> vdup, bad |-> bad + 1]
      /\ [waiting EXCEPT !.pdup = @ + 1] = [rows |-> rows, pdup |-> pdup + 1, vdup |-> vdup, bad |-> bad]
      /\ [waiting EXCEPT !.vdup = @ + 1] = [rows |-> rows, pdup |-> pdup, vdup |-> vdup + 1, bad |-> bad]
  <2>1. [waiting EXCEPT !.rows = Append(@, m)] = [rows |-> Append(rows, m), pdup |-> pdup, vdup |-> vdup, bad |-> bad]
    <3> DEFINE more == Append(waiting.rows, m)
    <3>1. more = Append(rows, m)
      BY <1>2
    <3> HIDE DEF more
    <3>2. [waiting EXCEPT !.rows = more] = [rows |-> more, pdup |-> pdup, vdup |-> vdup, bad |-> bad]
      BY <1>1
    <3>3. QED
      BY <3>1, <3>2 DEF more
  <2>2. [waiting EXCEPT !.bad = @ + 1] = [rows |-> rows, pdup |-> pdup, vdup |-> vdup, bad |-> bad + 1]
    BY <1>1
  <2>3. [waiting EXCEPT !.pdup = @ + 1] = [rows |-> rows, pdup |-> pdup + 1, vdup |-> vdup, bad |-> bad]
    BY <1>1
  <2>4. [waiting EXCEPT !.vdup = @ + 1] = [rows |-> rows, pdup |-> pdup, vdup |-> vdup + 1, bad |-> bad]
    BY <1>1
  <2>5. QED
    BY <2>1, <2>2, <2>3, <2>4
<1>4. /\ [rows |-> Append(rows, m), pdup |-> pdup, vdup |-> vdup, bad |-> bad] \in Batches
      /\ [rows |-> rows, pdup |-> pdup, vdup |-> vdup, bad |-> bad + 1] \in Batches
      /\ [rows |-> rows, pdup |-> pdup + 1, vdup |-> vdup, bad |-> bad] \in Batches
      /\ [rows |-> rows, pdup |-> pdup, vdup |-> vdup + 1, bad |-> bad] \in Batches
  BY <1>2 DEF Batches
<1>5. CASE first_copy(m) /\ m.ok
  <2>1. Gathered(m) = [rows |-> Append(rows, m), pdup |-> pdup, vdup |-> vdup, bad |-> bad]
    BY <1>3, <1>5 DEF Gathered
  <2>2. BatchTotal(Gathered(m)) = Len(Append(rows, m)) + pdup + vdup + bad
    BY <2>1 DEF BatchTotal
  <2>3. Len(Append(rows, m)) = Len(rows) + 1 /\ Len(rows) \in Nat
    BY AppendProperties, LenProperties
  <2>4. BatchTotal(Gathered(m)) = BatchTotal(waiting) + 1
    BY <1>1, <2>2, <2>3 DEF BatchTotal
  <2>5. QED
    BY <1>2, <1>4, <1>5, <2>1, <2>4
<1>6. CASE ~ (first_copy(m) /\ m.ok)
  <2>1. \/ Gathered(m) = [rows |-> rows, pdup |-> pdup, vdup |-> vdup, bad |-> bad + 1]
        \/ Gathered(m) = [rows |-> rows, pdup |-> pdup + 1, vdup |-> vdup, bad |-> bad]
        \/ Gathered(m) = [rows |-> rows, pdup |-> pdup, vdup |-> vdup + 1, bad |-> bad]
    BY <1>3, <1>6 DEF Gathered
  <2>2. Gathered(m).rows = rows
    BY <2>1
  <2>3. BatchTotal(Gathered(m)) = BatchTotal(waiting) + 1
    <3>1. Len(rows) \in Nat
      BY LenProperties
    <3>2. BatchTotal(waiting) = Len(rows) + pdup + vdup + bad
      BY <1>1 DEF BatchTotal
    <3>3. QED
      BY <2>1, <3>1, <3>2 DEF BatchTotal
  <2>4. QED
    BY <1>2, <1>4, <2>1, <2>2, <2>3
<1>7. QED
  BY <1>5, <1>6

\* One more that was not there leaves none twice.
LEMMA StillOnce ==
  ASSUME NEW S, NEW rows, rows \in Seq(S), IsInjective(rows), NEW m, m \notin Range(rows)
  PROVE  IsInjective(Append(rows, m)) /\ Range(Append(rows, m)) = Range(rows) \cup {m}
<1> DEFINE g == Append(rows, m)
<1>1. LineSeq(rows) /\ Len(rows) \in Nat /\ DOMAIN rows = 1 .. Len(rows)
  BY OverRange, Places1
<1>2. /\ LineSeq(g) /\ Len(g) = Len(rows) + 1 /\ g[Len(rows) + 1] = m /\ \A i \in 1 .. Len(rows) : g[i] = rows[i]
      /\ Range(g) = Range(rows) \cup {m}
  BY <1>1, Appended
<1>3. DOMAIN g = 1 .. Len(rows) + 1
  BY <1>2, Places1
<1> HIDE DEF g
<1>4. \A i \in 1 .. Len(rows) : rows[i] \in Range(rows) /\ rows[i] # m
  BY <1>1 DEF Range
<1>5. \A i \in 1 .. Len(rows) + 1 : i \in 1 .. Len(rows) \/ i = Len(rows) + 1
  BY <1>1
<1>6. IsInjective(g)
  <2> SUFFICES ASSUME NEW i \in 1 .. Len(rows) + 1, NEW j \in 1 .. Len(rows) + 1, g[i] = g[j] PROVE i = j
    BY <1>3 DEF IsInjective
  <2>1. CASE i \in 1 .. Len(rows) /\ j \in 1 .. Len(rows)
    <3>1. rows[i] = rows[j]
      BY <1>2, <2>1
    <3>2. QED
      BY <1>1, <2>1, <3>1 DEF IsInjective
  <2>2. CASE ~ (i \in 1 .. Len(rows) /\ j \in 1 .. Len(rows))
    BY <1>2, <1>4, <1>5, <2>2
  <2>3. QED
    BY <2>1, <2>2
<1>7. QED
  BY <1>2, <1>6 DEF g

\* The empty batch is a batch, and holds no row (NoBatch, write_round's reset).
LEMMA NoBatchRows == NoBatch \in Batches /\ NoBatch.rows = <<>> /\ IsInjective(<<>>) /\ Range(<<>>) = {}
<1>1. <<>> \in Seq(RoundMsgs) /\ DOMAIN <<>> = {}
  BY EmptySeq, EmptyReads, Places1
<1>2. NoBatch \in Batches /\ NoBatch.rows = <<>>
  BY <1>1 DEF NoBatch, Batches
<1>3. QED
  BY <1>1, <1>2 DEF IsInjective, Range

\* A write that counts no failure is a whole one.
LEMMA WholeFlush ==
  ASSUME faults \in Nat, NEW b, NEW header, flush(b, header)
  PROVE  faults' \in Nat /\ (faults' = 0 => faults = 0 /\ WriteRound(b, header))
<1>1. WriteRound(b, header) => faults' = faults
  BY DEF WriteRound
<1>2. OpenFails(b) \/ RotateFails(b, header) \/ LineFails(b, header) => faults' = faults + 1
  BY DEF OpenFails, RotateFails, LineFails, Fails
<1>3. QED
  BY <1>1, <1>2 DEF flush

\* What a flush makes of what waited.
LEMMA FlushStep ==
  ASSUME RecordInv, NEW b \in Batches, NEW header, flush(b, header), trust' = trust, waiting' = NoBatch,
         faults = 0 => IsInjective(b.rows) /\ Range(b.rows) \cap seen_before = {} /\ Range(b.rows) \subseteq seen_before',
         seen_now' = {}
  PROVE  RecordInv'
<1>1. b.rows \in Seq(RoundMsgs)
  BY DEF Batches
<1>2. FilesRead(files') /\ ReadyInUse'
  BY <1>1, FlushReads DEF RecordInv, ReadyInUse
<1>3. faults' \in Nat /\ (faults' = 0 => faults = 0 /\ WriteRound(b, header))
  BY WholeFlush DEF RecordInv
<1>4. NewRows'
  <2> SUFFICES ASSUME faults' = 0
               PROVE  /\ \A f \in Range(files') : CopyFree(f) /\ Untorn(f)
                      /\ LastOf(files'[1]) \subseteq seen_before'
                      /\ IsInjective(waiting'.rows) /\ Range(waiting'.rows) \subseteq seen_now' /\ Range(waiting'.rows) \cap seen_before' = {}
    BY DEF NewRows
  <2>1. /\ WriteRound(b, header) /\ IsInjective(b.rows) /\ Range(b.rows) \cap seen_before = {} /\ Range(b.rows) \subseteq seen_before'
        /\ \A f \in Range(files) : CopyFree(f) /\ Untorn(f)
        /\ LastOf(files[1]) \subseteq seen_before
    BY <1>3 DEF RecordInv, NewRows
  <2>2. Range(b.rows) \cap LastOf(files[1]) = {}
    BY <2>1
  <2>3. (\A f \in Range(files') : CopyFree(f) /\ Untorn(f)) /\ LastOf(files'[1]) = Range(b.rows)
    BY <1>1, <2>1, <2>2, FlushCopies DEF RecordInv
  <2>4. QED
    BY <2>1, <2>3, NoBatchRows
<1>5. QED
  BY <1>2, <1>3, <1>4, NoBatchRows DEF RecordInv

\* A message keeps it.
LEMMA MessageStep ==
  ASSUME RecordInv, HandleMessage
  PROVE  RecordInv'
<1>1. PICK m \in RoundMsgs :
        LET b == Gathered(m) IN
        /\ UNCHANGED <<trust, last_header>>
        /\ IF Len(b.rows) >= MAX_BATCH_ROWS
           THEN /\ flush(b, NoHeader)
                /\ turned' = 0 /\ waiting' = NoBatch
                /\ seen_before' = seen_now \cup {m} /\ seen_now' = {}
           ELSE /\ waiting' = b
                /\ seen_now' = IF m \in seen_before THEN seen_now ELSE seen_now \cup {m}
                /\ UNCHANGED <<turned, seen_before, files, file_open, trust_due, noted, lines_lost, faults>>
  BY DEF HandleMessage
<1> DEFINE b == Gathered(m)
<1>2. /\ b \in Batches
      /\ b.rows = waiting.rows \/ (first_copy(m) /\ b.rows = Append(waiting.rows, m))
  BY GatheredRows DEF RecordInv
<1> HIDE DEF b
<1>3. faults = 0 => /\ IsInjective(b.rows) /\ Range(b.rows) \cap seen_before = {}
                    /\ Range(b.rows) \subseteq seen_now \cup {m} /\ (m \in seen_before => Range(b.rows) \subseteq seen_now)
  <2> SUFFICES ASSUME faults = 0
               PROVE  /\ IsInjective(b.rows) /\ Range(b.rows) \cap seen_before = {}
                      /\ Range(b.rows) \subseteq seen_now \cup {m} /\ (m \in seen_before => Range(b.rows) \subseteq seen_now)
    OBVIOUS
  <2>1. IsInjective(waiting.rows) /\ Range(waiting.rows) \subseteq seen_now /\ Range(waiting.rows) \cap seen_before = {}
    BY DEF RecordInv, NewRows
  <2>2. waiting.rows \in Seq(RoundMsgs)
    BY DEF RecordInv, Batches
  <2>3. CASE b.rows = waiting.rows
    BY <2>1, <2>3
  <2>4. CASE first_copy(m) /\ b.rows = Append(waiting.rows, m)
    <3>1. m \notin seen_before /\ m \notin seen_now
      BY <2>4 DEF first_copy
    <3>2. IsInjective(Append(waiting.rows, m)) /\ Range(Append(waiting.rows, m)) = Range(waiting.rows) \cup {m}
      BY <2>1, <2>2, <3>1, StillOnce
    <3>3. QED
      BY <2>1, <2>4, <3>1, <3>2
  <2>5. QED
    BY <1>2, <2>3, <2>4
<1>4. CASE Len(b.rows) >= MAX_BATCH_ROWS
  <2>1. /\ flush(b, NoHeader) /\ trust' = trust /\ waiting' = NoBatch /\ seen_now' = {}
        /\ seen_before' = seen_now \cup {m}
    BY <1>1, <1>4 DEF b
  <2>2. QED
    BY <1>2, <1>3, <2>1, FlushStep
<1>5. CASE ~ (Len(b.rows) >= MAX_BATCH_ROWS)
  <2>1. /\ waiting' = b /\ seen_now' = (IF m \in seen_before THEN seen_now ELSE seen_now \cup {m})
        /\ UNCHANGED <<trust, seen_before, files, file_open, trust_due, faults>>
    BY <1>1, <1>5 DEF b
  <2>2. ReadyInUse'
    BY <2>1 DEF RecordInv, ReadyInUse
  <2>3. NewRows'
    BY <1>3, <2>1 DEF RecordInv, NewRows
  <2>4. QED
    BY <1>2, <2>1, <2>2, <2>3 DEF RecordInv
<1>6. QED
  BY <1>4, <1>5

\* So do a header and a list.
LEMMA HeaderStep ==
  ASSUME RecordInv, HandleHeader
  PROVE  RecordInv'
<1>1. PICK h \in 1 .. MaxHeaders :
        /\ IF h = last_header
           THEN UNCHANGED <<turned, files, file_open, trust_due, waiting, seen_now, seen_before, noted, last_header, lines_lost, faults>>
           ELSE last_header' = h /\ flush(waiting, h) /\ Flushed
        /\ UNCHANGED trust
  BY DEF HandleHeader
<1>2. CASE h = last_header
  <2>1. UNCHANGED <<trust, files, file_open, trust_due, waiting, seen_now, seen_before, faults>>
    BY <1>1, <1>2
  <2>2. QED
    BY <2>1 DEF RecordInv, ReadyInUse, NewRows
<1>3. CASE h # last_header
  <2>1. /\ flush(waiting, h) /\ trust' = trust
        /\ waiting' = NoBatch /\ seen_before' = seen_now /\ seen_now' = {}
    BY <1>1, <1>3 DEF Flushed
  <2>2. waiting \in Batches
    BY DEF RecordInv
  <2>3. faults = 0 => /\ IsInjective(waiting.rows) /\ Range(waiting.rows) \cap seen_before = {}
                      /\ Range(waiting.rows) \subseteq seen_before'
    BY <2>1 DEF RecordInv, NewRows
  <2>4. QED
    BY <2>1, <2>2, <2>3, FlushStep
<1>4. QED
  BY <1>2, <1>3

\* A list taken over keeps the invariant: a changed one makes its table due (Writer, record_unl).
LEMMA UnlStep ==
  ASSUME RecordInv, HandleUnl
  PROVE  RecordInv'
<1>1. PICK l \in RecordLists :
        /\ trust' = l /\ trust_due' = (trust_due \/ l # trust)
        /\ UNCHANGED <<files, file_open, waiting, seen_now, seen_before, faults>>
  BY DEF HandleUnl
<1>2. l \in Seq(Nat)
  BY RecordConstants
<1>3. ReadyInUse'
  BY <1>1 DEF RecordInv, ReadyInUse
<1>4. NewRows'
  BY <1>1 DEF RecordInv, NewRows
<1>5. QED
  BY <1>1, <1>2, <1>3, <1>4 DEF RecordInv

\* What is handed over changes none of it, and a restart leaves the files as they are.
LEMMA OtherSteps ==
  ASSUME RecordInv, \/ record_message \/ record_unl \/ record_header \/ RecorderRestarts \/ UNCHANGED record_vars
  PROVE  RecordInv'
<1>1. CASE record_message \/ record_unl \/ record_header \/ UNCHANGED record_vars
  <2>1. UNCHANGED <<files, file_open, trust, trust_due, waiting, seen_now, seen_before, faults>>
    BY <1>1 DEF record_message, record_unl, record_header, Hand, record_vars
  <2>2. QED
    BY <2>1 DEF RecordInv, ReadyInUse, NewRows
<1>2. CASE RecorderRestarts
  <2>1. /\ faults' = faults + 1 /\ file_open' = FALSE /\ trust' = <<>> /\ waiting' = NoBatch /\ files' = files
    BY <1>2 DEF RecorderRestarts
  <2>2. faults' \in Nat /\ faults' # 0 /\ <<>> \in Seq(Nat)
    BY <2>1, EmptySeq DEF RecordInv
  <2>3. QED
    BY <2>1, <2>2, NoBatchRows DEF RecordInv, ReadyInUse, NewRows
<1>3. QED
  BY <1>1, <1>2

\* The first state keeps the invariant: one file without a line, not open, nothing gathered.
LEMMA FirstRecord == RecordInit => RecordInv
<1> SUFFICES ASSUME RecordInit PROVE RecordInv
  OBVIOUS
<1> USE DEF RecordInit
<1>1. files = <<<<>>>> /\ file_open = FALSE /\ trust = <<>> /\ waiting = NoBatch /\ seen_now = {} /\ seen_before = {} /\ faults = 0
  OBVIOUS
<1>2. <<<<>>>> \in Seq({<<>>}) /\ Len(<<<<>>>>) = 1 /\ <<<<>>>>[1] = <<>>
  OBVIOUS
<1>3. LineSeq(files) /\ Range(files) \subseteq {<<>>} /\ files # <<>>
  <2>1. files \in Seq({<<>>}) /\ Len(files) = 1
    BY <1>1, <1>2
  <2>2. files # <<>>
    BY <2>1, EmptySeq
  <2>3. QED
    BY <2>1, <2>2, OverRange
<1>4. FilesRead(files)
  BY <1>3, EmptyReads DEF FilesRead
<1>5. CopyFree(<<>>) /\ Untorn(<<>>) /\ LastOf(<<>>) = {}
  <2>1. Rounds(<<>>) = {} /\ Len(<<>>) = 0
    <3>1. DOMAIN <<>> = {}
      BY EmptyReads, Places1
    <3>2. QED
      BY <3>1, EmptyReads DEF Rounds
  <2>2. QED
    BY <2>1 DEF CopyFree, Untorn, LastOf
<1>6. files[1] = <<>>
  BY <1>1, <1>2
<1>7. NewRows
  <2>1. \A f \in Range(files) : f = <<>>
    BY <1>3
  <2>2. LastOf(files[1]) = {}
    BY <1>5, <1>6
  <2>3. QED
    BY <1>1, <1>5, <2>1, <2>2, NoBatchRows DEF NewRows
<1>8. <<>> \in Seq(Nat)
  BY EmptySeq
<1>9. QED
  BY <1>1, <1>4, <1>7, <1>8, NoBatchRows DEF RecordInv, ReadyInUse

\* What is in the lines can be read back.
LEMMA LinesAreRight ==
  ASSUME RecordInv
  PROVE  ReadsRight /\ NoCopies
<1>1. LineSeq(files) /\ DOMAIN files = 1 .. Len(files) /\ \A n \in DOMAIN files : files[n] \in Range(files) /\ FileReads(files[n])
  <2>1. LineSeq(files) /\ \A f \in Range(files) : FileReads(f)
    BY DEF RecordInv, FilesRead
  <2>2. QED
    BY <2>1, Places1 DEF Range
<1>2. \A n \in DOMAIN files : \A i \in Rounds(files[n]) : i \in 1 .. Len(files[n]) /\ files[n][i].k = "r"
  <2> SUFFICES ASSUME NEW n \in DOMAIN files, NEW i \in Rounds(files[n]) PROVE i \in 1 .. Len(files[n]) /\ files[n][i].k = "r"
    OBVIOUS
  <2>1. LineSeq(files[n])
    BY <1>1 DEF FileReads
  <2>2. DOMAIN files[n] = 1 .. Len(files[n])
    BY <2>1, Places1
  <2>3. QED
    BY <2>2 DEF Rounds
<1>3. ReadsRight
  <2> SUFFICES ASSUME NEW n \in DOMAIN files, NEW i \in Rounds(files[n])
               PROVE  LET f == files[n]
                          tables == Earlier(f, i, "unl")
                          glued == Earlier(f, i, "garbage")
                      IN \/ \E g \in glued : \A t \in tables : t < g
                         \/ LET list == f[Max(tables)].keys
                                trusted == {m \in Range(f[i].of) : Knows(list, m.by)}
                            IN /\ tables # {}
                               /\ decode_round(f[i], list) = trusted \cup f[i].pu
                               /\ f[i].pu \subseteq Range(f[i].of) \ trusted
    BY DEF ReadsRight
  <2>1. LineReads(files[n], i) /\ files[n][i].k = "r"
    BY <1>1, <1>2 DEF FileReads
  <2>2. QED
    BY <2>1 DEF LineReads, Gives
<1>4. NoCopies
  <2> SUFFICES ASSUME faults = 0, NEW n \in DOMAIN files, NEW i \in Rounds(files[n])
               PROVE  LET f == files[n]
                          earlier == Earlier(f, i, "r")
                      IN /\ IsInjective(f[i].of)
                         /\ earlier # {} => Range(f[i].of) \cap Range(f[Max(earlier)].of) = {}
    BY DEF NoCopies
  <2>1. CopyFree(files[n])
    BY <1>1 DEF RecordInv, NewRows
  <2>2. QED
    BY <2>1 DEF CopyFree
<1>5. QED
  BY <1>3, <1>4

-------------------------------------------------------------------------------
(* Sums *)

\* g has the sums of the first numbers of s.
Sums(g, s) == g = [i \in 0 .. Len(s) |-> IF i = 0 THEN 0 ELSE g[i - 1] + s[i]]

\* The recursive function of a sum, of as many of the numbers as one likes.
LEMMA SumsExist ==
  ASSUME NEW s \in Seq(Nat)
  PROVE  \E g : Sums(g, s)
<1> DEFINE Upto(n, g) == g = [i \in 0 .. n |-> IF i = 0 THEN 0 ELSE g[i - 1] + s[i]]
           Bad == {n \in 0 .. Len(s) : ~ \E g : Upto(n, g)}
<1>1. SUFFICES Bad = {}
  <2>1. Len(s) \in 0 .. Len(s)
    BY LenProperties
  <2>2. QED
    BY <2>1 DEF Sums
<1>2. SUFFICES ASSUME Bad # {} PROVE FALSE
  OBVIOUS
<1>3. Len(s) \in Nat /\ Bad \in SUBSET Nat
  BY LenProperties
<1>4. PICK m \in Bad : \A n \in Bad : m <= n
  BY <1>2, <1>3, LeastNatural
<1>5. CASE m = 0
  <2>1. Upto(0, [i \in 0 .. 0 |-> 0])
    OBVIOUS
  <2>2. QED
    BY <2>1, <1>4, <1>5
<1>6. CASE m # 0
  <2>1. m \in Nat \ {0} /\ m - 1 \in 0 .. Len(s) /\ ~ (m <= m - 1)
    BY <1>3, <1>4, <1>6
  <2>2. PICK h : Upto(m - 1, h)
    BY <2>1, <1>4
  <2> DEFINE g == [i \in 0 .. m |-> IF i = m THEN h[m - 1] + s[m] ELSE h[i]]
  <2>3. \A i \in 0 .. m : g[i] = IF i = 0 THEN 0 ELSE g[i - 1] + s[i]
    <3>1. \A i \in 0 .. m - 1 : h[i] = IF i = 0 THEN 0 ELSE h[i - 1] + s[i]
      BY <2>2
    <3>2. ASSUME NEW i \in 0 .. m PROVE g[i] = IF i = 0 THEN 0 ELSE g[i - 1] + s[i]
      <4>1. CASE i = m
        BY <4>1, <2>1
      <4>2. CASE i # m
        <5>1. i \in 0 .. m - 1 /\ (i # 0 => i - 1 \in 0 .. m /\ i - 1 # m)
          BY <4>2, <2>1
        <5>2. QED
          BY <5>1, <3>1
      <4>3. QED
        BY <4>1, <4>2
    <3>3. QED
      BY <3>2
  <2>4. Upto(m, g)
    BY <2>3
  <2>5. QED
    BY <2>4, <1>4
<1>7. QED
  BY <1>5, <1>6

\* So a sum is the last of some such sums.
LEMMA SumIsLast ==
  ASSUME NEW s \in Seq(Nat)
  PROVE  \E g : Sums(g, s) /\ SumOf(s) = g[Len(s)]
<1>1. Sums(CHOOSE g : Sums(g, s), s)
  BY SumsExist
<1>2. SumOf(s) = (CHOOSE g : Sums(g, s))[Len(s)]
  BY DEF SumOf, Sums
<1>3. QED
  BY <1>1, <1>2

\* Sum by sum.
LEMMA SumByStep ==
  ASSUME NEW s \in Seq(Nat), NEW g, Sums(g, s)
  PROVE  g[0] = 0 /\ Len(s) \in Nat /\ \A n \in 1 .. Len(s) : g[n] = g[n - 1] + s[n] /\ s[n] \in Nat
<1>1. Len(s) \in Nat /\ \A i \in 1 .. Len(s) : s[i] \in Nat
  BY LenProperties, ElementOfSeq
<1>2. \A i \in 0 .. Len(s) : g[i] = IF i = 0 THEN 0 ELSE g[i - 1] + s[i]
  BY DEF Sums
<1>3. \A n \in 1 .. Len(s) : n \in 0 .. Len(s) /\ n # 0
  BY <1>1
<1>4. 0 \in 0 .. Len(s)
  BY <1>1
<1>5. g[0] = 0
  BY <1>2, <1>4
<1>6. ASSUME NEW n \in 1 .. Len(s) PROVE g[n] = g[n - 1] + s[n]
  <2>1. n \in 0 .. Len(s) /\ n # 0
    BY <1>3
  <2>2. QED
    BY <1>2, <2>1
<1>7. QED
  BY <1>1, <1>5, <1>6

\* Sums are numbers, and numbers alike up to a place have the same sums up to it.
LEMMA SumsAlike ==
  ASSUME NEW s \in Seq(Nat), NEW t \in Seq(Nat), NEW g, NEW h, Sums(g, s), Sums(h, t),
         NEW m \in Nat, m <= Len(s), m <= Len(t), \A i \in 1 .. m : s[i] = t[i]
  PROVE  g[m] = h[m] /\ g[m] \in Nat
<1> DEFINE Bad == {n \in 0 .. m : ~ (g[n] = h[n] /\ g[n] \in Nat)}
<1>1. /\ Len(s) \in Nat /\ Len(t) \in Nat /\ g[0] = 0 /\ h[0] = 0
      /\ \A i \in 1 .. Len(s) : g[i] = g[i - 1] + s[i] /\ s[i] \in Nat
      /\ \A i \in 1 .. Len(t) : h[i] = h[i - 1] + t[i]
  BY SumByStep
<1>2. SUFFICES ASSUME Bad # {} PROVE FALSE
  OBVIOUS
<1>3. Bad \in SUBSET Nat
  OBVIOUS
<1>4. PICK n \in Bad : \A k \in Bad : n <= k
  BY <1>2, <1>3, LeastNatural
<1>5. n # 0
  BY <1>1, <1>4
<1>6. n - 1 \in 0 .. m /\ ~ (n <= n - 1) /\ n \in 1 .. m /\ n \in 1 .. Len(s) /\ n \in 1 .. Len(t)
  BY <1>1, <1>4, <1>5
<1>7. g[n - 1] = h[n - 1] /\ g[n - 1] \in Nat
  BY <1>4, <1>6
<1>8. s[n] = t[n] /\ s[n] \in Nat
  BY <1>1, <1>6
<1>9. g[n] = g[n - 1] + s[n] /\ h[n] = h[n - 1] + t[n]
  BY <1>1, <1>6
<1>10. g[n] = h[n] /\ g[n] \in Nat
  BY <1>7, <1>8, <1>9
<1>11. ~ (g[n] = h[n] /\ g[n] \in Nat)
  OBVIOUS
<1>12. QED
  BY <1>10, <1>11

\* The sum of no number.
LEMMA SumEmpty == SumOf(<<>>) = 0
<1>1. <<>> \in Seq(Nat) /\ Len(<<>>) = 0
  BY EmptySeq
<1>2. PICK g : Sums(g, <<>>) /\ SumOf(<<>>) = g[0]
  BY <1>1, SumIsLast
<1>3. QED
  BY <1>1, <1>2 DEF Sums

\* A sum is a number.
LEMMA SumIsNatural ==
  ASSUME NEW s \in Seq(Nat)
  PROVE  SumOf(s) \in Nat
<1>1. PICK g : Sums(g, s) /\ SumOf(s) = g[Len(s)]
  BY SumIsLast
<1>2. Len(s) \in Nat /\ Len(s) <= Len(s)
  BY LenProperties
<1>3. QED
  BY <1>1, <1>2, SumsAlike

\* The sum of one more at the end.
LEMMA SumOneMore ==
  ASSUME NEW s \in Seq(Nat), NEW t \in Seq(Nat), Len(s) = Len(t) + 1, \A i \in 1 .. Len(t) : s[i] = t[i]
  PROVE  SumOf(s) = SumOf(t) + s[Len(s)]
<1>1. PICK g : Sums(g, s) /\ SumOf(s) = g[Len(s)]
  BY SumIsLast
<1>2. PICK h : Sums(h, t) /\ SumOf(t) = h[Len(t)]
  BY SumIsLast
<1>3. Len(t) \in Nat /\ Len(t) <= Len(t) /\ Len(t) <= Len(s)
  BY LenProperties
<1>4. g[Len(t)] = h[Len(t)]
  <2> DEFINE m == Len(t)
  <2>1. m \in Nat /\ m <= Len(s) /\ m <= Len(t) /\ \A i \in 1 .. m : s[i] = t[i]
    BY <1>3
  <2> HIDE DEF m
  <2>2. g[m] = h[m]
    BY <1>1, <1>2, <2>1, SumsAlike
  <2>3. QED
    BY <2>2 DEF m
<1>5. Len(s) \in 1 .. Len(s) /\ Len(s) - 1 = Len(t)
  BY <1>3
<1>6. g[Len(s)] = g[Len(s) - 1] + s[Len(s)]
  BY <1>1, <1>5, SumByStep
<1>7. QED
  BY <1>1, <1>2, <1>4, <1>5, <1>6

\* The sum of one more at the front.
LEMMA SumOneBefore ==
  ASSUME NEW s \in Seq(Nat), NEW t \in Seq(Nat), Len(s) = Len(t) + 1, \A i \in 1 .. Len(t) : s[i + 1] = t[i]
  PROVE  SumOf(s) = s[1] + SumOf(t)
<1>1. PICK g : Sums(g, s) /\ SumOf(s) = g[Len(s)]
  BY SumIsLast
<1>2. PICK h : Sums(h, t) /\ SumOf(t) = h[Len(t)]
  BY SumIsLast
<1> DEFINE Bad == {n \in 0 .. Len(t) : ~ (g[n + 1] = s[1] + h[n] /\ h[n] \in Nat)}
<1>3. /\ Len(t) \in Nat /\ Len(s) \in Nat /\ g[0] = 0 /\ h[0] = 0
      /\ \A i \in 1 .. Len(s) : g[i] = g[i - 1] + s[i] /\ s[i] \in Nat
      /\ \A i \in 1 .. Len(t) : h[i] = h[i - 1] + t[i] /\ t[i] \in Nat
  BY <1>1, <1>2, SumByStep
<1>4. ASSUME Bad # {} PROVE FALSE
  <2>1. Bad \in SUBSET Nat
    OBVIOUS
  <2>2. PICK n \in Bad : \A k \in Bad : n <= k
    BY <1>4, <2>1, LeastNatural
  <2> DEFINE k == n + 1
  <2>3. n \in 0 .. Len(t) /\ k \in 1 .. Len(s) /\ k - 1 = n
    BY <1>3, <2>2
  <2>4. g[n + 1] = g[n] + s[n + 1]
    <3> HIDE DEF k
    <3>1. g[k] = g[k - 1] + s[k]
      BY <1>3, <2>3
    <3>2. g[k] = g[n] + s[k]
      BY <2>3, <3>1
    <3>3. QED
      BY <3>2 DEF k
  <2>5. CASE n = 0
    <3>1. g[0] = 0 /\ h[0] = 0 /\ s[1] \in Nat
      <4>1. 1 \in 1 .. Len(s)
        BY <1>3
      <4>2. QED
        BY <1>3, <4>1
    <3>2. QED
      BY <2>2, <2>4, <2>5, <3>1
  <2>6. CASE n # 0
    <3>1. n \in 1 .. Len(t) /\ n - 1 \in 0 .. Len(t) /\ ~ (n <= n - 1) /\ n - 1 + 1 = n /\ n \in 0 .. Len(s)
      BY <1>3, <2>3, <2>6
    <3>2. g[n - 1 + 1] = s[1] + h[n - 1] /\ h[n - 1] \in Nat
      BY <2>2, <3>1
    <3>3. g[n] = s[1] + h[n - 1]
      BY <3>1, <3>2
    <3>4. h[n] = h[n - 1] + t[n] /\ s[n + 1] = t[n] /\ t[n] \in Nat
      BY <1>3, <2>6, <3>1
    <3>5. s[1] \in Nat
      <4>1. 1 \in 1 .. Len(s)
        BY <1>3
      <4>2. QED
        BY <1>3, <4>1
    <3>6. QED
      BY <2>2, <2>4, <3>2, <3>3, <3>4, <3>5
  <2>7. QED
    BY <2>5, <2>6
<1>5. Len(t) \in 0 .. Len(t)
  BY <1>3
<1>6. g[Len(t) + 1] = s[1] + h[Len(t)]
  BY <1>4, <1>5
<1>7. QED
  BY <1>1, <1>2, <1>6

-------------------------------------------------------------------------------
(* What the files count *)

\* A file whose lines come to numbers, and files of such.
Weighed(f) == LineSeq(f) /\ \A i \in 1 .. Len(f) : LineTotal(f[i]) \in Nat
AllWeighed(fs) == LineSeq(fs) /\ \A f \in Range(fs) : Weighed(f)

Weights(f) == [i \in DOMAIN f |-> LineTotal(f[i])]
CountsOf(fs) == [n \in DOMAIN fs |-> Counted(fs[n])]

\* The lines of such a file come to numbers, and the file to their sum.
LEMMA WeightsAre ==
  ASSUME NEW f, Weighed(f)
  PROVE  /\ Weights(f) \in Seq(Nat) /\ Len(Weights(f)) = Len(f) /\ Len(f) \in Nat
         /\ \A i \in 1 .. Len(f) : Weights(f)[i] = LineTotal(f[i])
         /\ Counted(f) = SumOf(Weights(f)) /\ Counted(f) \in Nat
<1>1. Len(f) \in Nat /\ DOMAIN f = 1 .. Len(f)
  BY Places1 DEF Weighed
<1>2. Weights(f) \in [1 .. Len(f) -> Nat]
  BY <1>1 DEF Weights, Weighed
<1>3. Weights(f) \in Seq(Nat) /\ Len(Weights(f)) = Len(f)
  BY <1>1, <1>2, SeqDef, LenProperties
<1>4. \A i \in 1 .. Len(f) : Weights(f)[i] = LineTotal(f[i])
  BY <1>1 DEF Weights
<1>5. Counted(f) = SumOf(Weights(f))
  BY DEF Counted, Weights
<1>6. QED
  BY <1>1, <1>3, <1>4, <1>5, SumIsNatural

\* A file without lines counts nothing.
LEMMA EmptyCounts == Weighed(<<>>) /\ Counted(<<>>) = 0
<1>1. Weighed(<<>>)
  BY EmptyReads DEF Weighed
<1>2. Weights(<<>>) = <<>>
  <2>1. Weights(<<>>) \in Seq(Nat) /\ Len(Weights(<<>>)) = 0
    BY <1>1, WeightsAre, EmptyReads
  <2>2. QED
    BY <2>1, EmptySeq
<1>3. QED
  BY <1>1, <1>2, WeightsAre, SumEmpty

\* A line more.
LEMMA LineMore ==
  ASSUME NEW f, Weighed(f), NEW x, LineTotal(x) \in Nat
  PROVE  Weighed(Append(f, x)) /\ Counted(Append(f, x)) = Counted(f) + LineTotal(x)
<1> DEFINE g == Append(f, x)
<1>1. /\ LineSeq(g) /\ Len(g) = Len(f) + 1 /\ g[Len(f) + 1] = x /\ Len(f) \in Nat
      /\ \A i \in 1 .. Len(f) : g[i] = f[i]
  BY Appended, Places1 DEF Weighed
<1> HIDE DEF g
<1>2. Weighed(g)
  <2>1. \A i \in 1 .. Len(g) : i = Len(f) + 1 \/ i \in 1 .. Len(f)
    BY <1>1
  <2>2. QED
    BY <1>1, <2>1 DEF Weighed
<1>3. SumOf(Weights(g)) = SumOf(Weights(f)) + Weights(g)[Len(Weights(g))]
  <2>1. /\ Weights(g) \in Seq(Nat) /\ Weights(f) \in Seq(Nat)
        /\ Len(Weights(g)) = Len(Weights(f)) + 1
        /\ \A i \in 1 .. Len(Weights(f)) : Weights(g)[i] = Weights(f)[i]
    <3>1. \A i \in 1 .. Len(f) : i \in 1 .. Len(g)
      BY <1>1
    <3>2. QED
      BY <1>1, <1>2, <3>1, WeightsAre
  <2>2. QED
    BY <2>1, SumOneMore
<1>4. Weights(g)[Len(Weights(g))] = LineTotal(x)
  <2>1. Len(g) \in 1 .. Len(g)
    BY <1>1
  <2>2. QED
    BY <1>1, <1>2, <2>1, WeightsAre
<1>5. QED
  BY <1>2, <1>3, <1>4, WeightsAre DEF g

\* The last line taken away.
LEMMA LineLess ==
  ASSUME NEW f, Weighed(f), f # <<>>, LineTotal(Last(f)) = 0
  PROVE  Weighed(Front(f)) /\ Counted(Front(f)) = Counted(f)
<1> DEFINE g == Front(f)
<1>1. /\ LineSeq(g) /\ Len(g) = Len(f) - 1 /\ Len(f) - 1 \in Nat /\ Len(f) \in Nat
      /\ \A i \in 1 .. Len(f) - 1 : g[i] = f[i]
  BY Fronted, Places1 DEF Weighed
<1> HIDE DEF g
<1>2. Weighed(g)
  <2>1. \A i \in 1 .. Len(g) : i \in 1 .. Len(f) /\ i \in 1 .. Len(f) - 1
    BY <1>1
  <2>2. QED
    BY <1>1, <2>1 DEF Weighed
<1>3. SumOf(Weights(f)) = SumOf(Weights(g)) + Weights(f)[Len(Weights(f))]
  <2>1. /\ Weights(g) \in Seq(Nat) /\ Weights(f) \in Seq(Nat)
        /\ Len(Weights(f)) = Len(Weights(g)) + 1
        /\ \A i \in 1 .. Len(Weights(g)) : Weights(f)[i] = Weights(g)[i]
    <3>1. \A i \in 1 .. Len(g) : i \in 1 .. Len(f) /\ i \in 1 .. Len(f) - 1
      BY <1>1
    <3>2. Len(f) = Len(g) + 1
      BY <1>1
    <3>3. QED
      BY <1>1, <1>2, <3>1, <3>2, WeightsAre
  <2>2. QED
    BY <2>1, SumOneMore
<1>4. Weights(f)[Len(Weights(f))] = 0
  <2>1. Len(f) \in 1 .. Len(f)
    BY <1>1
  <2>2. QED
    BY <2>1, WeightsAre DEF Last
<1>5. Counted(g) \in Nat
  BY <1>2, WeightsAre
<1>6. QED
  BY <1>2, <1>3, <1>4, <1>5, WeightsAre DEF g

\* A line written counts, unless the line before it was cut short.
LEMMA WrittenCounts ==
  ASSUME NEW f, Weighed(f), NEW line, LineTotal(line) \in Nat
  PROVE  /\ Weighed(Written(f, line))
         /\ (f = <<>> \/ Last(f) # Torn) => Counted(Written(f, line)) = Counted(f) + LineTotal(line)
         /\ LineTotal(line) = 0 => Counted(Written(f, line)) = Counted(f)
         /\ Written(f, line) # <<>>
         /\ line # Torn => Last(Written(f, line)) # Torn
<1>1. LineTotal(Torn) = 0 /\ LineTotal(Garbage) = 0 /\ Torn # Garbage
  BY DEF LineTotal, Torn, Garbage
<1>2. Counted(f) \in Nat
  BY WeightsAre
<1>3. CASE f # <<>> /\ Last(f) = Torn
  <2> DEFINE x == IF line = Torn THEN Torn ELSE Garbage
  <2>1. Weighed(Front(f)) /\ Counted(Front(f)) = Counted(f)
    BY <1>1, <1>3, LineLess
  <2>2. LineTotal(x) = 0 /\ Written(f, line) = Append(Front(f), x) /\ (line # Torn => x # Torn)
    BY <1>1, <1>3 DEF Written
  <2> HIDE DEF x
  <2>3. Weighed(Append(Front(f), x)) /\ Counted(Append(Front(f), x)) = Counted(f) + 0
    BY <2>1, <2>2, LineMore
  <2>4. Append(Front(f), x) # <<>> /\ Last(Append(Front(f), x)) = x
    <3>1. LineSeq(Front(f)) /\ Len(Front(f)) \in Nat
      BY <2>1, Places1 DEF Weighed
    <3>2. QED
      BY <3>1, Appended DEF Last
  <2>5. QED
    BY <1>2, <1>3, <2>2, <2>3, <2>4
<1>4. CASE ~ (f # <<>> /\ Last(f) = Torn)
  <2>1. Written(f, line) = Append(f, line)
    BY <1>4 DEF Written
  <2>2. Weighed(Append(f, line)) /\ Counted(Append(f, line)) = Counted(f) + LineTotal(line)
    BY LineMore
  <2>3. Append(f, line) # <<>> /\ Last(Append(f, line)) = line
    <3>1. LineSeq(f) /\ Len(f) \in Nat
      BY Places1 DEF Weighed
    <3>2. QED
      BY <3>1, Appended DEF Last
  <2>4. QED
    BY <1>2, <2>1, <2>2, <2>3
<1>5. QED
  BY <1>3, <1>4

\* A round that reaches a file whole counts, and whatever else of a flush's lines does not.
LEMMA LinesCount ==
  ASSUME NEW f, Weighed(f), NEW list, NEW line, LineTotal(line) \in Nat, line # Torn,
         NEW lines, lines = <<UnlLine(list), line>> \/ (lines = <<line>> /\ f # <<>> /\ Last(f) # Torn)
  PROVE  /\ Weighed(WrittenAll(f, lines)) /\ Counted(WrittenAll(f, lines)) = Counted(f) + LineTotal(line)
         /\ \A cut \in Cuts(lines) : cut # lines => Weighed(WrittenAll(f, cut)) /\ Counted(WrittenAll(f, cut)) = Counted(f)
<1> DEFINE u == UnlLine(list)
           Same(g) == Weighed(g) /\ Counted(g) = Counted(f)
<1>1. LineTotal(u) = 0 /\ LineTotal(Torn) = 0 /\ 0 \in Nat /\ u # Torn
  BY DEF LineTotal, UnlLine, Torn
<1> HIDE DEF u
<1>2. Same(f) /\ Same(Written(f, u)) /\ Same(Written(f, Torn))
  BY <1>1, WrittenCounts
<1>3. Written(f, u) # <<>> /\ Last(Written(f, u)) # Torn
  BY <1>1, WrittenCounts
<1>4. Same(Written(Written(f, u), Torn))
  BY <1>1, <1>2, WrittenCounts
<1>5. Weighed(Written(Written(f, u), line)) /\ Counted(Written(Written(f, u), line)) = Counted(f) + LineTotal(line)
  BY <1>2, <1>3, WrittenCounts
<1>6. /\ \A x : WrittenAll(f, <<x>>) = Written(f, x)
      /\ \A x, y : WrittenAll(f, <<x, y>>) = Written(Written(f, x), y)
      /\ WrittenAll(f, <<>>) = f
  BY DEF WrittenAll
<1> HIDE DEF Same
<1>7. CASE lines = <<u, line>>
  <2>1. ASSUME NEW cut \in {<<>>, <<u>>, <<Torn>>, <<u, Torn>>} PROVE Same(WrittenAll(f, cut))
    BY <1>2, <1>4, <1>6
  <2>2. \A cut \in Cuts(lines) : cut = lines \/ cut \in {<<>>, <<u>>, <<Torn>>, <<u, Torn>>}
    <3>1. Cuts(<<u, line>>) \subseteq {<<>>, <<u>>, <<u, line>>, <<Torn>>, <<u, Torn>>}
      BY CutsOf
    <3>2. Cuts(lines) \subseteq {<<>>, <<u>>, lines, <<Torn>>, <<u, Torn>>}
      BY <1>7, <3>1
    <3>3. QED
      BY ONLY <3>2
  <2>3. QED
    BY <1>5, <1>6, <1>7, <2>1, <2>2 DEF Same
<1>8. CASE lines = <<line>> /\ f # <<>> /\ Last(f) # Torn
  <2>1. Weighed(Written(f, line)) /\ Counted(Written(f, line)) = Counted(f) + LineTotal(line)
    BY <1>8, WrittenCounts
  <2>2. ASSUME NEW cut \in {<<>>, <<Torn>>} PROVE Same(WrittenAll(f, cut))
    BY <1>2, <1>6
  <2>3. \A cut \in Cuts(lines) : cut = lines \/ cut \in {<<>>, <<Torn>>}
    BY <1>8, CutsOf
  <2>4. QED
    BY <1>6, <1>8, <2>1, <2>2, <2>3 DEF Same
<1>9. QED
  BY <1>7, <1>8 DEF u

\* The counts of some files are numbers, and so is their sum.
LEMMA CountsAre ==
  ASSUME NEW fs, AllWeighed(fs)
  PROVE  /\ CountsOf(fs) \in Seq(Nat) /\ Len(CountsOf(fs)) = Len(fs) /\ Len(fs) \in Nat
         /\ \A n \in 1 .. Len(fs) : CountsOf(fs)[n] = Counted(fs[n]) /\ Weighed(fs[n]) /\ Counted(fs[n]) \in Nat
         /\ CountedIn(fs) = SumOf(CountsOf(fs)) /\ CountedIn(fs) \in Nat
<1>1. Len(fs) \in Nat /\ DOMAIN fs = 1 .. Len(fs) /\ \A n \in 1 .. Len(fs) : fs[n] \in Range(fs)
  BY Places1 DEF AllWeighed
<1>2. \A n \in 1 .. Len(fs) : Weighed(fs[n]) /\ Counted(fs[n]) \in Nat
  BY <1>1, WeightsAre DEF AllWeighed
<1>3. CountsOf(fs) \in [1 .. Len(fs) -> Nat]
  BY <1>1, <1>2 DEF CountsOf
<1>4. CountsOf(fs) \in Seq(Nat) /\ Len(CountsOf(fs)) = Len(fs)
  BY <1>1, <1>3, SeqDef, LenProperties
<1>5. \A n \in 1 .. Len(fs) : CountsOf(fs)[n] = Counted(fs[n])
  BY <1>1 DEF CountsOf
<1>6. CountedIn(fs) = SumOf(CountsOf(fs))
  BY DEF CountedIn, CountsOf
<1>7. QED
  BY <1>1, <1>2, <1>4, <1>5, <1>6, SumIsNatural

\* One file before others.
LEMMA OneBefore ==
  ASSUME NEW fs, AllWeighed(fs), NEW z, AllWeighed(z), Len(fs) = Len(z) + 1, \A i \in 1 .. Len(z) : fs[i + 1] = z[i]
  PROVE  CountedIn(fs) = Counted(fs[1]) + CountedIn(z)
<1>1. /\ CountsOf(fs) \in Seq(Nat) /\ CountsOf(z) \in Seq(Nat) /\ Len(CountsOf(fs)) = Len(fs) /\ Len(CountsOf(z)) = Len(z)
      /\ Len(z) \in Nat /\ CountedIn(fs) = SumOf(CountsOf(fs)) /\ CountedIn(z) = SumOf(CountsOf(z))
      /\ \A n \in 1 .. Len(fs) : CountsOf(fs)[n] = Counted(fs[n])
      /\ \A n \in 1 .. Len(z) : CountsOf(z)[n] = Counted(z[n])
  BY CountsAre
<1>2. \A i \in 1 .. Len(CountsOf(z)) : CountsOf(fs)[i + 1] = CountsOf(z)[i]
  <2> SUFFICES ASSUME NEW i \in 1 .. Len(z) PROVE CountsOf(fs)[i + 1] = CountsOf(z)[i]
    BY <1>1
  <2>1. i + 1 \in 1 .. Len(fs)
    BY <1>1
  <2>2. QED
    BY <1>1, <2>1
<1>3. SumOf(CountsOf(fs)) = CountsOf(fs)[1] + SumOf(CountsOf(z))
  BY <1>1, <1>2, SumOneBefore
<1>4. 1 \in 1 .. Len(fs)
  BY <1>1
<1>5. QED
  BY <1>1, <1>3, <1>4

\* The files but the newest.
LEMMA Rest ==
  ASSUME NEW fs, AllWeighed(fs), fs # <<>>
  PROVE  /\ AllWeighed(Tail(fs)) /\ Len(fs) = Len(Tail(fs)) + 1 /\ Len(Tail(fs)) \in Nat
         /\ \A i \in 1 .. Len(Tail(fs)) : fs[i + 1] = Tail(fs)[i]
         /\ Range(Tail(fs)) \subseteq Range(fs)
<1> DEFINE S == Range(fs)  z == Tail(fs)
<1>1. fs \in Seq(S)
  BY DEF AllWeighed, LineSeq
<1>2. Len(fs) \in Nat \ {0}
  BY <1>1, EmptySeq, LenProperties
<1>3. z \in Seq(S) /\ Len(z) = Len(fs) - 1 /\ \A i \in 1 .. Len(z) : z[i] = fs[i + 1]
  BY <1>1, HeadTailProperties
<1> HIDE DEF S, z
<1>4. LineSeq(z) /\ Range(z) \subseteq S
  BY <1>3, OverRange
<1>5. AllWeighed(z)
  BY <1>4 DEF AllWeighed, S
<1>6. QED
  BY <1>2, <1>3, <1>4, <1>5 DEF S, z

\* Two files before others.
LEMMA TwoBefore ==
  ASSUME NEW fs, AllWeighed(fs), NEW z, AllWeighed(z), Len(fs) = Len(z) + 2, \A i \in 1 .. Len(z) : fs[i + 2] = z[i]
  PROVE  CountedIn(fs) = Counted(fs[1]) + Counted(fs[2]) + CountedIn(z)
<1> DEFINE t == Tail(fs)
<1>1. Len(z) \in Nat /\ Len(fs) \in Nat
  BY CountsAre
<1>2. fs # <<>>
  BY <1>1, EmptyReads
<1>3. AllWeighed(t) /\ Len(fs) = Len(t) + 1 /\ Len(t) \in Nat /\ \A i \in 1 .. Len(t) : fs[i + 1] = t[i]
  BY <1>2, Rest
<1> HIDE DEF t
<1>4. CountedIn(fs) = Counted(fs[1]) + CountedIn(t)
  BY <1>3, OneBefore
<1>5. Len(t) = Len(z) + 1 /\ t[1] = fs[2]
  <2>1. Len(t) = Len(z) + 1 /\ 1 \in 1 .. Len(t)
    BY <1>1, <1>3
  <2>2. t[1] = fs[1 + 1]
    BY <1>3, <2>1
  <2>3. QED
    BY <2>1, <2>2
<1>6. \A i \in 1 .. Len(z) : t[i + 1] = z[i]
  <2> SUFFICES ASSUME NEW i \in 1 .. Len(z) PROVE t[i + 1] = z[i]
    OBVIOUS
  <2>1. i + 1 \in 1 .. Len(t) /\ i + 1 + 1 = i + 2
    BY <1>1, <1>5
  <2>2. t[i + 1] = fs[i + 1 + 1]
    BY <1>3, <2>1
  <2>3. QED
    BY <2>1, <2>2
<1>7. CountedIn(t) = Counted(t[1]) + CountedIn(z)
  BY <1>3, <1>5, <1>6, OneBefore
<1>8. Counted(fs[1]) \in Nat /\ Counted(fs[2]) \in Nat /\ CountedIn(z) \in Nat
  <2>1. 1 \in 1 .. Len(fs) /\ 2 \in 1 .. Len(fs)
    BY <1>1
  <2>2. QED
    BY <2>1, CountsAre
<1>9. QED
  BY <1>4, <1>5, <1>7, <1>8

\* Two files put before others.
LEMMA PutBefore ==
  ASSUME NEW x, NEW y, NEW z, LineSeq(z)
  PROVE  LET g == <<x, y>> \o z IN
         /\ LineSeq(g) /\ Len(g) = Len(z) + 2 /\ g[1] = x /\ g[2] = y /\ \A i \in 1 .. Len(z) : g[i + 2] = z[i]
         /\ Range(g) \subseteq Range(z) \cup {x, y}
<1> DEFINE S == Range(z) \cup {x, y}  a == <<x, y>>  g == a \o z
<1>1. a \in Seq(S) /\ Len(a) = 2 /\ a[1] = x /\ a[2] = y
  OBVIOUS
<1>2. z \in Seq(S) /\ Len(z) \in Nat
  <2>1. z \in Seq(Range(z)) /\ Range(z) \subseteq S
    BY DEF LineSeq
  <2>2. QED
    BY <2>1, SeqMonotonic, LenProperties
<1> HIDE DEF S, a
<1>3. /\ g \in Seq(S) /\ Len(g) = Len(a) + Len(z)
      /\ \A i \in 1 .. Len(a) + Len(z) : g[i] = IF i <= Len(a) THEN a[i] ELSE z[i - Len(a)]
  BY <1>1, <1>2, ConcatProperties
<1> HIDE DEF g
<1>4. /\ g \in Seq(S) /\ Len(g) = Len(z) + 2
      /\ \A i \in 1 .. Len(z) + 2 : g[i] = IF i <= 2 THEN a[i] ELSE z[i - 2]
  BY <1>1, <1>2, <1>3
<1>5. g[1] = x /\ g[2] = y
  <2>1. 1 \in 1 .. Len(z) + 2 /\ 2 \in 1 .. Len(z) + 2
    BY <1>2
  <2>2. QED
    BY <1>1, <1>4, <2>1
<1>6. \A i \in 1 .. Len(z) : g[i + 2] = z[i]
  <2> SUFFICES ASSUME NEW i \in 1 .. Len(z) PROVE g[i + 2] = z[i]
    OBVIOUS
  <2>1. i + 2 \in 1 .. Len(z) + 2 /\ ~ (i + 2 <= 2) /\ i + 2 - 2 = i
    BY <1>2
  <2>2. QED
    BY <1>4, <2>1
<1>7. LineSeq(g) /\ Range(g) \subseteq S
  BY <1>4, OverRange
<1>8. QED
  BY <1>4, <1>5, <1>6, <1>7 DEF S, a, g

\* As many files as there may be to lose none.
LEMMA NoneLost ==
  ASSUME NEW S, NEW s \in Seq(S), Len(FirstOf(s, KEEP + 1)) <= KEEP
  PROVE  FirstOf(s, KEEP + 1) = s /\ Len(s) <= KEEP
<1>1. Len(s) \in Nat /\ KEEP \in Nat /\ \A i \in 1 .. Len(s) : s[i] \in S
  BY RecordConstants, ElementOfSeq, LenProperties
<1>2. CASE Len(s) <= KEEP + 1
  BY <1>2 DEF FirstOf
<1>3. CASE ~ (Len(s) <= KEEP + 1)
  <2> DEFINE n == KEEP + 1  t == SubSeq(s, 1, n)
  <2>1. n \in Nat \ {0} /\ ~ (n <= KEEP) /\ \A i \in 1 .. n : s[i] \in S
    BY <1>1, <1>3
  <2> HIDE DEF n
  <2>2. Len(t) = IF 1 <= n THEN n - 1 + 1 ELSE 0
    BY <2>1, SubSeqProperties
  <2>3. FirstOf(s, n) = t
    BY <1>3 DEF FirstOf, n
  <2>4. Len(t) = n
    BY <2>1, <2>2
  <2>5. QED
    BY <2>1, <2>3, <2>4 DEF n
<1>4. QED
  BY <1>2, <1>3

\* Until a file is thrown away, files moved up count what they counted.
LEMMA MovedCounts ==
  ASSUME NEW fs, FilesRead(fs), AllWeighed(fs)
  PROVE  /\ AllWeighed(MovedUp(fs)) /\ AllWeighed(Halfway(fs))
         /\ Len(MovedUp(fs)) <= KEEP => Len(fs) <= KEEP /\ CountedIn(MovedUp(fs)) = CountedIn(fs)
         /\ Len(Halfway(fs)) <= KEEP => Len(fs) <= KEEP /\ CountedIn(Halfway(fs)) = CountedIn(fs)
<1>1. AllWeighed(MovedUp(fs)) /\ AllWeighed(Halfway(fs))
  <2>1. /\ LineSeq(MovedUp(fs)) /\ Range(MovedUp(fs)) \subseteq Range(fs) \cup {<<>>}
        /\ LineSeq(Halfway(fs)) /\ Range(Halfway(fs)) \subseteq Range(fs) \cup {<<>>}
    BY MovedReads DEF FilesRead
  <2>2. \A f \in Range(fs) \cup {<<>>} : Weighed(f)
    BY EmptyCounts DEF AllWeighed
  <2>3. QED
    BY <2>1, <2>2 DEF AllWeighed
<1>2. /\ fs # <<>> /\ Len(fs) \in Nat \ {0} /\ LineSeq(fs) /\ \A i \in 1 .. Len(fs) : fs[i] \in Range(fs)
      /\ KEEP \in Nat /\ CountedIn(fs) \in Nat /\ Weighed(fs[1]) /\ Counted(fs[1]) \in Nat
  <2>1. fs # <<>> /\ LineSeq(fs) /\ KEEP \in Nat /\ CountedIn(fs) \in Nat
    BY RecordConstants, CountsAre DEF FilesRead
  <2>2. Len(fs) \in Nat \ {0} /\ \A i \in 1 .. Len(fs) : fs[i] \in Range(fs)
    BY <2>1, EmptySeq, Places1 DEF LineSeq
  <2>3. 1 \in 1 .. Len(fs)
    BY <2>2
  <2>4. Weighed(fs[1]) /\ Counted(fs[1]) \in Nat
    BY <2>3, CountsAre
  <2>5. QED
    BY <2>1, <2>2, <2>4
<1>3. ASSUME NEW x, NEW y, NEW z, AllWeighed(z), Weighed(x), Weighed(y)
      PROVE  LET g == <<x, y>> \o z IN
             /\ CountedIn(g) = Counted(x) + Counted(y) + CountedIn(z)
             /\ LineSeq(g) /\ Len(g) = Len(z) + 2
  <2> DEFINE g == <<x, y>> \o z
  <2>1. /\ LineSeq(g) /\ Len(g) = Len(z) + 2 /\ g[1] = x /\ g[2] = y /\ \A i \in 1 .. Len(z) : g[i + 2] = z[i]
        /\ Range(g) \subseteq Range(z) \cup {x, y}
    <3>1. LineSeq(z)
      BY <1>3 DEF AllWeighed
    <3>2. QED
      BY <3>1, PutBefore
  <2> HIDE DEF g
  <2>2. AllWeighed(g)
    BY <1>3, <2>1 DEF AllWeighed
  <2>3. CountedIn(g) = Counted(g[1]) + Counted(g[2]) + CountedIn(z)
    BY <1>3, <2>1, <2>2, TwoBefore
  <2>4. QED
    BY <2>1, <2>3 DEF g
<1>4. ASSUME Len(MovedUp(fs)) <= KEEP PROVE Len(fs) <= KEEP /\ CountedIn(MovedUp(fs)) = CountedIn(fs)
  <2> DEFINE k == IF Len(fs) > 1 /\ fs[2] = <<>> THEN 3 ELSE 2
             z == SubSeq(fs, k, Len(fs))
             g == <<<<>>, fs[1]>> \o z
  <2>1. k = 2 \/ (k = 3 /\ Len(fs) > 1 /\ fs[2] = <<>>)
    OBVIOUS
  <2>2. MovedUp(fs) = FirstOf(g, KEEP + 1)
    BY DEF MovedUp
  <2> HIDE DEF k
  <2>3. /\ z \in Seq(Range(fs)) /\ Len(z) = Len(fs) - k + 1 /\ \A i \in 1 .. Len(z) : z[i] = fs[k + i - 1]
        /\ Len(z) \in Nat
    <3>1. k \in Int /\ Len(fs) \in Int /\ \A i \in k .. Len(fs) : fs[i] \in Range(fs)
      BY <1>2, <2>1
    <3>2. /\ z \in Seq(Range(fs)) /\ Len(z) = (IF k <= Len(fs) THEN Len(fs) - k + 1 ELSE 0)
          /\ \A i \in 1 .. Len(fs) - k + 1 : z[i] = fs[k + i - 1]
      BY <3>1, SubSeqProperties
    <3> HIDE DEF z
    <3>3. Len(z) = Len(fs) - k + 1 /\ Len(z) \in Nat
      BY <1>2, <2>1, <3>2
    <3>4. QED
      BY <3>2, <3>3
  <2> HIDE DEF z
  <2>4. AllWeighed(z) /\ LineSeq(z)
    <3>1. LineSeq(z) /\ Range(z) \subseteq Range(fs)
      BY <2>3, OverRange
    <3>2. QED
      BY <3>1 DEF AllWeighed
  <2>5. CountedIn(g) = Counted(<<>>) + Counted(fs[1]) + CountedIn(z) /\ LineSeq(g) /\ Len(g) = Len(z) + 2
    BY <1>2, <1>3, <2>4, EmptyCounts
  <2> HIDE DEF g
  <2>6. FirstOf(g, KEEP + 1) = g /\ Len(g) <= KEEP
    <3>1. g \in Seq(Range(g)) /\ Len(FirstOf(g, KEEP + 1)) <= KEEP
      BY <1>4, <2>2, <2>5 DEF LineSeq
    <3>2. QED
      BY <3>1, NoneLost
  <2>7. CountedIn(fs) = Counted(fs[1]) + CountedIn(z)
    <3>1. CASE k = 2
      <4>1. Len(fs) = Len(z) + 1
        BY <1>2, <2>3, <3>1
      <4>2. \A i \in 1 .. Len(z) : fs[i + 1] = z[i]
        <5> SUFFICES ASSUME NEW i \in 1 .. Len(z) PROVE fs[i + 1] = z[i]
          OBVIOUS
        <5>1. k + i - 1 = i + 1
          BY <3>1
        <5>2. QED
          BY <2>3, <5>1
      <4>3. QED
        BY <2>4, <4>1, <4>2, OneBefore
    <3>2. CASE k = 3 /\ Len(fs) > 1 /\ fs[2] = <<>>
      <4>1. Len(fs) = Len(z) + 2
        BY <1>2, <2>3, <3>2
      <4>2. \A i \in 1 .. Len(z) : fs[i + 2] = z[i]
        <5> SUFFICES ASSUME NEW i \in 1 .. Len(z) PROVE fs[i + 2] = z[i]
          OBVIOUS
        <5>1. k + i - 1 = i + 2
          BY <3>2
        <5>2. QED
          BY <2>3, <5>1
      <4>3. CountedIn(fs) = Counted(fs[1]) + Counted(fs[2]) + CountedIn(z)
        BY <2>4, <4>1, <4>2, TwoBefore
      <4>4. Counted(fs[2]) = 0 /\ CountedIn(z) \in Nat
        BY <2>4, <3>2, EmptyCounts, CountsAre
      <4>5. QED
        BY <1>2, <4>3, <4>4
    <3>3. QED
      BY <2>1, <3>1, <3>2
  <2>8. CountedIn(z) \in Nat /\ Counted(<<>>) = 0
    BY <2>4, CountsAre, EmptyCounts
  <2>9. CountedIn(g) = CountedIn(fs)
    BY <1>2, <2>5, <2>7, <2>8
  <2>10. Len(fs) <= Len(g)
    BY <1>2, <2>1, <2>3, <2>5
  <2>11. Len(fs) <= KEEP
    BY <1>2, <2>3, <2>5, <2>6, <2>10
  <2>12. QED
    BY <2>2, <2>6, <2>9, <2>11
<1>5. ASSUME Len(Halfway(fs)) <= KEEP PROVE Len(fs) <= KEEP /\ CountedIn(Halfway(fs)) = CountedIn(fs)
  <2>1. CASE Len(fs) = 1
    <3>1. Halfway(fs) = fs
      BY <2>1 DEF Halfway
    <3>2. QED
      BY <1>5, <3>1
  <2>2. CASE Len(fs) # 1
    <3> DEFINE z == Tail(fs)  g == <<fs[1], <<>>>> \o z
    <3>1. Halfway(fs) = FirstOf(g, KEEP + 1)
      BY <2>2 DEF Halfway
    <3>2. AllWeighed(z) /\ Len(fs) = Len(z) + 1 /\ Len(z) \in Nat /\ \A i \in 1 .. Len(z) : fs[i + 1] = z[i]
      BY <1>2, Rest
    <3> HIDE DEF z
    <3>3. CountedIn(g) = Counted(fs[1]) + Counted(<<>>) + CountedIn(z) /\ LineSeq(g) /\ Len(g) = Len(z) + 2
      BY <1>2, <1>3, <3>2, EmptyCounts
    <3> HIDE DEF g
    <3>4. FirstOf(g, KEEP + 1) = g /\ Len(g) <= KEEP
      <4>1. g \in Seq(Range(g)) /\ Len(FirstOf(g, KEEP + 1)) <= KEEP
        BY <1>5, <3>1, <3>3 DEF LineSeq
      <4>2. QED
        BY <4>1, NoneLost
    <3>5. CountedIn(fs) = Counted(fs[1]) + CountedIn(z)
      BY <3>2, OneBefore
    <3>6. CountedIn(z) \in Nat /\ Counted(<<>>) = 0
      BY <3>2, CountsAre, EmptyCounts
    <3>7. CountedIn(g) = CountedIn(fs) /\ Len(fs) <= KEEP
      BY <1>2, <3>2, <3>3, <3>4, <3>5, <3>6
    <3>8. QED
      BY <3>1, <3>4, <3>7
  <2>3. QED
    BY <2>1, <2>2
<1>6. QED
  BY <1>1, <1>4, <1>5

\* Another file in the place of the one in use.
LEMMA ReplacedCounts ==
  ASSUME NEW fs, AllWeighed(fs), fs # <<>>, NEW g, Weighed(g)
  PROVE  LET hs == [fs EXCEPT ![1] = g] IN
         /\ AllWeighed(hs) /\ Len(hs) = Len(fs)
         /\ CountedIn(hs) + Counted(fs[1]) = CountedIn(fs) + Counted(g)
<1> DEFINE S == Range(fs) \cup {g}  hs == [fs EXCEPT ![1] = g]  z == Tail(fs)
<1>1. fs \in Seq(S) /\ g \in S /\ \A f \in S : Weighed(f)
  <2>1. fs \in Seq(Range(fs)) /\ Range(fs) \subseteq S
    BY DEF AllWeighed, LineSeq
  <2>2. fs \in Seq(S)
    BY <2>1, SeqMonotonic
  <2>3. QED
    BY <2>2 DEF AllWeighed
<1>2. Len(fs) \in Nat /\ 1 \in 1 .. Len(fs)
  BY <1>1, EmptySeq, LenProperties
<1> HIDE DEF S
<1>3. hs \in Seq(S) /\ Len(hs) = Len(fs) /\ \A j \in 1 .. Len(fs) : hs[j] = IF j = 1 THEN g ELSE fs[j]
  BY <1>1, <1>2, ExceptSeq
<1> HIDE DEF hs
<1>4. AllWeighed(hs)
  <2>1. LineSeq(hs) /\ Range(hs) \subseteq S
    BY <1>3, OverRange
  <2>2. QED
    BY <1>1, <2>1 DEF AllWeighed
<1>5. AllWeighed(z) /\ Len(fs) = Len(z) + 1 /\ Len(z) \in Nat /\ \A i \in 1 .. Len(z) : fs[i + 1] = z[i]
  BY Rest
<1> HIDE DEF z
<1>6. \A i \in 1 .. Len(z) : hs[i + 1] = z[i]
  <2> SUFFICES ASSUME NEW i \in 1 .. Len(z) PROVE hs[i + 1] = z[i]
    OBVIOUS
  <2>1. i + 1 \in 1 .. Len(fs) /\ i + 1 # 1
    BY <1>5
  <2>2. QED
    BY <1>3, <1>5, <2>1
<1>7. CountedIn(fs) = Counted(fs[1]) + CountedIn(z)
  BY <1>5, OneBefore
<1>8. CountedIn(hs) = Counted(hs[1]) + CountedIn(z) /\ hs[1] = g
  BY <1>2, <1>3, <1>4, <1>5, <1>6, OneBefore
<1>9. Counted(fs[1]) \in Nat /\ Counted(g) \in Nat /\ CountedIn(z) \in Nat
  BY <1>2, <1>5, CountsAre, WeightsAre
<1>10. CountedIn(hs) + Counted(fs[1]) = CountedIn(fs) + Counted(g)
  BY <1>7, <1>8, <1>9
<1>11. QED
  BY <1>3, <1>4, <1>10 DEF hs

\* The line of a batch comes to what the batch gathered and the channel turned away.
LEMMA LineForTotal ==
  ASSUME NEW b \in Batches, turned \in Nat, NEW header
  PROVE  /\ BatchTotal(b) \in Nat /\ LineTotal(LineFor(b, header)) = BatchTotal(b) + turned
         /\ LineFor(b, header) # Torn
<1> DEFINE line == LineFor(b, header)
<1>1. Len(b.rows) \in Nat /\ b.pdup \in Nat /\ b.vdup \in Nat /\ b.bad \in Nat
  BY LenProperties DEF Batches
<1>2. line.k = "r" /\ line.of = b.rows
  BY DEF LineFor, encode_round
<1>3. line.n.pdup = b.pdup /\ line.n.vdup = b.vdup /\ line.n.vbad = b.bad /\ line.n.lost = turned
  BY DEF LineFor, encode_round
<1> HIDE DEF line
<1>4. line # Torn
  BY <1>2 DEF Torn
<1>5. LineTotal(line) = Len(b.rows) + b.pdup + b.vdup + b.bad + turned
  BY <1>2, <1>3 DEF LineTotal
<1>6. QED
  BY <1>1, <1>4, <1>5 DEF line, BatchTotal

\* A flush counts its batch or loses it, and what the channel turned away with it.
LEMMA FlushCounts ==
  ASSUME FilesRead(files), AllWeighed(files), ReadyInUse, turned \in Nat, lines_lost \in Nat,
         NEW b \in Batches, NEW header, flush(b, header)
  PROVE  /\ AllWeighed(files') /\ lines_lost' \in Nat
         /\ Len(files') <= KEEP =>
              /\ Len(files) <= KEEP
              /\ CountedIn(files') + lines_lost' = CountedIn(files) + lines_lost + BatchTotal(b) + turned
<1> DEFINE f == FilesFor[1]  line == LineFor(b, header)  lines == LinesFor(b, header)
<1>1. BatchTotal(b) \in Nat /\ LineTotal(line) = BatchTotal(b) + turned /\ line # Torn
  BY LineForTotal
<1>2. /\ FilesRead(FilesFor) /\ AllWeighed(FilesFor)
      /\ Len(FilesFor) <= KEEP => Len(files) <= KEEP /\ CountedIn(FilesFor) = CountedIn(files)
      /\ ~ Rotates => f = files[1]
  BY MovedReads, MovedCounts DEF FilesFor
<1>3. FilesFor # <<>> /\ Weighed(f) /\ Counted(f) \in Nat /\ CountedIn(FilesFor) \in Nat /\ CountedIn(files) \in Nat
  <2>1. f \in Range(FilesFor)
    BY <1>2, InUse
  <2>2. QED
    BY <1>2, <2>1, CountsAre, WeightsAre DEF AllWeighed, FilesRead
<1>4. lines = <<UnlLine(trust), line>> \/ (lines = <<line>> /\ f # <<>> /\ Last(f) # Torn)
  BY <1>2 DEF LinesFor, Due, Opens, ReadyInUse, Ready
<1> HIDE DEF f, line
<1>5. /\ Weighed(WrittenAll(f, lines)) /\ Counted(WrittenAll(f, lines)) = Counted(f) + LineTotal(line)
      /\ \A cut \in Cuts(lines) : cut # lines => Weighed(WrittenAll(f, cut)) /\ Counted(WrittenAll(f, cut)) = Counted(f)
  <2>1. LineTotal(line) \in Nat
    BY <1>1
  <2> HIDE DEF lines
  <2>2. QED
    BY <1>1, <1>3, <1>4, <2>1, LinesCount
<1> HIDE DEF lines
<1>6. ASSUME NEW g, Weighed(g), files' = [FilesFor EXCEPT ![1] = g]
      PROVE  /\ AllWeighed(files') /\ Len(files') = Len(FilesFor)
             /\ CountedIn(files') + Counted(f) = CountedIn(FilesFor) + Counted(g)
             /\ CountedIn(files') \in Nat /\ Counted(g) \in Nat
  <2> DEFINE hs == [FilesFor EXCEPT ![1] = g]
  <2>1. /\ AllWeighed(hs) /\ Len(hs) = Len(FilesFor)
        /\ CountedIn(hs) + Counted(FilesFor[1]) = CountedIn(FilesFor) + Counted(g)
    BY <1>2, <1>3, <1>6, ReplacedCounts
  <2>2. CountedIn(hs) \in Nat /\ Counted(g) \in Nat
    <3> HIDE DEF hs
    <3>1. QED
      BY <1>6, <2>1, CountsAre, WeightsAre
  <2>3. QED
    BY <1>6, <2>1, <2>2 DEF f
<1>7. CASE WriteRound(b, header)
  <2>1. files' = [FilesFor EXCEPT ![1] = WrittenAll(f, lines)] /\ lines_lost' = lines_lost
    BY <1>7 DEF WriteRound, f, lines
  <2>2. /\ AllWeighed(files') /\ Len(files') = Len(FilesFor) /\ CountedIn(files') \in Nat
        /\ CountedIn(files') + Counted(f) = CountedIn(FilesFor) + Counted(WrittenAll(f, lines))
    BY <1>5, <1>6, <2>1
  <2>3. CountedIn(files') = CountedIn(FilesFor) + BatchTotal(b) + turned
    BY <1>1, <1>3, <1>5, <2>2
  <2>4. QED
    BY <1>1, <1>2, <1>3, <2>1, <2>2, <2>3
<1>8. CASE OpenFails(b)
  <2>1. files' = files /\ lines_lost' = lines_lost + BatchTotal(b) + turned
    BY <1>8 DEF OpenFails, GoesWith
  <2>2. QED
    BY <1>1, <1>3, <2>1
<1>9. CASE RotateFails(b, header)
  <2>1. /\ lines_lost' = lines_lost + BatchTotal(b) + turned
        /\ files' = files \/ files' = Halfway(files) \/ files' = MovedUp(files)
    BY <1>9 DEF RotateFails, GoesWith
  <2>2. AllWeighed(files') /\ (Len(files') <= KEEP => Len(files) <= KEEP /\ CountedIn(files') = CountedIn(files))
    BY <2>1, MovedCounts
  <2>3. QED
    BY <1>1, <1>3, <2>1, <2>2
<1>10. CASE LineFails(b, header)
  <2>1. PICK cut \in Cuts(lines) :
          /\ files' = [FilesFor EXCEPT ![1] = WrittenAll(f, cut)]
          /\ IF cut = lines THEN UNCHANGED lines_lost ELSE GoesWith(b)
    BY <1>10 DEF LineFails, f, lines
  <2>2. /\ Weighed(WrittenAll(f, cut))
        /\ cut = lines => Counted(WrittenAll(f, cut)) = Counted(f) + BatchTotal(b) + turned /\ lines_lost' = lines_lost
        /\ cut # lines => Counted(WrittenAll(f, cut)) = Counted(f) /\ lines_lost' = lines_lost + BatchTotal(b) + turned
    <3>1. CASE cut = lines
      BY <1>1, <1>3, <1>5, <2>1, <3>1
    <3>2. CASE cut # lines
      BY <1>5, <2>1, <3>2 DEF GoesWith
    <3>3. QED
      BY <3>1, <3>2
  <2>3. /\ AllWeighed(files') /\ Len(files') = Len(FilesFor) /\ CountedIn(files') \in Nat
        /\ CountedIn(files') + Counted(f) = CountedIn(FilesFor) + Counted(WrittenAll(f, cut))
    BY <1>6, <2>1, <2>2
  <2>4. CountedIn(files') + lines_lost' = CountedIn(FilesFor) + lines_lost + BatchTotal(b) + turned /\ lines_lost' \in Nat
    <3>1. PICK w \in Nat, t \in Nat, l \in Nat, a \in Nat, r \in Nat, d \in Nat :
            /\ w = BatchTotal(b) /\ t = turned /\ l = lines_lost /\ a = Counted(f) /\ r = CountedIn(FilesFor)
            /\ d = CountedIn(files')
      BY <1>1, <1>3, <2>3
    <3>2. CASE cut = lines
      <4>1. lines_lost' = l /\ d + a = r + (a + w + t)
        BY <2>2, <2>3, <3>1, <3>2
      <4>2. d + l = r + l + w + t
        BY <4>1
      <4>3. QED
        BY <3>1, <4>1, <4>2
    <3>3. CASE cut # lines
      <4>1. lines_lost' = l + w + t /\ d + a = r + a
        BY <2>2, <2>3, <3>1, <3>3
      <4>2. d + (l + w + t) = r + l + w + t /\ l + w + t \in Nat
        BY <4>1
      <4>3. QED
        BY <3>1, <4>1, <4>2
    <3>4. QED
      BY <3>2, <3>3
  <2>5. QED
    BY <1>2, <2>3, <2>4
<1>11. QED
  BY <1>7, <1>8, <1>9, <1>10 DEF flush

-------------------------------------------------------------------------------
(* What is on its way *)

MessagesIn(events) == {i \in DOMAIN events : events[i].is = "msg"}

\* The messages on their way are a number.
LEMMA ComingIs ==
  ASSUME NEW events, LineSeq(events)
  PROVE  /\ IsFiniteSet(MessagesIn(events)) /\ Coming(events) = Cardinality(MessagesIn(events)) /\ Coming(events) \in Nat
         /\ MessagesIn(events) \subseteq 1 .. Len(events)
<1>1. DOMAIN events = 1 .. Len(events) /\ Len(events) \in Nat
  BY Places1
<1>2. MessagesIn(events) \subseteq 1 .. Len(events)
  BY <1>1 DEF MessagesIn
<1>3. IsFiniteSet(1 .. Len(events))
  BY <1>1, FS_Interval
<1>4. IsFiniteSet(MessagesIn(events))
  BY <1>2, <1>3, FS_Subset
<1>5. Coming(events) = Cardinality(MessagesIn(events))
  BY DEF Coming, MessagesIn
<1>6. QED
  BY <1>2, <1>4, <1>5, FS_CardinalityType

\* One event more.
LEMMA ComingMore ==
  ASSUME NEW events, LineSeq(events), NEW e
  PROVE  LineSeq(Append(events, e)) /\ Coming(Append(events, e)) = Coming(events) + (IF e.is = "msg" THEN 1 ELSE 0)
<1> DEFINE g == Append(events, e)  n == Len(events) + 1
<1>1. LineSeq(g) /\ Len(g) = n /\ g[n] = e /\ \A i \in 1 .. Len(events) : g[i] = events[i]
  BY Appended
<1>2. Len(events) \in Nat /\ DOMAIN events = 1 .. Len(events) /\ DOMAIN g = 1 .. n
  BY <1>1, Places1
<1> HIDE DEF g
<1>3. \A i \in 1 .. n : i \in 1 .. Len(events) \/ i = n
  BY <1>2
<1>4. MessagesIn(g) = IF e.is = "msg" THEN MessagesIn(events) \cup {n} ELSE MessagesIn(events)
  <2>1. n \in 1 .. n /\ \A i \in 1 .. Len(events) : i \in 1 .. n
    BY <1>2
  <2> HIDE DEF n
  <2>2. QED
    BY <1>1, <1>2, <1>3, <2>1 DEF MessagesIn
<1>5. n \notin MessagesIn(events)
  BY <1>2 DEF MessagesIn
<1>6. /\ IsFiniteSet(MessagesIn(events)) /\ Coming(events) = Cardinality(MessagesIn(events)) /\ Coming(events) \in Nat
      /\ Coming(g) = Cardinality(MessagesIn(g))
  BY <1>1, ComingIs
<1> HIDE DEF n
<1>7. Cardinality(MessagesIn(events) \cup {n}) = Cardinality(MessagesIn(events)) + 1
  BY <1>5, <1>6, FS_AddElement
<1>8. QED
  BY <1>1, <1>4, <1>6, <1>7 DEF g

\* The first one taken.
LEMMA ComingLess ==
  ASSUME NEW events, LineSeq(events), events # <<>>
  PROVE  /\ LineSeq(Tail(events))
         /\ Coming(events) = Coming(Tail(events)) + (IF Head(events).is = "msg" THEN 1 ELSE 0)
<1> DEFINE t == Tail(events)  S == Range(events)
<1>1. events \in Seq(S)
  BY DEF LineSeq
<1>2. t \in Seq(S) /\ Len(t) = Len(events) - 1 /\ \A i \in 1 .. Len(t) : t[i] = events[i + 1]
  BY <1>1, HeadTailProperties
<1>3. Len(events) \in Nat \ {0} /\ Head(events) = events[1]
  BY <1>1, EmptySeq, LenProperties
<1> HIDE DEF t, S
<1>4. LineSeq(t) /\ Len(t) \in Nat /\ DOMAIN t = 1 .. Len(t) /\ DOMAIN events = 1 .. Len(t) + 1
  <2>1. LineSeq(t)
    BY <1>2, OverRange
  <2>2. QED
    BY <1>2, <1>3, <2>1, Places1
<1> DEFINE T == MessagesIn(t)  M == MessagesIn(events) \ {1}
<1>5. IsFiniteSet(T) /\ Coming(t) = Cardinality(T) /\ Coming(t) \in Nat /\ T \subseteq 1 .. Len(t)
  BY <1>4, ComingIs
<1>6. IsFiniteSet(MessagesIn(events)) /\ Coming(events) = Cardinality(MessagesIn(events)) /\ Coming(events) \in Nat
  BY ComingIs
<1>7. \A i \in T : i + 1 \in M
  <2> SUFFICES ASSUME NEW i \in T PROVE i + 1 \in M
    OBVIOUS
  <2>1. i \in 1 .. Len(t) /\ t[i].is = "msg"
    BY <1>4 DEF MessagesIn
  <2>2. i + 1 \in 1 .. Len(t) + 1 /\ i + 1 # 1 /\ events[i + 1].is = "msg"
    BY <1>2, <1>4, <2>1
  <2>3. QED
    BY <1>4, <2>2 DEF MessagesIn
<1>8. \A j \in M : j - 1 \in T /\ j - 1 + 1 = j
  <2> SUFFICES ASSUME NEW j \in M PROVE j - 1 \in T /\ j - 1 + 1 = j
    OBVIOUS
  <2>1. j \in 1 .. Len(t) + 1 /\ j # 1 /\ events[j].is = "msg"
    BY <1>4 DEF MessagesIn
  <2>2. j - 1 \in 1 .. Len(t) /\ j - 1 + 1 = j
    BY <1>4, <2>1
  <2>3. t[j - 1] = events[j - 1 + 1]
    BY <1>2, <2>2
  <2>4. QED
    BY <1>4, <2>1, <2>2, <2>3 DEF MessagesIn
<1>9. Cardinality(M) = Cardinality(T)
  <2> DEFINE up == [i \in T |-> i + 1]
  <2>1. \A i \in T : i \in Nat
    BY <1>5
  <2>2. up \in Bijection(T, M)
    <3>1. up \in [T -> M]
      BY <1>7
    <3>2. \A i \in T, j \in T : up[i] = up[j] => i = j
      BY <2>1
    <3>3. \A j \in M : j - 1 \in T /\ up[j - 1] = j
      BY <1>8
    <3>4. up \in Surjection(T, M)
      BY <3>1, <3>3 DEF Surjection
    <3>5. up \in Injection(T, M)
      BY <3>1, <3>2 DEF Injection, IsInjective
    <3>6. QED
      BY <3>4, <3>5 DEF Bijection
  <2>3. ExistsBijection(T, M)
    BY <2>2 DEF ExistsBijection
  <2>4. QED
    BY <1>5, <2>3, FS_Bijection
<1>10. Coming(events) = Cardinality(M) + (IF events[1].is = "msg" THEN 1 ELSE 0)
  <2>1. CASE events[1].is = "msg"
    <3>1. 1 \in MessagesIn(events)
      BY <1>3, <1>4, <2>1 DEF MessagesIn
    <3>2. Cardinality(M) = Cardinality(MessagesIn(events)) - 1
      BY <1>6, <3>1, FS_RemoveElement
    <3>3. QED
      BY <1>6, <2>1, <3>2
  <2>2. CASE events[1].is # "msg"
    <3>1. M = MessagesIn(events)
      BY <2>2 DEF MessagesIn
    <3>2. Cardinality(M) = Cardinality(MessagesIn(events))
      BY ONLY <3>1
    <3>3. QED
      BY <1>6, <2>2, <3>2
  <2>3. QED
    BY <2>1, <2>2
<1>11. QED
  BY <1>3, <1>4, <1>5, <1>9, <1>10 DEF t

-------------------------------------------------------------------------------
(* Nothing uncounted *)

\* The counts are numbers, and say where everything handed over went.
CountInv ==
  /\ turned \in Nat /\ lines_lost \in Nat /\ owed \in Nat
  /\ LineSeq(in_channel) /\ AllWeighed(files)
  /\ NothingUncounted

\* What is handed over is on its way, or turned away.
LEMMA HandCounts ==
  ASSUME CountInv, RecordInv, NEW e, Hand(e)
  PROVE  CountInv'
<1>1. /\ turned \in Nat /\ lines_lost \in Nat /\ owed \in Nat /\ LineSeq(in_channel) /\ AllWeighed(files)
      /\ Len(in_channel) \in Nat /\ CHANNEL_CAPACITY \in Nat
      /\ CountedIn(files) \in Nat /\ Coming(in_channel) \in Nat /\ BatchTotal(waiting) \in Nat
  <2>1. Len(in_channel) \in Nat /\ Coming(in_channel) \in Nat /\ CountedIn(files) \in Nat /\ BatchTotal(waiting) \in Nat
    BY Places1, ComingIs, CountsAre, LineForTotal DEF CountInv, RecordInv
  <2>2. QED
    BY <2>1, RecordConstants DEF CountInv
<1>2. /\ IF Len(in_channel) < CHANNEL_CAPACITY
         THEN in_channel' = Append(in_channel, e) /\ turned' = turned
         ELSE turned' = turned + 1 /\ in_channel' = in_channel
      /\ owed' = IF e.is = "msg" \/ Len(in_channel) >= CHANNEL_CAPACITY THEN owed + 1 ELSE owed
      /\ files' = files /\ waiting' = waiting /\ lines_lost' = lines_lost
  BY DEF Hand
<1>3. LineSeq(Append(in_channel, e)) /\ Coming(Append(in_channel, e)) = Coming(in_channel) + (IF e.is = "msg" THEN 1 ELSE 0)
  BY <1>1, ComingMore
<1>4. /\ turned' \in Nat /\ owed' \in Nat /\ LineSeq(in_channel')
      /\ turned' + Coming(in_channel') + owed = turned + Coming(in_channel) + owed'
      /\ Coming(in_channel') \in Nat
  <2>1. CASE Len(in_channel) < CHANNEL_CAPACITY
    <3>1. /\ in_channel' = Append(in_channel, e) /\ turned' = turned
          /\ owed' = owed + (IF e.is = "msg" THEN 1 ELSE 0)
      BY <1>1, <1>2, <2>1
    <3>2. Coming(in_channel') = Coming(in_channel) + (IF e.is = "msg" THEN 1 ELSE 0) /\ LineSeq(in_channel')
      BY <1>3, <3>1
    <3>3. QED
      BY <1>1, <3>1, <3>2
  <2>2. CASE ~ (Len(in_channel) < CHANNEL_CAPACITY)
    <3>1. Len(in_channel) >= CHANNEL_CAPACITY
      BY <1>1, <2>2
    <3>2. in_channel' = in_channel /\ turned' = turned + 1 /\ owed' = owed + 1
      BY <1>2, <2>2, <3>1
    <3>3. Coming(in_channel') = Coming(in_channel)
      BY <3>2
    <3>4. QED
      BY <1>1, <3>2, <3>3
  <2>3. QED
    BY <2>1, <2>2
<1>5. NothingUncounted'
  <2> SUFFICES ASSUME Len(files) <= KEEP
               PROVE  CountedIn(files) + BatchTotal(waiting) + turned' + Coming(in_channel') + lines_lost = owed'
    BY <1>2 DEF NothingUncounted
  <2>1. CountedIn(files) + BatchTotal(waiting) + turned + Coming(in_channel) + lines_lost = owed
    BY DEF CountInv, NothingUncounted
  <2>2. PICK c \in Nat, w \in Nat, i \in Nat, j \in Nat, t \in Nat, u \in Nat, l \in Nat, o \in Nat, p \in Nat :
          /\ c = CountedIn(files) /\ w = BatchTotal(waiting) /\ i = Coming(in_channel) /\ j = Coming(in_channel')
          /\ t = turned /\ u = turned' /\ l = lines_lost /\ o = owed /\ p = owed'
    BY <1>1, <1>4
  <2>3. c + w + t + i + l = o /\ u + j + o = t + i + p
    BY <1>4, <2>1, <2>2
  <2>4. c + w + u + j + l = p
    BY <2>3
  <2>5. QED
    BY <2>2, <2>4
<1>6. QED
  BY <1>1, <1>2, <1>4, <1>5 DEF CountInv

\* A flush of what waited, and of a message taken with it when there is one: n is 1 then, else 0.
LEMMA FlushedCounts ==
  ASSUME CountInv, RecordInv, NEW b \in Batches, NEW header, flush(b, header), NEW n \in {0, 1},
         BatchTotal(b) = BatchTotal(waiting) + n, LineSeq(in_channel'), Coming(in_channel) = Coming(in_channel') + n,
         turned' = 0, waiting' = NoBatch, owed' = owed
  PROVE  CountInv'
<1>1. /\ turned \in Nat /\ lines_lost \in Nat /\ owed \in Nat /\ AllWeighed(files) /\ FilesRead(files) /\ ReadyInUse
      /\ Coming(in_channel') \in Nat /\ CountedIn(files) \in Nat /\ BatchTotal(waiting) \in Nat
  <2>1. Coming(in_channel') \in Nat
    BY ComingIs
  <2>2. CountedIn(files) \in Nat /\ BatchTotal(waiting) \in Nat
    BY CountsAre, LineForTotal DEF CountInv, RecordInv
  <2>3. QED
    BY <2>1, <2>2 DEF CountInv, RecordInv
<1>2. /\ AllWeighed(files') /\ lines_lost' \in Nat
      /\ Len(files') <= KEEP =>
           /\ Len(files) <= KEEP
           /\ CountedIn(files') + lines_lost' = CountedIn(files) + lines_lost + BatchTotal(b) + turned
  BY <1>1, FlushCounts
<1>3. BatchTotal(NoBatch) = 0
  BY EmptyReads DEF BatchTotal, NoBatch
<1>4. NothingUncounted'
  <2> SUFFICES ASSUME Len(files') <= KEEP
               PROVE  CountedIn(files') + 0 + 0 + Coming(in_channel') + lines_lost' = owed
    BY <1>3 DEF NothingUncounted
  <2>1. CountedIn(files) + BatchTotal(waiting) + turned + Coming(in_channel) + lines_lost = owed
    BY <1>2 DEF CountInv, NothingUncounted
  <2>2. CountedIn(files') \in Nat /\ n \in Nat
    BY <1>2, CountsAre
  <2>3. PICK c \in Nat, w \in Nat, i \in Nat, j \in Nat, t \in Nat, l \in Nat, o \in Nat, d \in Nat, k \in Nat :
          /\ c = CountedIn(files) /\ w = BatchTotal(waiting) /\ i = Coming(in_channel) /\ j = Coming(in_channel')
          /\ t = turned /\ l = lines_lost /\ o = owed /\ d = CountedIn(files') /\ k = lines_lost'
    <3>1. Coming(in_channel) \in Nat
      BY <1>1, <2>2
    <3>2. QED
      BY <1>1, <1>2, <2>2, <3>1
  <2>4. c + w + t + i + l = o /\ i = j + n /\ d + k = c + l + (w + n) + t
    BY <1>2, <2>1, <2>3
  <2>5. d + 0 + 0 + j + k = o
    BY <2>2, <2>4
  <2>6. QED
    BY <2>3, <2>5
<1>5. QED
  BY <1>1, <1>2, <1>4 DEF CountInv

\* A message taken is in the batch, or in the line that is full.
LEMMA MessageCounts ==
  ASSUME CountInv, RecordInv, HandleMessage
  PROVE  CountInv'
<1>1. PICK m \in RoundMsgs :
        LET b == Gathered(m) IN
        /\ Takes(MsgEvent(m))
        /\ IF Len(b.rows) >= MAX_BATCH_ROWS
           THEN flush(b, NoHeader) /\ turned' = 0 /\ waiting' = NoBatch
           ELSE waiting' = b /\ turned' = turned /\ files' = files /\ lines_lost' = lines_lost
  BY DEF HandleMessage
<1> DEFINE b == Gathered(m)
<1>2. b \in Batches /\ BatchTotal(b) = BatchTotal(waiting) + 1
  BY GatheredRows DEF RecordInv
<1>3. LineSeq(in_channel') /\ Coming(in_channel) = Coming(in_channel') + 1 /\ owed' = owed
  <2>1. in_channel # <<>> /\ Head(in_channel).is = "msg" /\ in_channel' = Tail(in_channel) /\ owed' = owed
    BY <1>1 DEF Takes, MsgEvent
  <2>2. QED
    BY <2>1, ComingLess DEF CountInv
<1> HIDE DEF b
<1>4. CASE Len(b.rows) >= MAX_BATCH_ROWS
  <2>1. flush(b, NoHeader) /\ turned' = 0 /\ waiting' = NoBatch
    BY <1>1, <1>4 DEF b
  <2>2. QED
    BY <1>2, <1>3, <2>1, FlushedCounts
<1>5. CASE ~ (Len(b.rows) >= MAX_BATCH_ROWS)
  <2>1. waiting' = b /\ turned' = turned /\ files' = files /\ lines_lost' = lines_lost
    BY <1>1, <1>5 DEF b
  <2>2. CountedIn(files) \in Nat /\ Coming(in_channel') \in Nat /\ BatchTotal(waiting) \in Nat
    BY <1>3, CountsAre, ComingIs, LineForTotal DEF CountInv, RecordInv
  <2>3. NothingUncounted'
    <3> SUFFICES ASSUME Len(files) <= KEEP
                 PROVE  CountedIn(files) + BatchTotal(b) + turned + Coming(in_channel') + lines_lost = owed
      BY <1>3, <2>1 DEF NothingUncounted
    <3>1. CountedIn(files) + BatchTotal(waiting) + turned + Coming(in_channel) + lines_lost = owed
      BY DEF CountInv, NothingUncounted
    <3>2. QED
      BY <1>2, <1>3, <2>2, <3>1 DEF CountInv
  <2>4. QED
    BY <1>3, <2>1, <2>3 DEF CountInv
<1>6. QED
  BY <1>4, <1>5

\* What is taken and is no message, and changes no count.
LEMMA TakenCounts ==
  ASSUME CountInv, NEW e, Takes(e), e.is # "msg", UNCHANGED <<turned, files, waiting, lines_lost>>
  PROVE  CountInv'
<1>1. in_channel # <<>> /\ Head(in_channel) = e /\ in_channel' = Tail(in_channel) /\ owed' = owed
  BY DEF Takes
<1>2. LineSeq(in_channel') /\ Coming(in_channel) = Coming(in_channel') + 0 /\ Coming(in_channel') \in Nat
  <2>1. LineSeq(in_channel') /\ Coming(in_channel) = Coming(in_channel') + 0
    BY <1>1, ComingLess DEF CountInv
  <2>2. QED
    BY <2>1, ComingIs
<1>3. NothingUncounted'
  <2>1. Coming(in_channel') = Coming(in_channel)
    BY <1>2
  <2>2. QED
    BY <1>1, <2>1 DEF CountInv, NothingUncounted
<1>4. QED
  BY <1>1, <1>2, <1>3 DEF CountInv

\* A header's line holds what waited, or its loss is noted.
LEMMA HeaderCounts ==
  ASSUME CountInv, RecordInv, HandleHeader
  PROVE  CountInv'
<1>1. PICK h \in 1 .. MaxHeaders :
        /\ Takes(HeaderEvent(h))
        /\ IF h = last_header
           THEN UNCHANGED <<turned, files, waiting, lines_lost>>
           ELSE flush(waiting, h) /\ turned' = 0 /\ waiting' = NoBatch
  BY DEF HandleHeader, Flushed
<1>2. HeaderEvent(h).is # "msg"
  BY DEF HeaderEvent
<1>3. CASE h = last_header
  BY <1>1, <1>2, <1>3, TakenCounts
<1>4. CASE h # last_header
  <2>1. flush(waiting, h) /\ turned' = 0 /\ waiting' = NoBatch
    BY <1>1, <1>4
  <2>2. LineSeq(in_channel') /\ Coming(in_channel) = Coming(in_channel') + 0 /\ owed' = owed
    <3>1. in_channel # <<>> /\ Head(in_channel).is # "msg" /\ in_channel' = Tail(in_channel) /\ owed' = owed
      BY <1>1, <1>2 DEF Takes
    <3>2. QED
      BY <3>1, ComingLess DEF CountInv
  <2>3. waiting \in Batches /\ BatchTotal(waiting) = BatchTotal(waiting) + 0
    <3>1. waiting \in Batches
      BY DEF RecordInv
    <3>2. BatchTotal(waiting) \in Nat
      BY <3>1, LineForTotal DEF CountInv
    <3>3. QED
      BY <3>1, <3>2
  <2>4. QED
    BY <2>1, <2>2, <2>3, FlushedCounts
<1>5. QED
  BY <1>3, <1>4

\* A list changes no count, and a restart notes what it takes with it.
LEMMA OtherCounts ==
  ASSUME CountInv, RecordInv, HandleUnl \/ RecorderRestarts \/ UNCHANGED record_vars
  PROVE  CountInv'
<1>1. CASE HandleUnl
  <2>1. PICK l \in RecordLists : Takes(UnlEvent(l)) /\ UNCHANGED <<turned, files, waiting, lines_lost>>
    BY <1>1 DEF HandleUnl
  <2>2. UnlEvent(l).is # "msg"
    BY DEF UnlEvent
  <2>3. QED
    BY <2>1, <2>2, TakenCounts
<1>2. CASE RecorderRestarts
  <2>1. /\ lines_lost' = lines_lost + BatchTotal(waiting) + turned + Coming(in_channel)
        /\ in_channel' = <<>> /\ turned' = 0 /\ waiting' = NoBatch /\ files' = files /\ owed' = owed
    BY <1>2 DEF RecorderRestarts
  <2>2. CountedIn(files) \in Nat /\ Coming(in_channel) \in Nat /\ BatchTotal(waiting) \in Nat
    BY CountsAre, ComingIs, LineForTotal DEF CountInv, RecordInv
  <2>3. LineSeq(<<>>) /\ Coming(<<>>) = 0 /\ BatchTotal(NoBatch) = 0
    <3>1. LineSeq(<<>>) /\ Len(<<>>) = 0
      BY EmptyReads
    <3>2. MessagesIn(<<>>) = {}
      BY <3>1, ComingIs
    <3>3. Coming(<<>>) = 0
      BY <3>1, <3>2, ComingIs, FS_EmptySet
    <3>4. BatchTotal(NoBatch) = 0
      BY <3>1 DEF BatchTotal, NoBatch
    <3>5. QED
      BY <3>1, <3>3, <3>4
  <2>4. NothingUncounted'
    <3> SUFFICES ASSUME Len(files) <= KEEP PROVE CountedIn(files) + 0 + 0 + 0 + lines_lost' = owed
      BY <2>1, <2>3 DEF NothingUncounted
    <3>1. CountedIn(files) + BatchTotal(waiting) + turned + Coming(in_channel) + lines_lost = owed
      BY DEF CountInv, NothingUncounted
    <3>2. QED
      BY <2>1, <2>2, <3>1 DEF CountInv
  <2>5. QED
    BY <2>1, <2>2, <2>3, <2>4 DEF CountInv
<1>3. CASE UNCHANGED record_vars
  BY <1>3 DEF CountInv, NothingUncounted, record_vars
<1>4. QED
  BY <1>1, <1>2, <1>3

\* At the start there is nothing to count.
LEMMA FirstCounts == RecordInit => CountInv
<1> SUFFICES ASSUME RecordInit PROVE CountInv
  OBVIOUS
<1>1. turned = 0 /\ lines_lost = 0 /\ owed = 0 /\ in_channel = <<>> /\ files = <<<<>>>> /\ waiting = NoBatch
  BY DEF RecordInit
<1>2. LineSeq(<<>>) /\ Len(<<>>) = 0 /\ Weighed(<<>>) /\ Counted(<<>>) = 0
  BY EmptyReads, EmptyCounts
<1>3. Coming(<<>>) = 0 /\ BatchTotal(NoBatch) = 0
  <2>1. MessagesIn(<<>>) = {}
    BY <1>2, ComingIs
  <2>2. QED
    BY <1>2, <2>1, ComingIs, FS_EmptySet DEF BatchTotal, NoBatch
<1>4. AllWeighed(files) /\ Len(files) = 1 /\ files[1] = <<>>
  <2>1. files \in Seq({<<>>}) /\ Len(files) = 1 /\ files[1] = <<>>
    BY <1>1
  <2>2. LineSeq(files) /\ Range(files) \subseteq {<<>>}
    BY <2>1, OverRange
  <2>3. QED
    BY <1>2, <2>1, <2>2 DEF AllWeighed
<1>5. CountedIn(files) = 0
  <2>1. AllWeighed(<<>>) /\ CountedIn(<<>>) = 0
    <3>1. AllWeighed(<<>>)
      <4>1. DOMAIN <<>> = {}
        BY <1>2, Places1
      <4>2. Range(<<>>) = {}
        BY <4>1 DEF Range
      <4>3. QED
        BY <1>2, <4>2 DEF AllWeighed
    <3>2. CountsOf(<<>>) \in Seq(Nat) /\ Len(CountsOf(<<>>)) = 0 /\ CountedIn(<<>>) = SumOf(CountsOf(<<>>))
      BY <1>2, <3>1, CountsAre
    <3>3. CountsOf(<<>>) = <<>>
      BY <3>2, EmptySeq
    <3>4. QED
      BY <3>1, <3>2, <3>3, SumEmpty
  <2>2. CountedIn(files) = Counted(files[1]) + CountedIn(<<>>)
    <3>1. Len(files) = Len(<<>>) + 1 /\ \A i \in 1 .. Len(<<>>) : files[i + 1] = <<>>[i]
      BY <1>2, <1>4
    <3>2. QED
      BY <1>4, <2>1, <3>1, OneBefore
  <2>3. QED
    BY <1>2, <1>4, <2>1, <2>2
<1>6. QED
  BY <1>1, <1>2, <1>3, <1>4, <1>5 DEF CountInv, NothingUncounted

\* The record is right: a line is read back to the messages it was written from, unless a torn line came
\* after the last list line before it in its file; no message is in a line twice, or in a line and the
\* next one, while no write fails; and until a file is thrown away everything handed over is in a line or
\* its counts, on its way there, or was lost with a write or a process
\* (consensus_record.rs Recorder::record_message, Writer::handle, flush, write_round).
THEOREM RoundsAreRecorded == RecordInit /\ [][RecordNext]_record_vars => []RecordOK
<1>1. RecordInit => RecordInv /\ CountInv
  BY FirstRecord, FirstCounts
<1>2. RecordInv /\ CountInv /\ [RecordNext]_record_vars => RecordInv' /\ CountInv'
  <2> SUFFICES ASSUME RecordInv, CountInv, [RecordNext]_record_vars PROVE RecordInv' /\ CountInv'
    OBVIOUS
  <2>1. CASE HandleMessage
    BY <2>1, MessageStep, MessageCounts
  <2>2. CASE HandleHeader
    BY <2>2, HeaderStep, HeaderCounts
  <2>3. CASE HandleUnl
    BY <2>3, UnlStep, OtherCounts
  <2>4. CASE RecorderRestarts \/ UNCHANGED record_vars
    BY <2>4, OtherSteps, OtherCounts
  <2>5. CASE record_message \/ record_unl \/ record_header
    <3>1. PICK e : Hand(e)
      BY <2>5 DEF record_message, record_unl, record_header
    <3>2. QED
      BY <2>5, <3>1, OtherSteps, HandCounts
  <2>6. QED
    BY <2>1, <2>2, <2>3, <2>4, <2>5 DEF RecordNext
<1>3. RecordInv /\ CountInv => RecordOK
  BY LinesAreRight DEF RecordOK, CountInv
<1>4. QED
  BY <1>1, <1>2, <1>3, PTL
===============================================================================
