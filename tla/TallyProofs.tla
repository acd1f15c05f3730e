------------------------------ MODULE TallyProofs ------------------------------
(* Theorems about Tally, for every list, number of faulty validators, and cap. *)
EXTENDS Tally, FiniteSetTheorems, WellFoundedInduction, TLAPS

-------------------------------------------------------------------------------
(* Sequences and counts *)

LEMMA LedgersFinite ==
  /\ Ledgers \subseteq Nat /\ IsFiniteSet(Ledgers)
  /\ \A S \in SUBSET Ledgers : IsFiniteSet(S) /\ Cardinality(S) \in Nat
<1>1. Ledgers \subseteq Nat /\ IsFiniteSet(Ledgers)
  BY TallyConstants, FS_Interval DEF Ledgers
<1>2. ASSUME NEW S \in SUBSET Ledgers PROVE IsFiniteSet(S) /\ Cardinality(S) \in Nat
  BY <1>1, FS_Subset, FS_CardinalityType
<1>3. QED
  BY <1>1, <1>2

\* A smallest set among some subsets of Ledgers.
LEMMA SmallestSet ==
  ASSUME NEW T \in SUBSET (SUBSET Ledgers), T # {}
  PROVE  \E x \in T : \A y \in T : y \subseteq x => y = x
<1> DEFINE R == StrictSubsetOrdering(Ledgers)
<1>1. IsWellFoundedOn(R, FiniteSubsetsOf(Ledgers))
  BY FS_StrictSubsetOrderingWellFounded
<1>2. FiniteSubsetsOf(Ledgers) = SUBSET Ledgers
  BY LedgersFinite, FS_FiniteSubsetsOfFinite
<1>3. PICK x \in T : \A y \in T : ~ (<<y, x>> \in R)
  <2> HIDE DEF R
  <2>1. QED
    BY <1>1, <1>2, WFMin
<1>4. QED
  BY <1>3 DEF StrictSubsetOrdering

\* A set of sequences has an oldest one.
LEMMA OldestIs ==
  ASSUME NEW S \in SUBSET Ledgers, S # {}
  PROVE  Oldest(S) \in S /\ \A t \in S : Oldest(S) <= t
<1> DEFINE T == {1 .. s : s \in S}
<1>1. S \subseteq 1 .. MaxSeq /\ MaxSeq \in Nat
  BY TallyConstants DEF Ledgers
<1>2. T \in SUBSET (SUBSET Ledgers) /\ T # {}
  <2>1. ASSUME NEW s \in S PROVE 1 .. s \in SUBSET Ledgers
    BY <1>1 DEF Ledgers
  <2>2. T # {}
    OBVIOUS
  <2>3. QED
    BY <2>1, <2>2
<1>3. PICK x \in T : \A y \in T : y \subseteq x => y = x
  <2> HIDE DEF T
  <2>1. QED
    BY <1>2, SmallestSet
<1>4. PICK s \in S : x = 1 .. s
  OBVIOUS
<1>5. ASSUME NEW t \in S, t < s PROVE FALSE
  <2>1. s \in 1 .. s /\ s \notin 1 .. t /\ 1 .. t \subseteq 1 .. s
    BY <1>1, <1>5
  <2>2. QED
    BY <1>3, <1>4, <2>1
<1>6. \A t \in S : s <= t
  BY <1>1, <1>5
<1>7. QED
  BY <1>6 DEF Oldest

\* A set of sequences has a newest one.
LEMMA NewestIs ==
  ASSUME NEW S \in SUBSET Ledgers, S # {}
  PROVE  Newest(S) \in S /\ \A t \in S : t <= Newest(S)
<1> DEFINE T == {s .. MaxSeq : s \in S}
<1>1. S \subseteq 1 .. MaxSeq /\ MaxSeq \in Nat
  BY TallyConstants DEF Ledgers
<1>2. T \in SUBSET (SUBSET Ledgers) /\ T # {}
  <2>1. ASSUME NEW s \in S PROVE s .. MaxSeq \in SUBSET Ledgers
    BY <1>1 DEF Ledgers
  <2>2. T # {}
    OBVIOUS
  <2>3. QED
    BY <2>1, <2>2
<1>3. PICK x \in T : \A y \in T : y \subseteq x => y = x
  <2> HIDE DEF T
  <2>1. QED
    BY <1>2, SmallestSet
<1>4. PICK s \in S : x = s .. MaxSeq
  OBVIOUS
<1>5. ASSUME NEW t \in S, s < t PROVE FALSE
  <2>1. s \in s .. MaxSeq /\ s \notin t .. MaxSeq /\ t .. MaxSeq \subseteq s .. MaxSeq
    BY <1>1, <1>5
  <2>2. QED
    BY <1>3, <1>4, <2>1
<1>6. \A t \in S : t <= s
  BY <1>1, <1>5
<1>7. QED
  BY <1>6 DEF Newest

\* What let_go takes away, and what it leaves.
LEMMA LetGoIs ==
  ASSUME NEW all \in SUBSET Ledgers, Cardinality(all) <= KEEP + 1
  PROVE  /\ LetGo(all) \subseteq all
         /\ Cardinality(all \ LetGo(all)) <= KEEP
         /\ LetGo(all) # {} =>
              /\ LetGo(all) = {Oldest(all)} /\ Oldest(all) \in all
              /\ Cardinality(all \ LetGo(all)) = KEEP
              /\ \A t \in all \ LetGo(all) : Oldest(all) < t
<1>1. IsFiniteSet(all) /\ Cardinality(all) \in Nat /\ KEEP \in Nat \ {0} /\ all \subseteq Nat
  BY LedgersFinite, TallyConstants
<1>2. CASE Cardinality(all) > KEEP
  <2>1. all # {}
    BY <1>1, <1>2, FS_EmptySet
  <2>2. Oldest(all) \in all /\ \A t \in all : Oldest(all) <= t
    BY <2>1, OldestIs
  <2>3. Cardinality(all \ {Oldest(all)}) = Cardinality(all) - 1
    BY <1>1, <2>2, FS_RemoveElement
  <2>4. LetGo(all) = {Oldest(all)}
    BY <1>2 DEF LetGo
  <2>5. Cardinality(all \ LetGo(all)) = KEEP
    BY <1>1, <1>2, <2>3, <2>4
  <2>6. ASSUME NEW t \in all \ LetGo(all) PROVE Oldest(all) < t
    <3>1. t \in Nat /\ Oldest(all) \in Nat /\ t # Oldest(all) /\ Oldest(all) <= t
      BY <1>1, <2>2, <2>4
    <3>2. QED
      BY <3>1
  <2>7. QED
    BY <1>1, <2>2, <2>4, <2>5, <2>6
<1>3. CASE ~(Cardinality(all) > KEEP)
  <2>1. LetGo(all) = {}
    BY <1>3 DEF LetGo
  <2>2. all \ LetGo(all) = all
    BY <2>1
  <2>3. QED
    BY <1>1, <1>3, <2>1, <2>2
<1>4. QED
  BY <1>2, <1>3

-------------------------------------------------------------------------------
(* The types *)

\* Judging settles some of the ledgers asked about, and says so of each.
LEMMA JudgeIs ==
  ASSUME NEW newest, NEW asked \in [Ledgers -> Hashes \cup {None}],
         JudgePending(newest, asked), verdicts \subseteq [seq : Ledgers, verdict : VerdictNames]
  PROVE  /\ pending' \in [Ledgers -> Hashes \cup {None}]
         /\ \A s \in Ledgers : pending'[s] # None =>
              pending'[s] = asked[s] /\ Verdict(s, asked[s], newest) = "wait"
         /\ verdicts' \subseteq [seq : Ledgers, verdict : VerdictNames]
         /\ \A v \in verdicts' \ verdicts :
              /\ v.seq \in Ledgers /\ asked[v.seq] # None
              /\ v.verdict = Verdict(v.seq, asked[v.seq], newest)
<1> DEFINE waits == {s \in Ledgers : asked[s] # None /\ Verdict(s, asked[s], newest) = "wait"}
           done  == {s \in Ledgers : asked[s] # None} \ waits
<1>1. /\ pending' = [s \in Ledgers |-> IF s \in waits THEN asked[s] ELSE None]
      /\ verdicts' = verdicts \cup {[seq |-> s, verdict |-> Verdict(s, asked[s], newest)] : s \in done}
  BY DEF JudgePending
<1>2. ASSUME NEW s \in done PROVE Verdict(s, asked[s], newest) \in VerdictNames
  BY DEF Verdict, VerdictNames
<1>3. /\ pending' \in [Ledgers -> Hashes \cup {None}]
      /\ \A s \in Ledgers : pending'[s] # None =>
           pending'[s] = asked[s] /\ Verdict(s, asked[s], newest) = "wait"
  BY <1>1
<1>4. ASSUME NEW v \in verdicts' \ verdicts
      PROVE  /\ v \in [seq : Ledgers, verdict : VerdictNames]
             /\ v.seq \in Ledgers /\ asked[v.seq] # None
             /\ v.verdict = Verdict(v.seq, asked[v.seq], newest)
  <2>1. PICK s \in done : v = [seq |-> s, verdict |-> Verdict(s, asked[s], newest)]
    BY <1>1
  <2>2. v.seq = s /\ v.verdict = Verdict(s, asked[s], newest) /\ s \in Ledgers /\ asked[s] # None
    BY <2>1
  <2>3. v \in [seq : Ledgers, verdict : VerdictNames]
    <3> HIDE DEF done
    <3>1. QED
      BY <1>2, <2>1, <2>2
  <2>4. QED
    BY <2>2, <2>3
<1>5. QED
  BY <1>3, <1>4

\* .39's word on a ledger, or the witness's: only pending and verdicts move.
LEMMA NetworkValidatedType ==
  ASSUME TypeOK, NEW s \in Ledgers, NetworkValidated(s)
  PROVE  /\ pending' \in [Ledgers -> Hashes \cup {None}]
         /\ verdicts' \subseteq [seq : Ledgers, verdict : VerdictNames]
         /\ UNCHANGED <<held, votes, reached, sets, agreed>>
<1> DEFINE asked == IF Listening(s) THEN [pending EXCEPT ![s] = Net[s]] ELSE pending
<1>1. asked \in [Ledgers -> Hashes \cup {None}]
  BY TallyConstants DEF TypeOK
<1>2. JudgePending(s, asked) /\ UNCHANGED <<held, votes, reached, sets, agreed>>
  BY DEF NetworkValidated
<1> HIDE DEF asked
<1>3. QED
  BY <1>1, <1>2, JudgeIs DEF TypeOK

\* AGREED_KEEP agreed sets at most.
FewKept(ag) == Cardinality({s \in Ledgers : ag[s] # None}) <= AGREED_KEEP

\* The agreed sets with that of sequence old, if there is one.
WithSet(ag, old, a) == [ag EXCEPT ![old] = IF a = None THEN ag[old] ELSE a]

\* Trimming keeps AGREED_KEEP sets at most, and only forgets.
LEMMA TrimmedType ==
  ASSUME NEW ag \in [Ledgers -> TxSets \cup {None}], NEW old \in Ledgers, NEW a \in TxSets \cup {None},
         FewKept(ag), NEW new, new = Trimmed(WithSet(ag, old, a))
  PROVE  /\ new \in [Ledgers -> TxSets \cup {None}]
         /\ FewKept(new)
         /\ \A s \in Ledgers : new[s] \in {None, ag[s]} \/ (s = old /\ new[s] = a)
<1> DEFINE wide == WithSet(ag, old, a)
           A == {s \in Ledgers : wide[s] # None}
           B == {s \in Ledgers : ag[s] # None}
<1>1. /\ wide \in [Ledgers -> TxSets \cup {None}]
      /\ \A s \in Ledgers : wide[s] = ag[s] \/ (s = old /\ wide[s] = a)
  BY DEF WithSet
<1>2. A \subseteq B \cup {old} /\ A \subseteq Ledgers /\ B \subseteq Ledgers
  BY DEF WithSet
<1>3. IsFiniteSet(A) /\ Cardinality(A) \in Nat /\ IsFiniteSet(B) /\ Cardinality(B) \in Nat
  BY LedgersFinite
<1>k. AGREED_KEEP \in Nat \ {0} /\ Cardinality(B) <= AGREED_KEEP
  BY TallyConstants DEF FewKept
<1>t. new = IF Cardinality(A) > AGREED_KEEP THEN [wide EXCEPT ![Oldest(A)] = None] ELSE wide
  BY DEF Trimmed
<1>g. SUFFICES /\ new \in [Ledgers -> TxSets \cup {None}]
               /\ Cardinality({s \in Ledgers : new[s] # None}) <= AGREED_KEEP
               /\ \A s \in Ledgers : new[s] \in {None, wide[s]}
  BY <1>1 DEF FewKept
<1>4. Cardinality(A) <= Cardinality(B) + 1
  <2>1. IsFiniteSet(B \cup {old}) /\ Cardinality(B \cup {old}) <= Cardinality(B) + 1
    <3> HIDE DEF B
    <3>1. Cardinality(B \cup {old}) = IF old \in B THEN Cardinality(B) ELSE Cardinality(B) + 1
      BY <1>3, FS_AddElement
    <3>2. IsFiniteSet(B \cup {old})
      BY <1>3, FS_AddElement
    <3>3. QED
      BY <1>3, <3>1, <3>2
  <2>2. Cardinality(A) <= Cardinality(B \cup {old}) /\ Cardinality(B \cup {old}) \in Nat
    BY <1>2, <2>1, FS_Subset, FS_CardinalityType
  <2> HIDE DEF A, B
  <2>3. QED
    BY <1>3, <2>1, <2>2
<1>5. CASE Cardinality(A) > AGREED_KEEP
  <2>1. A # {} /\ A \subseteq Ledgers
    BY <1>2, <1>5, <1>k, FS_EmptySet
  <2>2. Oldest(A) \in A
    BY <2>1, OldestIs
  <2>3. new = [wide EXCEPT ![Oldest(A)] = None]
    BY <1>5, <1>t
  <2>4. {s \in Ledgers : new[s] # None} = A \ {Oldest(A)}
    <3>1. \A s \in Ledgers : new[s] = IF s = Oldest(A) THEN None ELSE wide[s]
      <4> HIDE DEF wide, A
      <4>1. QED
        BY <1>1, <2>3
    <3>2. \A s \in Ledgers : s \in A <=> wide[s] # None
      OBVIOUS
    <3>3. ASSUME NEW s \in Ledgers PROVE new[s] # None <=> s \in A \ {Oldest(A)}
      <4> HIDE DEF wide, A
      <4>1. QED
        BY <3>1, <3>2
    <3>4. A \subseteq Ledgers
      BY <1>2
    <3> HIDE DEF wide, A
    <3>5. QED
      BY <3>3, <3>4
  <2>5. Cardinality(A \ {Oldest(A)}) = Cardinality(A) - 1
    BY <1>3, <2>2, FS_RemoveElement
  <2>6. Cardinality({s \in Ledgers : new[s] # None}) <= AGREED_KEEP
    <3>1. Cardinality({s \in Ledgers : new[s] # None}) = Cardinality(A \ {Oldest(A)})
      BY <2>4
    <3>2. Cardinality(A) - 1 <= AGREED_KEEP
      <4> HIDE DEF A, B
      <4>1. QED
        BY <1>3, <1>4, <1>k
    <3> HIDE DEF A
    <3>3. QED
      BY <2>5, <3>1, <3>2
  <2>7. new \in [Ledgers -> TxSets \cup {None}] /\ \A s \in Ledgers : new[s] \in {None, wide[s]}
    <3> HIDE DEF wide
    <3>1. QED
      BY <1>1, <2>3
  <2>8. QED
    BY <2>6, <2>7
<1>6. CASE ~(Cardinality(A) > AGREED_KEEP)
  <2>1. new = wide
    BY <1>6, <1>t
  <2>2. Cardinality(A) <= AGREED_KEEP
    <3> HIDE DEF A
    <3>1. QED
      BY <1>3, <1>6, <1>k
  <2>3. QED
    BY <1>1, <2>1, <2>2
<1>7. QED
  BY <1>5, <1>6

\* The sequences held after a vote, and the one let go.
LEMMA HeldIs ==
  ASSUME held \subseteq Ledgers, Cardinality(held) <= KEEP, NEW s \in Ledgers
  PROVE  /\ held \cup {s} \in SUBSET Ledgers
         /\ Cardinality(held \cup {s}) <= KEEP + 1
<1>1. IsFiniteSet(held) /\ Cardinality(held) \in Nat /\ KEEP \in Nat
  BY LedgersFinite, TallyConstants
<1>2. Cardinality(held \cup {s}) = IF s \in held THEN Cardinality(held) ELSE Cardinality(held) + 1
  BY <1>1, FS_AddElement
<1>3. QED
  BY <1>1, <1>2

\* A vote keeps every type.
LEMMA VoteType ==
  ASSUME TypeOK, Vote
  PROVE  TypeOK'
<1>1. PICK m \in masters, s \in Ledgers, h \in Hashes :
        /\ MayName(m, s, h) /\ ~TooOld(s)
        /\ VoteFor(m, s, h)
        /\ first_seq' = IF first_seq = None THEN s ELSE first_seq
        /\ named' = [named EXCEPT ![s][h] = @ \cup {m}]
  BY DEF Vote
<1>v. JudgePending(NewestPending, pending) /\ UNCHANGED <<split, peers, masters, negative, loopVars>>
  BY DEF Vote
<1> DEFINE all  == held \cup {s}
           gone == LetGo(all)
<1>2. m \in Validators
  BY DEF TypeOK
<1>3. all \in SUBSET Ledgers /\ Cardinality(all) <= KEEP + 1
  BY HeldIs DEF TypeOK
<1>4. Cardinality(all \ gone) <= KEEP /\ (gone # {} => Oldest(all) \in Ledgers)
  BY <1>3, LetGoIs
<1>5. held' \subseteq Ledgers /\ Cardinality(held') <= KEEP
  <2>1. held' = all \ gone
    BY <1>1 DEF VoteFor
  <2>2. QED
    BY <1>3, <1>4, <2>1
<1>6. votes' \in [Ledgers -> [Validators -> Hashes \cup {None}]]
  <2>1. [votes[s] EXCEPT ![m] = h] \in [Validators -> Hashes \cup {None}]
    BY <1>2 DEF TypeOK
  <2>2. NoVotes \in [Validators -> Hashes \cup {None}]
    BY DEF NoVotes
  <2>3. QED
    BY <1>1, <2>1, <2>2 DEF VoteFor, TypeOK
<1>7. reached' \in [Ledgers -> SUBSET Hashes] /\ ever' \in [Ledgers -> SUBSET Hashes]
  <2> DEFINE now == {g \in {h} : /\ m \notin negative /\ NeededNow > 0
                                  /\ Cardinality(TallyWith(m, s, h)) >= NeededNow}
  <2>1. now \in SUBSET Hashes
    OBVIOUS
  <2>2. /\ reached' = [q \in Ledgers |-> IF q \in gone THEN {}
                                         ELSE IF q = s THEN reached[s] \cup now ELSE reached[q]]
        /\ ever' = [ever EXCEPT ![s] = @ \cup now]
    BY <1>1 DEF VoteFor
  <2> HIDE DEF now
  <2>3. QED
    BY <2>1, <2>2 DEF TypeOK
<1>8. sets' \in [Ledgers -> [Validators -> TxSets \cup {None}]]
  <2>1. PICK c \in MayAccept(m, h) :
          sets' = [q \in Ledgers |-> IF q \in gone THEN NoVotes ELSE NoteSet(m, s, c, sets)[q]]
    BY <1>1 DEF VoteFor
  <2>2. c \in TxSets \cup {None}
    BY TallyConstants DEF MayAccept
  <2>3. NoteSet(m, s, c, sets) \in [Ledgers -> [Validators -> TxSets \cup {None}]]
    BY <1>2, <2>2 DEF TypeOK, NoteSet
  <2>4. NoVotes \in [Validators -> TxSets \cup {None}]
    BY DEF NoVotes
  <2>5. QED
    BY <2>1, <2>3, <2>4
<1>9. /\ agreed' \in [Ledgers -> TxSets \cup {None}]
      /\ Cardinality({q \in Ledgers : agreed'[q] # None}) <= AGREED_KEEP
  <2>1. CASE gone = {}
    <3>1. agreed' = agreed
      BY <1>1, <2>1 DEF VoteFor
    <3>2. QED
      BY <3>1 DEF TypeOK
  <2>2. CASE gone # {}
    <3>1. PICK a \in KeptSet(Oldest(all)) :
            agreed' = Trimmed([agreed EXCEPT ![Oldest(all)] = IF a = None THEN @ ELSE a])
      BY <1>1, <2>2 DEF VoteFor
    <3>2. agreed' = Trimmed(WithSet(agreed, Oldest(all), a))
      BY <3>1 DEF WithSet
    <3>3. a \in TxSets \cup {None}
      BY DEF KeptSet, Majority
    <3>4. Oldest(all) \in Ledgers
      BY <1>4, <2>2
    <3>5. agreed \in [Ledgers -> TxSets \cup {None}] /\ FewKept(agreed)
      BY DEF TypeOK, FewKept
    <3>6. agreed' \in [Ledgers -> TxSets \cup {None}] /\ FewKept(agreed')
      <4> HIDE DEF all
      <4>1. QED
        BY <3>2, <3>3, <3>4, <3>5, TrimmedType
    <3>7. QED
      BY <3>6 DEF FewKept
  <2>3. QED
    BY <2>1, <2>2
<1>10. /\ pending' \in [Ledgers -> Hashes \cup {None}]
       /\ verdicts' \subseteq [seq : Ledgers, verdict : VerdictNames]
  BY <1>v, JudgeIs DEF TypeOK
<1>11. named' \in [Ledgers -> [Hashes -> SUBSET Validators]] /\ first_seq' \in Ledgers \cup {None}
  BY <1>1, <1>2 DEF TypeOK
<1>12. UNCHANGED <<split, peers, masters, negative, landed, taken, told>>
  BY <1>v DEF loopVars
<1>13. QED
  BY <1>5, <1>6, <1>7, <1>8, <1>9, <1>10, <1>11, <1>12 DEF TypeOK

\* A ledger is fetched only while there is one more to land.
Room == taken => landed < MaxSeq

\* The initial state has every type.
LEMMA TypeInit == Init => TypeOK
<1> SUFFICES ASSUME Init PROVE TypeOK
  OBVIOUS
<1>1. Cardinality(held) <= KEEP
  BY FS_EmptySet, TallyConstants DEF Init
<1>2. {s \in Ledgers : agreed[s] # None} = {}
  BY DEF Init
<1>3. Cardinality({s \in Ledgers : agreed[s] # None}) <= AGREED_KEEP
  <2>1. Cardinality({s \in Ledgers : agreed[s] # None}) = Cardinality({})
    BY <1>2
  <2>2. QED
    BY <2>1, FS_EmptySet, TallyConstants
<1>4. NoVotes \in [Validators -> Hashes \cup {None}] /\ NoVotes \in [Validators -> TxSets \cup {None}]
  BY DEF NoVotes
<1>5. split \in BOOLEAN /\ peers \in BOOLEAN /\ MaxSeq \in Nat
  BY TallyConstants DEF Init
<1>6. /\ held \subseteq Ledgers /\ masters \subseteq Validators /\ negative \subseteq Validators
      /\ votes \in [Ledgers -> [Validators -> Hashes \cup {None}]]
      /\ reached \in [Ledgers -> SUBSET Hashes]
      /\ sets \in [Ledgers -> [Validators -> TxSets \cup {None}]]
      /\ agreed \in [Ledgers -> TxSets \cup {None}]
  BY <1>4 DEF Init
<1>7. /\ pending \in [Ledgers -> Hashes \cup {None}] /\ first_seq \in Ledgers \cup {None}
      /\ named \in [Ledgers -> [Hashes -> SUBSET Validators]]
      /\ ever \in [Ledgers -> SUBSET Hashes] /\ verdicts = {}
  BY DEF Init
<1>9. landed \in 0 .. MaxSeq /\ taken \in BOOLEAN /\ told \in 0 .. MaxSeq
  <2>1. 0 \in 0 .. MaxSeq
    BY <1>5
  <2>2. QED
    BY <2>1 DEF Init
<1>8. QED
  BY <1>1, <1>3, <1>5, <1>6, <1>7, <1>9 DEF TypeOK

\* Every step keeps every type.
LEMMA TypeStep ==
  ASSUME TypeOK, Room, [Next]_vars
  PROVE  TypeOK' /\ Room'
<1>0. MaxSeq \in Nat
  BY TallyConstants
<1>1. CASE SetUnl
  <2>1. masters' \subseteq Validators
    BY <1>1, TallyConstants DEF SetUnl
  <2>2. QED
    BY <1>1, <2>1 DEF SetUnl, TypeOK, Room, loopVars, histVars
<1>2. CASE Vote
  <2>1. UNCHANGED <<landed, taken>>
    BY <1>2 DEF Vote, loopVars
  <2>2. QED
    BY <1>2, <2>1, VoteType DEF Room
<1>3. CASE OldVote
  <2>1. PICK m \in masters, s \in held, h \in Hashes :
          /\ \E c \in MayAccept(m, h) : sets' = NoteSet(m, s, c, sets)
          /\ named' = [named EXCEPT ![s][h] = @ \cup {m}]
    BY <1>3 DEF OldVote
  <2>2. m \in Validators /\ s \in Ledgers
    BY DEF TypeOK
  <2>3. sets' \in [Ledgers -> [Validators -> TxSets \cup {None}]]
    BY <2>1, <2>2, TallyConstants DEF TypeOK, MayAccept, NoteSet
  <2>4. named' \in [Ledgers -> [Hashes -> SUBSET Validators]]
    BY <2>1, <2>2 DEF TypeOK
  <2>5. UNCHANGED <<split, peers, masters, negative, held, votes, reached, agreed, pending, first_seq,
                    landed, taken, told, ever, verdicts>>
    BY <1>3 DEF OldVote, loopVars
  <2>6. QED
    BY <2>3, <2>4, <2>5 DEF TypeOK, Room
<1>4. CASE Take
  <2>1. landed \in 0 .. MaxSeq /\ landed < MaxSeq /\ MaxSeq \in Nat
    BY <1>4, TallyConstants DEF Take, TypeOK
  <2>2. negative' \subseteq Validators
    BY <1>4, <2>1, TallyConstants DEF Take
  <2>3. /\ pending' \in [Ledgers -> Hashes \cup {None}]
        /\ verdicts' \subseteq [seq : Ledgers, verdict : VerdictNames]
        /\ UNCHANGED <<held, votes, reached, sets, agreed>>
    <3>1. CASE peers
      BY <1>4, <3>1 DEF Take, TypeOK
    <3>2. CASE ~peers
      <4>1. landed + 1 \in Ledgers
        BY <2>1 DEF Ledgers
      <4>2. NetworkValidated(landed + 1)
        BY <1>4, <3>2 DEF Take
      <4>3. QED
        BY <4>1, <4>2, NetworkValidatedType
    <3>3. QED
      BY <3>1, <3>2
  <2>4. /\ taken' = TRUE
        /\ UNCHANGED <<split, peers, masters, first_seq, landed, told, named, ever>>
    BY <1>4 DEF Take
  <2>5. QED
    BY <2>1, <2>2, <2>3, <2>4 DEF TypeOK, Room
<1>5. CASE HeldBack
  BY <1>5 DEF HeldBack, TypeOK, Room, tallyVars, histVars
<1>6. CASE Land
  <2>1. landed' \in 0 .. MaxSeq
    BY <1>0, <1>6 DEF Land, TypeOK, Room
  <2>2. QED
    BY <1>6, <2>1 DEF Land, TypeOK, Room, tallyVars, histVars
<1>7. CASE WitnessAnswers
  <2>1. PICK s \in told + 1 .. landed : told' = s /\ NetworkValidated(s)
    BY <1>7 DEF WitnessAnswers
  <2>2. s \in Ledgers /\ told' \in 0 .. MaxSeq
    BY <2>1, TallyConstants DEF TypeOK, Ledgers
  <2>3. /\ pending' \in [Ledgers -> Hashes \cup {None}]
        /\ verdicts' \subseteq [seq : Ledgers, verdict : VerdictNames]
        /\ UNCHANGED <<held, votes, reached, sets, agreed>>
    BY <2>1, <2>2, NetworkValidatedType
  <2>4. UNCHANGED <<split, peers, masters, negative, first_seq, landed, taken, named, ever>>
    BY <1>7 DEF WitnessAnswers
  <2>5. QED
    BY <2>2, <2>3, <2>4 DEF TypeOK, Room
<1>8. CASE UNCHANGED vars
  BY <1>8 DEF vars, tallyVars, loopVars, histVars, TypeOK, Room
<1>9. QED
  BY <1>1, <1>2, <1>3, <1>4, <1>5, <1>6, <1>7, <1>8 DEF Next

\* Every variable keeps its type, the votes and the agreed sets their caps.
THEOREM TypeCorrect == Spec => []TypeOK
<1>1. Init => Room
  BY DEF Init, Room
<1>2. QED
  BY <1>1, TypeInit, TypeStep, PTL DEF Spec

-------------------------------------------------------------------------------
(* The quorum *)

\* The publisher serves one list.
OneList == \A K, L \in Lists : K = L

\* The negative UNLs the tally may count under.
Negatives == {{}} \cup {NegativeAt[n] : n \in 0 .. MaxSeq}

\* The faulty are few: two quorums, under whichever negative UNLs, share a
\* validator that is not faulty.
FewFaulty ==
  \A L \in Lists, M, N \in Negatives :
    QuorumOf(Cardinality(L), Cardinality(L \ M)) + QuorumOf(Cardinality(L), Cardinality(L \ N))
      > Cardinality(L \ (M \cap N)) + Cardinality(L \cap Faulty)

\* Some negative UNL gives the validators that named h for s the quorum.
Quorate(s, h) ==
  /\ masters \in Lists
  /\ \E N \in Negatives :
       Cardinality(named[s][h] \ N) >= QuorumOf(Cardinality(masters), Cardinality(masters \ N))

\* What stands behind the votes and the quorums: who named what.
Evidence ==
  /\ masters \in {{}} \cup Lists /\ negative \in Negatives
  /\ \A s \in Ledgers, m \in Validators : votes[s][m] # None => m \in named[s][votes[s][m]]
  /\ \A s \in Ledgers, h \in Hashes : named[s][h] \subseteq masters
  /\ \A s \in Ledgers, g, h \in Hashes : named[s][g] \cap named[s][h] \subseteq Faulty \/ g = h
  /\ ~split => \A s \in Ledgers, h \in Hashes : named[s][h] \subseteq Faulty \/ h = Net[s]
  /\ \A s \in Ledgers : \A h \in ever[s] : Quorate(s, h)

\* A quorum that is gone went with the oldest of KEEP sequences, and what is
\* pending is what .39 said of a ledger it was asked for.
Gone ==
  /\ \A s \in Ledgers : reached[s] \subseteq ever[s]
  /\ \A s \in Ledgers : ever[s] # reached[s] => Cardinality(held) = KEEP /\ \A t \in held : s < t
  /\ \A s \in Ledgers : pending[s] \in {None, Net[s]}
  /\ \A s \in Ledgers : pending[s] # None => s <= IF peers THEN told ELSE landed + 1

LEMMA QuorumOfInt ==
  ASSUME NEW n \in Nat, NEW e \in Nat
  PROVE  QuorumOf(n, e) \in Int
BY DEF QuorumOf

\* Sets of validators are finite, and counting them is monotone.
LEMMA Counting ==
  /\ \A S \in SUBSET Validators : IsFiniteSet(S) /\ Cardinality(S) \in Nat
  /\ \A S, T \in SUBSET Validators : S \subseteq T => Cardinality(S) <= Cardinality(T)
<1>1. ASSUME NEW S \in SUBSET Validators PROVE IsFiniteSet(S) /\ Cardinality(S) \in Nat
  BY TallyConstants, FS_Subset, FS_CardinalityType
<1>2. ASSUME NEW S \in SUBSET Validators, NEW T \in SUBSET Validators, S \subseteq T
      PROVE  Cardinality(S) <= Cardinality(T)
  BY <1>1, <1>2, FS_Subset
<1>3. QED
  BY <1>1, <1>2

\* A quorum stays one while the list stays and more name the hash.
LEMMA QuorateStays ==
  ASSUME TypeOK, TypeOK', NEW s \in Ledgers, NEW h \in Hashes,
         Quorate(s, h), masters' = masters, named[s][h] \subseteq named'[s][h]
  PROVE  Quorate(s, h)'
<1>1. PICK N \in Negatives :
        Cardinality(named[s][h] \ N) >= QuorumOf(Cardinality(masters), Cardinality(masters \ N))
  BY DEF Quorate
<1>2. named[s][h] \ N \in SUBSET Validators /\ named'[s][h] \ N \in SUBSET Validators
  BY DEF TypeOK
<1>3. masters \in SUBSET Validators /\ masters \ N \in SUBSET Validators
  BY DEF TypeOK
<1>4. Cardinality(named[s][h] \ N) <= Cardinality(named'[s][h] \ N)
  BY <1>2, Counting
<1>5. Cardinality(named[s][h] \ N) \in Nat /\ Cardinality(named'[s][h] \ N) \in Nat
  BY <1>2, Counting
<1>6. QuorumOf(Cardinality(masters), Cardinality(masters \ N)) \in Int
  BY <1>3, Counting, QuorumOfInt
<1>7. Cardinality(named'[s][h] \ N) >= QuorumOf(Cardinality(masters), Cardinality(masters \ N))
  BY <1>1, <1>4, <1>5, <1>6
<1>8. QED
  BY <1>7 DEF Quorate, Negatives

\* The hashes a vote brings to the quorum are those it counts for.
LEMMA VoteEvidence ==
  ASSUME TypeOK, TypeOK', Evidence, NEW m \in masters, NEW s \in Ledgers, NEW h \in Hashes,
         MayName(m, s, h), VoteFor(m, s, h), named' = [named EXCEPT ![s][h] = @ \cup {m}],
         UNCHANGED <<split, masters, negative>>
  PROVE  Evidence'
<1> DEFINE now  == {g \in {h} : /\ m \notin negative /\ NeededNow > 0
                                /\ Cardinality(TallyWith(m, s, h)) >= NeededNow}
           gone == LetGo(held \cup {s})
<1>1. m \in Validators /\ h # None
  BY TallyConstants DEF TypeOK
<1>2. \A q \in Ledgers, g \in Hashes :
        named'[q][g] = IF q = s /\ g = h THEN named[s][h] \cup {m} ELSE named[q][g]
  BY DEF TypeOK
<1>3. \A q \in Ledgers, v \in Validators :
        votes'[q][v] # None => votes'[q][v] = IF q = s /\ v = m THEN h ELSE votes[q][v]
  <2>1. votes' = [q \in Ledgers |-> IF q \in gone THEN NoVotes
                                   ELSE IF q = s THEN [votes[s] EXCEPT ![m] = h] ELSE votes[q]]
    BY DEF VoteFor
  <2> HIDE DEF gone
  <2>2. QED
    BY <1>1, <2>1 DEF NoVotes, TypeOK
<1>4. \A q \in Ledgers, v \in Validators : votes'[q][v] # None => v \in named'[q][votes'[q][v]]
  <2>1. ASSUME NEW q \in Ledgers, NEW v \in Validators, votes'[q][v] # None
        PROVE  v \in named'[q][votes'[q][v]]
    <3>1. CASE q = s /\ v = m
      BY <1>2, <1>3, <2>1, <3>1
    <3>2. CASE ~(q = s /\ v = m)
      <4>1. votes'[q][v] = votes[q][v] /\ votes[q][v] \in Hashes
        BY <1>3, <2>1, <3>2 DEF TypeOK
      <4>2. v \in named[q][votes[q][v]]
        BY <2>1, <4>1 DEF Evidence
      <4>3. QED
        BY <1>2, <4>1, <4>2
    <3>3. QED
      BY <3>1, <3>2
  <2>2. QED
    BY <2>1
<1>5. \A q \in Ledgers, g \in Hashes : named'[q][g] \subseteq masters
  BY <1>2 DEF Evidence
<1>6. \A q \in Ledgers, f, g \in Hashes : named'[q][f] \cap named'[q][g] \subseteq Faulty \/ f = g
  <2>1. m \in Faulty \/ \A g \in Hashes \ {h} : m \notin named[s][g]
    BY DEF MayName
  <2>2. QED
    BY <1>2, <2>1 DEF Evidence
<1>7. ~split => \A q \in Ledgers, g \in Hashes : named'[q][g] \subseteq Faulty \/ g = Net[q]
  <2>1. m \in Faulty \/ split \/ h = Net[s]
    BY DEF MayName
  <2>2. QED
    BY <1>2, <2>1 DEF Evidence
<1>8. ASSUME NEW q \in Ledgers, NEW g \in ever'[q] PROVE Quorate(q, g)'
  <2>1. ever' = [ever EXCEPT ![s] = @ \cup now]
    BY DEF VoteFor
  <2>2. now \subseteq {h} /\ g \in Hashes
    <3>1. now \subseteq {h}
      OBVIOUS
    <3>2. QED
      BY <3>1 DEF TypeOK
  <2>3. g \in ever[q] \/ (q = s /\ g = h /\ h \in now)
    <3> HIDE DEF now
    <3>1. QED
      BY <2>1, <2>2 DEF TypeOK
  <2>4. CASE g \in ever[q]
    <3>1. Quorate(q, g) /\ named[q][g] \subseteq named'[q][g]
      BY <1>2, <2>2, <2>4 DEF Evidence
    <3>2. QED
      BY <2>2, <3>1, QuorateStays
  <2>5. CASE q = s /\ g = h /\ h \in now
    <3>1. Cardinality(TallyWith(m, s, h)) >= NeededNow
      BY <2>5
    <3>2. TallyWith(m, s, h) \subseteq named'[s][h] \ negative
      <4>1. ASSUME NEW v \in TallyWith(m, s, h) PROVE v \in named'[s][h] \ negative
        <5>1. v \in Validators \ negative /\ [votes[s] EXCEPT ![m] = h][v] = h
          BY <4>1 DEF TallyWith, Counted
        <5>2. v = m \/ votes[s][v] = h
          BY <1>1, <5>1 DEF TypeOK
        <5>3. v = m \/ v \in named[s][h]
          BY <1>1, <5>1, <5>2 DEF Evidence
        <5>4. QED
          BY <1>2, <5>1, <5>3
      <4>2. QED
        BY <4>1
    <3>3. named'[s][h] \ negative \in SUBSET Validators /\ TallyWith(m, s, h) \in SUBSET Validators
      BY <3>2 DEF TypeOK
    <3>4. Cardinality(TallyWith(m, s, h)) <= Cardinality(named'[s][h] \ negative)
      BY <3>2, <3>3, Counting
    <3>5. /\ Cardinality(TallyWith(m, s, h)) \in Nat
          /\ Cardinality(named'[s][h] \ negative) \in Nat
      BY <3>3, Counting
    <3>6. NeededNow = QuorumOf(Cardinality(masters), Cardinality(masters \ negative)) /\ NeededNow \in Int
      <4>1. masters \in SUBSET Validators /\ masters \ negative \in SUBSET Validators
        BY DEF TypeOK
      <4>2. QED
        BY <4>1, Counting, QuorumOfInt DEF NeededNow, Effective
    <3>7. Cardinality(named'[s][h] \ negative) >= QuorumOf(Cardinality(masters), Cardinality(masters \ negative))
      BY <3>1, <3>4, <3>5, <3>6
    <3>8. masters \in Lists /\ negative \in Negatives
      BY DEF Evidence
    <3>9. QED
      BY <2>5, <3>7, <3>8 DEF Quorate, Negatives
  <2>6. QED
    BY <2>3, <2>4, <2>5
<1>9. masters' \in {{}} \cup Lists /\ negative' \in Negatives
  BY DEF Evidence
<1>10. QED
  BY <1>4, <1>5, <1>6, <1>7, <1>8, <1>9 DEF Evidence, Negatives

LEMMA EvidenceInit == ASSUME TypeOK, Init PROVE Evidence
BY DEF Init, Evidence, NoVotes, Negatives

\* Steps that add no vote and no list leave the evidence alone.
LEMMA EvidenceStays ==
  ASSUME TypeOK, Evidence, negative' \in Negatives,
         UNCHANGED <<split, masters, votes, named, ever>>
  PROVE  Evidence'
BY DEF Evidence, Quorate, Negatives

LEMMA EvidenceStep ==
  ASSUME OneList, TypeOK, TypeOK', Evidence, [Next]_vars
  PROVE  Evidence'
<1>1. CASE SetUnl
  <2>1. masters = {}
    <3>1. PICK L \in Lists \ {masters} : masters' = L
      BY <1>1 DEF SetUnl
    <3>2. masters \notin Lists
      BY <3>1 DEF OneList
    <3>3. QED
      BY <3>2 DEF Evidence
  <2>2. masters' \in Lists /\ UNCHANGED <<split, negative, votes, named, ever>>
    BY <1>1 DEF SetUnl, histVars
  <2>3. \A s \in Ledgers : ever[s] = {}
    <3>1. ASSUME NEW s \in Ledgers, NEW h \in ever[s] PROVE FALSE
      <4>1. masters \in Lists
        BY <3>1 DEF Evidence, Quorate
      <4>2. PICK L \in Lists \ {masters} : TRUE
        BY <1>1 DEF SetUnl
      <4>3. QED
        BY <4>1, <4>2 DEF OneList
    <3>2. QED
      BY <3>1
  <2>4. \A s \in Ledgers, h \in Hashes : named'[s][h] \subseteq masters'
    BY <2>1, <2>2 DEF Evidence
  <2>5. QED
    BY <2>2, <2>3, <2>4 DEF Evidence, Negatives
<1>2. CASE Vote
  <2>1. PICK m \in masters, s \in Ledgers, h \in Hashes :
          /\ MayName(m, s, h) /\ VoteFor(m, s, h)
          /\ named' = [named EXCEPT ![s][h] = @ \cup {m}]
    BY <1>2 DEF Vote
  <2>2. UNCHANGED <<split, masters, negative>>
    BY <1>2 DEF Vote
  <2>3. QED
    BY <2>1, <2>2, VoteEvidence
<1>3. CASE OldVote
  <2>1. PICK m \in masters, s \in held, h \in Hashes :
          MayName(m, s, h) /\ named' = [named EXCEPT ![s][h] = @ \cup {m}]
    BY <1>3 DEF OldVote
  <2>2. UNCHANGED <<split, masters, negative, votes, ever>>
    BY <1>3 DEF OldVote
  <2>3. s \in Ledgers /\ m \in Validators
    BY DEF TypeOK
  <2>4. \A q \in Ledgers, g \in Hashes :
          named'[q][g] = IF q = s /\ g = h THEN named[s][h] \cup {m} ELSE named[q][g]
    BY <2>1, <2>3 DEF TypeOK
  <2>5. \A q \in Ledgers, v \in Validators : votes[q][v] # None => v \in named'[q][votes[q][v]]
    <3>1. \A q \in Ledgers, v \in Validators : votes[q][v] # None => votes[q][v] \in Hashes
      BY DEF TypeOK
    <3>2. QED
      BY <2>4, <3>1 DEF Evidence
  <2>6. \A q \in Ledgers, g \in Hashes : named'[q][g] \subseteq masters
    BY <2>4 DEF Evidence
  <2>7. \A q \in Ledgers, f, g \in Hashes : named'[q][f] \cap named'[q][g] \subseteq Faulty \/ f = g
    <3>1. m \in Faulty \/ \A g \in Hashes \ {h} : m \notin named[s][g]
      BY <2>1 DEF MayName
    <3>2. QED
      BY <2>4, <3>1 DEF Evidence
  <2>8. ~split => \A q \in Ledgers, g \in Hashes : named'[q][g] \subseteq Faulty \/ g = Net[q]
    <3>1. m \in Faulty \/ split \/ h = Net[s]
      BY <2>1 DEF MayName
    <3>2. QED
      BY <2>4, <3>1 DEF Evidence
  <2>9. ASSUME NEW q \in Ledgers, NEW g \in ever[q] PROVE Quorate(q, g)'
    <3>1. g \in Hashes
      BY DEF TypeOK
    <3>2. Quorate(q, g) /\ named[q][g] \subseteq named'[q][g]
      BY <2>4, <3>1 DEF Evidence
    <3>3. QED
      BY <2>2, <3>1, <3>2, QuorateStays
  <2>10. QED
    BY <2>2, <2>5, <2>6, <2>7, <2>8, <2>9 DEF Evidence, Negatives
<1>4. CASE Take
  <2>1. landed \in 0 .. MaxSeq /\ negative' = NegativeAt[landed]
    BY <1>4 DEF Take, TypeOK
  <2>2. UNCHANGED <<split, masters, votes, named, ever>>
    BY <1>4 DEF Take, NetworkValidated
  <2>3. negative' \in Negatives
    BY <2>1 DEF Negatives
  <2>4. QED
    BY <2>2, <2>3, EvidenceStays
<1>5. CASE HeldBack \/ Land \/ WitnessAnswers \/ UNCHANGED vars
  <2>1. UNCHANGED <<split, masters, negative, votes, named, ever>>
    BY <1>5 DEF HeldBack, Land, WitnessAnswers, NetworkValidated, vars, tallyVars, histVars
  <2>2. negative' \in Negatives
    BY <2>1 DEF Evidence
  <2>3. QED
    BY <2>1, <2>2, EvidenceStays
<1>6. QED
  BY <1>1, <1>2, <1>3, <1>4, <1>5 DEF Next

\* Two quorums for one ledger would share a sound validator, which named both.
LEMMA QuorumsMeet ==
  ASSUME FewFaulty, TypeOK, Evidence, NEW s \in Ledgers, NEW g \in ever[s], NEW h \in ever[s], g # h
  PROVE  FALSE
<1>1. g \in Hashes /\ h \in Hashes /\ masters \in Lists /\ masters \in SUBSET Validators
  BY DEF TypeOK, Evidence, Quorate
<1>2. PICK M \in Negatives :
        Cardinality(named[s][g] \ M) >= QuorumOf(Cardinality(masters), Cardinality(masters \ M))
  BY DEF Evidence, Quorate
<1>3. PICK N \in Negatives :
        Cardinality(named[s][h] \ N) >= QuorumOf(Cardinality(masters), Cardinality(masters \ N))
  BY DEF Evidence, Quorate
<1> DEFINE A == named[s][g] \ M
           B == named[s][h] \ N
<1>4. /\ A \subseteq masters \ M /\ B \subseteq masters \ N
      /\ A \cap B \subseteq masters \cap Faulty
  BY <1>1 DEF Evidence
<1>5. /\ A \cup B \subseteq masters \ (M \cap N)
      /\ {A, B, A \cup B, A \cap B, masters \ (M \cap N), masters \cap Faulty, masters, masters \ M, masters \ N}
           \subseteq SUBSET Validators
  BY <1>1, <1>4
<1>6. Cardinality(A \cup B) = Cardinality(A) + Cardinality(B) - Cardinality(A \cap B)
  <2> HIDE DEF A, B
  <2>1. IsFiniteSet(A) /\ IsFiniteSet(B)
    BY <1>5, Counting
  <2>2. QED
    BY <2>1, FS_Union
<1>7. /\ Cardinality(A \cup B) <= Cardinality(masters \ (M \cap N))
      /\ Cardinality(A \cap B) <= Cardinality(masters \cap Faulty)
  <2> HIDE DEF A, B
  <2>1. QED
    BY <1>4, <1>5, Counting
<1>8. \A S \in {A, B, A \cup B, A \cap B, masters \ (M \cap N), masters \cap Faulty, masters, masters \ M, masters \ N} :
        Cardinality(S) \in Nat
  <2> HIDE DEF A, B
  <2>1. QED
    BY <1>5, Counting
<1>9. /\ QuorumOf(Cardinality(masters), Cardinality(masters \ M)) \in Int
      /\ QuorumOf(Cardinality(masters), Cardinality(masters \ N)) \in Int
  BY <1>8, QuorumOfInt
<1>10. QuorumOf(Cardinality(masters), Cardinality(masters \ M)) + QuorumOf(Cardinality(masters), Cardinality(masters \ N))
         > Cardinality(masters \ (M \cap N)) + Cardinality(masters \cap Faulty)
  BY <1>1 DEF FewFaulty
<1>11. /\ Cardinality(A) >= QuorumOf(Cardinality(masters), Cardinality(masters \ M))
       /\ Cardinality(B) >= QuorumOf(Cardinality(masters), Cardinality(masters \ N))
  BY <1>2, <1>3
<1>12. /\ Cardinality(A) \in Nat /\ Cardinality(B) \in Nat /\ Cardinality(A \cup B) \in Nat
       /\ Cardinality(A \cap B) \in Nat /\ Cardinality(masters \ (M \cap N)) \in Nat
       /\ Cardinality(masters \cap Faulty) \in Nat
  BY <1>8
<1> HIDE DEF A, B
<1>13. QED
  BY <1>6, <1>7, <1>9, <1>10, <1>11, <1>12

\* Every step of the tally keeps the types and the evidence.
LEMMA EvidenceHolds == OneList => (Spec => [](TypeOK /\ Evidence))
<1> SUFFICES ASSUME OneList PROVE Spec => [](TypeOK /\ Evidence)
  OBVIOUS
<1>1. Init => TypeOK /\ Room /\ Evidence
  BY TypeInit, EvidenceInit DEF Init, Room
<1>2. TypeOK /\ Room /\ Evidence /\ [Next]_vars => (TypeOK /\ Room /\ Evidence)'
  BY TypeStep, EvidenceStep
<1>3. QED
  BY <1>1, <1>2, PTL DEF Spec

\* With one list and few faulty validators no two hashes of a ledger ever reach
\* the quorum, whatever order the votes come in and however the negative UNL
\* moves.
THEOREM QuorumIsUnique == OneList /\ FewFaulty => (Spec => []OneQuorumPerLedger)
<1> SUFFICES ASSUME OneList, FewFaulty PROVE Spec => []OneQuorumPerLedger
  OBVIOUS
<1>1. TypeOK /\ Evidence => OneQuorumPerLedger
  BY QuorumsMeet DEF OneQuorumPerLedger
<1>2. QED
  BY <1>1, EvidenceHolds, PTL

-------------------------------------------------------------------------------
(* The verdicts *)

\* The last ledger .39 or the witness was asked about, at most.
LastAsked == IF peers THEN told ELSE landed + 1

\* What is asked: ledgers by their Net hash, none newer than newest or last.
Asks(asked, newest, last) ==
  /\ asked \in [Ledgers -> Hashes \cup {None}]
  /\ \A q \in Ledgers : /\ asked[q] \in {None, Net[q]}
                        /\ asked[q] # None => q <= newest /\ q <= last

\* .39's word on a ledger no older than those asked about before.
LEMMA WordAsks ==
  ASSUME TypeOK, Gone, NEW s \in Ledgers, NetworkValidated(s), LastAsked <= s
  PROVE  \E asked : JudgePending(s, asked) /\ Asks(asked, s, s)
<1> DEFINE asked == IF Listening(s) THEN [pending EXCEPT ![s] = Net[s]] ELSE pending
<1>1. asked \in [Ledgers -> Hashes \cup {None}] /\ JudgePending(s, asked)
  BY TallyConstants DEF NetworkValidated, TypeOK
<1>2. \A q \in Ledgers : asked[q] = pending[q] \/ (q = s /\ asked[q] = Net[q])
  BY DEF TypeOK
<1>3. /\ Ledgers \subseteq Nat /\ LastAsked \in Nat
      /\ \A q \in Ledgers : pending[q] # None => q <= LastAsked
  BY LedgersFinite, TallyConstants DEF LastAsked, TypeOK, Gone
<1>4. \A q \in Ledgers : pending[q] \in {None, Net[q]}
  BY DEF Gone
<1> HIDE DEF asked
<1>5. \A q \in Ledgers : asked[q] # None => q <= s
  BY <1>2, <1>3
<1>6. QED
  BY <1>1, <1>2, <1>4, <1>5 DEF Asks

\* Every verdict of a step is on ledgers asked about by their Net hash, none
\* newer than the one the judging is done by.
LEMMA Judging ==
  ASSUME TypeOK, Room, Gone, [Next]_vars
  PROVE  \/ UNCHANGED <<pending, verdicts>> /\ LastAsked <= LastAsked'
         \/ \E newest, asked : newest \in Nat /\ JudgePending(newest, asked) /\ Asks(asked, newest, LastAsked')
<1>1. /\ MaxSeq \in Nat /\ Ledgers \subseteq Nat /\ landed \in Nat /\ told \in Nat /\ LastAsked \in Nat
      /\ landed <= MaxSeq
  BY TallyConstants, LedgersFinite DEF TypeOK, LastAsked
<1>2. CASE SetUnl \/ OldVote \/ HeldBack \/ UNCHANGED vars
  <2>1. UNCHANGED <<peers, pending, verdicts, landed, told>>
    BY <1>2 DEF SetUnl, OldVote, HeldBack, vars, tallyVars, loopVars, histVars
  <2>2. QED
    BY <1>1, <2>1 DEF LastAsked
<1>3. CASE Land
  <2>1. UNCHANGED <<peers, pending, verdicts, told>> /\ landed' = landed + 1
    BY <1>3 DEF Land, tallyVars, histVars
  <2>2. QED
    BY <1>1, <2>1 DEF LastAsked
<1>4. CASE Vote
  <2>1. JudgePending(NewestPending, pending) /\ UNCHANGED <<peers, landed, told>>
    BY <1>4 DEF Vote, loopVars
  <2> DEFINE P == {q \in Ledgers : pending[q] # None}
  <2>2. NewestPending = IF P = {} THEN 0 ELSE Newest(P)
    BY DEF NewestPending
  <2>3. NewestPending \in Nat /\ \A q \in P : q <= NewestPending
    <3>1. P \in SUBSET Ledgers
      OBVIOUS
    <3> HIDE DEF P
    <3>2. QED
      BY <1>1, <2>2, <3>1, NewestIs
  <2>4. Asks(pending, NewestPending, LastAsked')
    BY <2>1, <2>3 DEF Asks, TypeOK, Gone, LastAsked
  <2>5. QED
    BY <2>1, <2>3, <2>4
<1>5. CASE Take
  <2>1. CASE peers
    <3>1. UNCHANGED <<peers, pending, verdicts, landed, told>>
      BY <1>5, <2>1 DEF Take
    <3>2. QED
      BY <1>1, <3>1 DEF LastAsked
  <2>2. CASE ~peers
    <3>1. NetworkValidated(landed + 1) /\ UNCHANGED <<peers, landed, told>> /\ landed < MaxSeq
      BY <1>5, <2>2 DEF Take
    <3>2. landed + 1 \in Ledgers /\ LastAsked = landed + 1 /\ LastAsked' = landed + 1
      BY <1>1, <2>2, <3>1 DEF Ledgers, LastAsked
    <3>3. QED
      BY <1>1, <3>1, <3>2, WordAsks
  <2>3. QED
    BY <2>1, <2>2
<1>6. CASE WitnessAnswers
  <2>1. PICK s \in told + 1 .. landed : told' = s /\ NetworkValidated(s)
    BY <1>6 DEF WitnessAnswers
  <2>2. peers /\ peers'
    BY <1>6 DEF WitnessAnswers
  <2>3. s \in Ledgers /\ LastAsked <= s /\ LastAsked' = s
    BY <1>1, <2>1, <2>2 DEF Ledgers, LastAsked
  <2>4. QED
    BY <1>1, <2>1, <2>3, WordAsks
<1>7. QED
  BY <1>2, <1>3, <1>4, <1>5, <1>6 DEF Next

\* What is let go by a vote goes below all that is held.
LEMMA VoteGone ==
  ASSUME TypeOK, Gone, NEW m \in masters, NEW s \in Ledgers, NEW h \in Hashes, VoteFor(m, s, h)
  PROVE  /\ \A q \in Ledgers : reached'[q] \subseteq ever'[q] /\ ever[q] \subseteq ever'[q]
         /\ \A q \in Ledgers : ever'[q] # reached'[q] => Cardinality(held') = KEEP /\ \A t \in held' : q < t
<1> DEFINE now  == {g \in {h} : /\ m \notin negative /\ NeededNow > 0
                                /\ Cardinality(TallyWith(m, s, h)) >= NeededNow}
           all  == held \cup {s}
           gone == LetGo(all)
<1>1. /\ held' = all \ gone
      /\ reached' = [q \in Ledgers |-> IF q \in gone THEN {}
                                       ELSE IF q = s THEN reached[s] \cup now ELSE reached[q]]
      /\ ever' = [ever EXCEPT ![s] = @ \cup now]
  BY DEF VoteFor
<1>2. all \in SUBSET Ledgers /\ Cardinality(all) <= KEEP + 1 /\ Ledgers \subseteq Nat
  BY HeldIs, LedgersFinite DEF TypeOK
<1>3. /\ gone \subseteq all
      /\ gone # {} => /\ gone = {Oldest(all)} /\ Oldest(all) \in all
                      /\ Cardinality(all \ gone) = KEEP
                      /\ \A t \in all \ gone : Oldest(all) < t
  BY <1>2, LetGoIs
<1>4. /\ reached \in [Ledgers -> SUBSET Hashes] /\ ever \in [Ledgers -> SUBSET Hashes]
      /\ held \subseteq Ledgers /\ IsFiniteSet(held) /\ Cardinality(held) \in Nat /\ KEEP \in Nat
  BY LedgersFinite, TallyConstants DEF TypeOK
<1>5. \A q \in Ledgers : reached[q] \subseteq ever[q]
  BY DEF Gone
<1>9. \A q \in Ledgers : ever[q] # reached[q] => Cardinality(held) = KEEP /\ \A t \in held : q < t
  BY DEF Gone
<1>6. CASE gone = {}
  <2>1. held' = all /\ Cardinality(all) <= KEEP
    <3>1. Cardinality(all) \in Nat
      BY <1>2, LedgersFinite
    <3>2. ~(Cardinality(all) > KEEP)
      BY <1>6 DEF LetGo
    <3> HIDE DEF all
    <3>3. QED
      BY <1>1, <1>4, <1>6, <3>1, <3>2
  <2>2. Cardinality(all) = IF s \in held THEN Cardinality(held) ELSE Cardinality(held) + 1
    BY <1>4, FS_AddElement
  <2>3. Cardinality(held) = KEEP => s \in held /\ held' = held
    BY <1>4, <2>1, <2>2
  <2> HIDE DEF now, gone, all
  <2>4. \A q \in Ledgers : /\ reached'[q] = IF q = s THEN reached[s] \cup now ELSE reached[q]
                          /\ ever'[q] = IF q = s THEN ever[s] \cup now ELSE ever[q]
    BY <1>1, <1>4, <1>6
  <2>5. ASSUME NEW q \in Ledgers
        PROVE  /\ reached'[q] \subseteq ever'[q] /\ ever[q] \subseteq ever'[q]
               /\ ever'[q] # reached'[q] => ever[q] # reached[q]
    BY <1>5, <2>4
  <2>6. ASSUME NEW q \in Ledgers, ever'[q] # reached'[q]
        PROVE  Cardinality(held') = KEEP /\ \A t \in held' : q < t
    <3>1. Cardinality(held) = KEEP /\ \A t \in held : q < t
      BY <1>9, <2>5, <2>6, Zenon
    <3>2. QED
      BY <2>3, <3>1
  <2>7. QED
    BY <2>5, <2>6
<1>7. CASE gone # {}
  <2>1. PICK o \in all : /\ gone = {o} /\ Cardinality(held') = KEEP
                         /\ \A t \in held' : o < t
    <3> HIDE DEF gone, all
    <3>1. QED
      BY <1>1, <1>3, <1>7
  <2>2. held' \subseteq held \cup {s} /\ (o = s \/ o \in held) /\ held' \subseteq Nat /\ o \in Nat
    <3>1. held' \subseteq all
      BY <1>1
    <3>2. QED
      BY <1>2, <2>1, <3>1
  <2>3. /\ reached' = [q \in Ledgers |-> IF q = o THEN {} ELSE IF q = s THEN reached[s] \cup now ELSE reached[q]]
        /\ ever' = [ever EXCEPT ![s] = @ \cup now]
    <3> HIDE DEF now, all
    <3>1. QED
      BY <1>1, <2>1
  <2>4. ASSUME NEW q \in Ledgers, ever'[q] # reached'[q] PROVE \A t \in held' : q < t
    <3>1. CASE q = o
      BY <2>1, <3>1
    <3>2. CASE q # o
      <4>1. ever[q] # reached[q]
        <5> HIDE DEF now, gone, all
        <5>1. /\ reached'[q] = IF q = s THEN reached[s] \cup now ELSE reached[q]
              /\ ever'[q] = IF q = s THEN ever[s] \cup now ELSE ever[q]
          BY <1>4, <2>3, <3>2
        <5>2. QED
          BY <2>4, <5>1
      <4>2. \A t \in held : q < t
        <5> HIDE DEF now, gone, all
        <5>1. QED
          BY <1>9, <4>1, Zenon
      <4>3. s \in held' => o < s /\ o \in held
        BY <2>1, <2>2
      <4>4. s \in held' => q < s
        BY <1>2, <2>2, <4>2, <4>3
      <4>5. QED
        BY <2>2, <4>2, <4>4
    <3>3. QED
      BY <3>1, <3>2
  <2>5. \A q \in Ledgers : reached'[q] \subseteq ever'[q] /\ ever[q] \subseteq ever'[q]
    <3> HIDE DEF now, gone, all
    <3>1. ASSUME NEW q \in Ledgers
          PROVE  /\ reached'[q] \subseteq (IF q = s THEN reached[s] \cup now ELSE reached[q])
                 /\ ever'[q] = IF q = s THEN ever[s] \cup now ELSE ever[q]
      BY <1>4, <2>3
    <3>2. QED
      BY <1>5, <3>1
  <2>6. QED
    BY <2>1, <2>4, <2>5
<1>10. QED
  BY <1>6, <1>7

LEMMA GoneInit == ASSUME Init PROVE Gone
BY DEF Init, Gone

\* Quorums are not forgotten, and only a vote lets one go.
LEMMA EverGrows ==
  ASSUME TypeOK, Gone, [Next]_vars
  PROVE  /\ \A q \in Ledgers : reached'[q] \subseteq ever'[q] /\ ever[q] \subseteq ever'[q]
         /\ \A q \in Ledgers : ever'[q] # reached'[q] => Cardinality(held') = KEEP /\ \A t \in held' : q < t
<1>1. CASE Vote
  <2>1. PICK m \in masters, s \in Ledgers, h \in Hashes : VoteFor(m, s, h)
    BY <1>1 DEF Vote
  <2>2. QED
    BY <2>1, VoteGone
<1>2. CASE ~Vote
  <2>1. UNCHANGED <<held, reached, ever>>
    BY <1>2 DEF Next, SetUnl, OldVote, Take, HeldBack, Land, WitnessAnswers, NetworkValidated,
                vars, tallyVars, histVars
  <2>2. QED
    BY <2>1 DEF Gone
<1>3. QED
  BY <1>1, <1>2

\* What stays pending was asked about and waits.
LEMMA StillAsked ==
  ASSUME TypeOK, NEW newest \in Nat, NEW asked, NEW last, JudgePending(newest, asked), Asks(asked, newest, last)
  PROVE  /\ \A q \in Ledgers : pending'[q] # None =>
              /\ pending'[q] = Net[q] /\ q <= newest /\ q <= last
              /\ ~(newest >= q + GIVE_UP)
         /\ \A q \in Ledgers : pending'[q] \in {None, Net[q]}
         /\ \A v \in verdicts' \ verdicts :
              v.seq \in Ledgers /\ v.verdict = Verdict(v.seq, Net[v.seq], newest)
<1>1. asked \in [Ledgers -> Hashes \cup {None}] /\ verdicts \subseteq [seq : Ledgers, verdict : VerdictNames]
  BY DEF Asks, TypeOK
<1>2. /\ \A s \in Ledgers : pending'[s] # None =>
            pending'[s] = asked[s] /\ Verdict(s, asked[s], newest) = "wait"
      /\ \A v \in verdicts' \ verdicts :
            /\ v.seq \in Ledgers /\ asked[v.seq] # None
            /\ v.verdict = Verdict(v.seq, asked[v.seq], newest)
  BY <1>1, JudgeIs
<1>3. \A q \in Ledgers : asked[q] \in {None, Net[q]} /\ (asked[q] # None => q <= newest /\ q <= last)
  BY DEF Asks
<1>4. ASSUME NEW q \in Ledgers, pending'[q] # None
      PROVE  /\ pending'[q] = Net[q] /\ q <= newest /\ q <= last
             /\ ~(newest >= q + GIVE_UP)
  <2>1. asked[q] = Net[q] /\ pending'[q] = Net[q] /\ Verdict(q, Net[q], newest) = "wait"
    BY <1>2, <1>3, <1>4
  <2>2. ~(newest >= q + GIVE_UP)
    BY <2>1 DEF Verdict
  <2>3. QED
    BY <1>2, <1>3, <1>4, <2>1, <2>2
<1>5. ASSUME NEW v \in verdicts' \ verdicts
      PROVE  v.seq \in Ledgers /\ v.verdict = Verdict(v.seq, Net[v.seq], newest)
  <2>1. v.seq \in Ledgers /\ asked[v.seq] = Net[v.seq]
    BY <1>2, <1>3
  <2>2. QED
    BY <1>2, <2>1
<1>6. QED
  BY <1>4, <1>5

LEMMA GoneStep ==
  ASSUME TypeOK, Room, Gone, [Next]_vars
  PROVE  Gone'
<1>1. /\ \A q \in Ledgers : reached'[q] \subseteq ever'[q]
      /\ \A q \in Ledgers : ever'[q] # reached'[q] => Cardinality(held') = KEEP /\ \A t \in held' : q < t
  BY EverGrows
<1>2. \A q \in Ledgers : pending'[q] \in {None, Net[q]} /\ (pending'[q] # None => q <= LastAsked')
  <2>1. CASE UNCHANGED <<pending, verdicts>> /\ LastAsked <= LastAsked'
    <3>1. LastAsked \in Nat /\ Ledgers \subseteq Nat
      BY LedgersFinite, TallyConstants DEF TypeOK, LastAsked
    <3>2. TypeOK'
      BY TypeStep
    <3>3. LastAsked' \in Nat
      <4>1. told' \in Nat /\ landed' \in Nat /\ MaxSeq \in Nat
        BY <3>2, TallyConstants DEF TypeOK
      <4>2. QED
        <5>1. LastAsked' = IF peers' THEN told' ELSE landed' + 1
          BY DEF LastAsked
        <5>0. \A x \in Nat : x + 1 \in Nat
          OBVIOUS
        <5>2. landed' + 1 \in Nat
          BY <4>1, <5>0, Zenon
        <5>3. QED
          BY <4>1, <5>1, <5>2, Zenon
    <3>4. \A q \in Ledgers : pending[q] \in {None, Net[q]} /\ (pending[q] # None => q <= LastAsked)
      BY DEF Gone, LastAsked
    <3>5. ASSUME NEW q \in Ledgers PROVE pending'[q] \in {None, Net[q]} /\ (pending'[q] # None => q <= LastAsked')
      <4>1. pending'[q] = pending[q] /\ q \in Nat
        BY <2>1, <3>1
      <4>2. QED
        BY <2>1, <3>1, <3>3, <3>4, <4>1
    <3>6. QED
      BY <3>5
  <2>2. CASE \E newest, asked : newest \in Nat /\ JudgePending(newest, asked) /\ Asks(asked, newest, LastAsked')
    <3>1. PICK newest, asked : newest \in Nat /\ JudgePending(newest, asked) /\ Asks(asked, newest, LastAsked')
      BY <2>2
    <3>2. QED
      BY <3>1, StillAsked
  <2>3. QED
    BY <2>1, <2>2, Judging
<1>3. QED
  BY <1>1, <1>2 DEF Gone, LastAsked

\* A step never judges short a ledger whose hash ever had the quorum here.
LEMMA ShortStep ==
  ASSUME TypeOK, Room, Gone, [Next]_vars, NEW s \in Ledgers,
         [seq |-> s, verdict |-> "short"] \in verdicts' \ verdicts
  PROVE  Net[s] \notin ever[s]
<1>1. PICK newest, asked : newest \in Nat /\ JudgePending(newest, asked) /\ Asks(asked, newest, LastAsked')
  BY Judging
<1>2. Verdict(s, Net[s], newest) = "short"
  BY <1>1, StillAsked
<1>3. Net[s] \notin reached'[s] /\ reached'[s] = {} /\ ~(held' # {} /\ s < Oldest(held'))
  BY <1>2 DEF Verdict
<1>4. SUFFICES ASSUME Net[s] \in ever[s] PROVE FALSE
  OBVIOUS
<1>5. ever'[s] # reached'[s]
  BY <1>3, <1>4, EverGrows
<1>6. Cardinality(held') = KEEP /\ \A t \in held' : s < t
  BY <1>5, EverGrows
<1>7. TypeOK'
  BY TypeStep
<1>8. held' # {}
  BY <1>6, FS_EmptySet, TallyConstants
<1>9. Oldest(held') \in held'
  BY <1>7, <1>8, OldestIs DEF TypeOK
<1>10. QED
  BY <1>3, <1>6, <1>8, <1>9

\* What is pending after a step was heard of less than GIVE_UP ledgers before.
LEMMA RecentStep ==
  ASSUME TypeOK, Room, Gone, PendingIsRecent, [Next]_vars
  PROVE  PendingIsRecent'
<1> DEFINE P == {q \in Ledgers : pending'[q] # None}
<1>1. NewestPending' = IF P = {} THEN 0 ELSE Newest(P)
  BY DEF NewestPending
<1>2. CASE UNCHANGED <<pending, verdicts>>
  BY <1>2 DEF PendingIsRecent, NewestPending
<1>3. CASE \E newest, asked : newest \in Nat /\ JudgePending(newest, asked) /\ Asks(asked, newest, LastAsked')
  <2>1. PICK newest, asked : newest \in Nat /\ JudgePending(newest, asked) /\ Asks(asked, newest, LastAsked')
    BY <1>3
  <2>2. \A q \in P : q <= newest /\ ~(newest >= q + GIVE_UP)
    BY <2>1, StillAsked
  <2>3. ASSUME NEW q \in Ledgers, pending'[q] # None
        PROVE  NewestPending' < q + GIVE_UP
    <3>1. P \in SUBSET Ledgers /\ q \in P
      BY <2>3
    <3> HIDE DEF P
    <3>2. NewestPending' = Newest(P) /\ Newest(P) \in P
      BY <1>1, <3>1, NewestIs
    <3>3. NewestPending' <= newest /\ ~(newest >= q + GIVE_UP) /\ {newest, q} \subseteq Nat /\ NewestPending' \in Nat /\ GIVE_UP \in Nat
      BY <2>1, <2>2, <3>1, <3>2, LedgersFinite, TallyConstants
    <3>4. QED
      BY <3>3
  <2>4. QED
    BY <2>3 DEF PendingIsRecent
<1>4. QED
  BY <1>2, <1>3, Judging

\* A ledger whose hash reached the quorum here is never judged short.
THEOREM NeverShort == Spec => ReachedIsNeverShort
<1>1. Init => TypeOK /\ Room /\ Gone
  BY TypeInit, GoneInit DEF Init, Room
<1>2. TypeOK /\ Room /\ Gone /\ [Next]_vars => (TypeOK /\ Room /\ Gone)'
  BY TypeStep, GoneStep
<1>3. TypeOK /\ Room /\ Gone /\ [Next]_vars =>
        [\A s \in Ledgers :
           [seq |-> s, verdict |-> "short"] \in verdicts' \ verdicts => Net[s] \notin ever[s]]_vars
  BY ShortStep
<1>4. QED
  BY <1>1, <1>2, <1>3, PTL DEF Spec, ReachedIsNeverShort

\* No ledger waits to be judged for GIVE_UP ledgers.
THEOREM NeverWaitsLong == Spec => []PendingIsRecent
<1>1. Init => TypeOK /\ Room /\ Gone /\ PendingIsRecent
  BY TypeInit, GoneInit DEF Init, Room, PendingIsRecent
<1>2. TypeOK /\ Room /\ Gone /\ PendingIsRecent /\ [Next]_vars => (TypeOK /\ Room /\ Gone /\ PendingIsRecent)'
  BY TypeStep, GoneStep, RecentStep
<1>3. QED
  BY <1>1, <1>2, PTL DEF Spec

\* While sound validators name only what .39 validates, no other hash reaches
\* the quorum.
OnlyNet == \A s \in Ledgers : \A h \in ever[s] : h = Net[s]

LEMMA OnlyNetHolds == ASSUME FewFaulty PROVE TypeOK /\ Evidence /\ ~split => OnlyNet
<1> SUFFICES ASSUME TypeOK, Evidence, ~split, NEW s \in Ledgers, NEW h \in ever[s]
             PROVE  h = Net[s]
  BY DEF OnlyNet
<1>1. h \in Hashes /\ masters \in Lists /\ masters \in SUBSET Validators
  BY DEF TypeOK, Evidence, Quorate
<1>2. PICK N \in Negatives :
        Cardinality(named[s][h] \ N) >= QuorumOf(Cardinality(masters), Cardinality(masters \ N))
  BY DEF Evidence, Quorate
<1> DEFINE A == named[s][h] \ N
<1>3. SUFFICES ASSUME h # Net[s] PROVE FALSE
  OBVIOUS
<1>4. A \subseteq masters \cap Faulty /\ A \subseteq masters \ N /\ masters \ (N \cap N) = masters \ N
  BY <1>1, <1>3 DEF Evidence
<1>5. /\ A \in SUBSET Validators /\ masters \cap Faulty \in SUBSET Validators
      /\ masters \ N \in SUBSET Validators
  BY <1>1, <1>4
<1>6. /\ Cardinality(A) <= Cardinality(masters \cap Faulty)
      /\ Cardinality(A) <= Cardinality(masters \ N)
      /\ Cardinality(A) \in Nat /\ Cardinality(masters \cap Faulty) \in Nat
      /\ Cardinality(masters \ N) \in Nat /\ Cardinality(masters) \in Nat
  <2> HIDE DEF A
  <2>1. QED
    BY <1>1, <1>4, <1>5, Counting
<1>7. QuorumOf(Cardinality(masters), Cardinality(masters \ N)) \in Int
  BY <1>6, QuorumOfInt
<1>8. QuorumOf(Cardinality(masters), Cardinality(masters \ N)) + QuorumOf(Cardinality(masters), Cardinality(masters \ N))
        > Cardinality(masters \ N) + Cardinality(masters \cap Faulty)
  BY <1>1, <1>4 DEF FewFaulty
<1> HIDE DEF A
<1>9. Cardinality(A) >= QuorumOf(Cardinality(masters), Cardinality(masters \ N))
  BY <1>2 DEF A
<1>10. QED
  BY <1>6, <1>7, <1>8, <1>9

\* A healthy network, with few faulty validators, never gives a "differ".
THEOREM HealthyAgrees == OneList /\ FewFaulty => (Spec => []HealthyNeverDiffers)
<1> SUFFICES ASSUME OneList, FewFaulty PROVE Spec => []HealthyNeverDiffers
  OBVIOUS
<1> DEFINE IInv == TypeOK /\ Room /\ Evidence /\ Gone /\ HealthyNeverDiffers
<1>1. Init => IInv
  BY TypeInit, EvidenceInit, GoneInit DEF Init, Room, HealthyNeverDiffers
<1>2. IInv /\ [Next]_vars => IInv'
  <2> SUFFICES ASSUME IInv, [Next]_vars PROVE IInv'
    OBVIOUS
  <2>1. TypeOK' /\ Room' /\ Evidence' /\ Gone'
    BY TypeStep, EvidenceStep, GoneStep
  <2>2. ASSUME ~split', NEW v \in verdicts', v.verdict = "differ" PROVE FALSE
    <3>1. split' = split
      BY DEF Next, SetUnl, Vote, OldVote, Take, HeldBack, Land, WitnessAnswers, vars
    <3>2. v \in verdicts' \ verdicts
      BY <2>2, <3>1 DEF HealthyNeverDiffers
    <3>3. PICK newest, asked : newest \in Nat /\ JudgePending(newest, asked) /\ Asks(asked, newest, LastAsked')
      BY <3>2, Judging
    <3>4. v.seq \in Ledgers /\ Verdict(v.seq, Net[v.seq], newest) = "differ"
      BY <2>2, <3>2, <3>3, StillAsked
    <3>5. Net[v.seq] \notin reached'[v.seq] /\ reached'[v.seq] # {}
      BY <3>4 DEF Verdict
    <3>6. PICK h \in ever'[v.seq] : h # Net[v.seq]
      BY <2>1, <3>4, <3>5 DEF Gone
    <3>7. OnlyNet'
      <4>1. (TypeOK /\ Evidence /\ ~split => OnlyNet)'
        BY OnlyNetHolds, PTL
      <4>2. QED
        BY <2>1, <2>2, <4>1
    <3>8. QED
      BY <3>4, <3>6, <3>7 DEF OnlyNet
  <2>3. QED
    BY <2>1, <2>2 DEF HealthyNeverDiffers
<1>3. IInv => HealthyNeverDiffers
  OBVIOUS
<1>4. QED
  BY <1>1, <1>2, <1>3, PTL DEF Spec

-------------------------------------------------------------------------------
(* What its readers see *)

LEMMA OneQuorumHolds == ASSUME FewFaulty PROVE TypeOK /\ Evidence => OneQuorumPerLedger
BY QuorumsMeet DEF OneQuorumPerLedger

\* The view counts as the tally does: each module has its own copy of Cardinality.
LEMMA SameCardinality == ASSUME NEW S PROVE View!Cardinality(S) = Cardinality(S)
BY DEF View!Cardinality, Cardinality

\* A vote is heard.
LEMMA VoteHeard ==
  ASSUME TypeOK, Gone, OneQuorumPerLedger', NEW m \in masters, NEW s \in Ledgers, NEW h \in Hashes,
         VoteFor(m, s, h)
  PROVE  View!Heard
<1> DEFINE now  == {g \in {h} : /\ m \notin negative /\ NeededNow > 0
                                /\ Cardinality(TallyWith(m, s, h)) >= NeededNow}
<1>1. /\ held' = (held \cup {s}) \ LetGo(held \cup {s})
      /\ reached' = [q \in Ledgers |-> IF q \in LetGo(held \cup {s}) THEN {}
                                       ELSE IF q = s THEN reached[s] \cup now ELSE reached[q]]
      /\ ever' = [ever EXCEPT ![s] = @ \cup now]
  BY DEF VoteFor
<1>2. now \in {{}} \cup {{g} : g \in Hashes}
  <2>1. now = {} \/ now = {h}
    OBVIOUS
  <2>2. QED
    BY <2>1
<1> HIDE DEF now
<1>3. reached[s] \cup now \subseteq ever'[s]
  BY <1>1 DEF TypeOK, Gone
<1>4. Cardinality(reached[s] \cup now) <= 1
  <2>1. \A f, g \in reached[s] \cup now : f = g
    BY <1>3 DEF OneQuorumPerLedger
  <2>2. CASE reached[s] \cup now = {}
    BY <2>2, FS_EmptySet
  <2>3. CASE reached[s] \cup now # {}
    <3>1. PICK f : reached[s] \cup now = {f}
      BY <2>1, <2>3
    <3>2. Cardinality({f}) = 1
      BY FS_Singleton
    <3>3. QED
      BY <3>1, <3>2
  <2>4. QED
    BY <2>2, <2>3
<1>5. LetGo(held \cup {s}) =
        IF Cardinality(held \cup {s}) > KEEP THEN {View!Oldest(held \cup {s})} ELSE {}
  BY DEF LetGo, Oldest, View!Oldest
<1>6. View!Hear(s, now)
  <2>1. /\ View!Cardinality(reached[s] \cup now) <= 1
        /\ LetGo(held \cup {s}) =
             IF View!Cardinality(held \cup {s}) > KEEP THEN {View!Oldest(held \cup {s})} ELSE {}
    BY <1>4, <1>5, SameCardinality
  <2>2. QED
    BY <1>1, <2>1 DEF View!Hear, View!Ledgers, Ledgers
<1>7. QED
  BY <1>2, <1>6 DEF View!Heard, View!Ledgers, Ledgers

\* The tally implements the view its readers have of it: its quorums only grow,
\* one a ledger, until the oldest sequence is let go.
THEOREM TallyImplementsView == OneList /\ FewFaulty => (Spec => ImplementsView)
<1> SUFFICES ASSUME OneList, FewFaulty PROVE Spec => ImplementsView
  OBVIOUS
<1> DEFINE IInv == TypeOK /\ Room /\ Evidence /\ Gone
<1>1. Init => IInv /\ View!ViewInit
  BY TypeInit, EvidenceInit, GoneInit DEF Init, Room, View!ViewInit, View!Ledgers, Ledgers
<1>2. IInv /\ [Next]_vars => IInv' /\ [View!Heard]_<<held, reached>>
  <2> SUFFICES ASSUME IInv, [Next]_vars PROVE IInv' /\ [View!Heard]_<<held, reached>>
    OBVIOUS
  <2>1. IInv'
    BY TypeStep, EvidenceStep, GoneStep
  <2>2. CASE Vote
    <3>1. PICK m \in masters, s \in Ledgers, h \in Hashes : VoteFor(m, s, h)
      BY <2>2 DEF Vote
    <3>2. (TypeOK /\ Evidence => OneQuorumPerLedger)'
      BY OneQuorumHolds, PTL
    <3>3. QED
      BY <2>1, <3>1, <3>2, VoteHeard
  <2>3. CASE ~Vote
    <3>1. UNCHANGED <<held, reached>>
      BY <2>3 DEF Next, SetUnl, OldVote, Take, HeldBack, Land, WitnessAnswers, NetworkValidated,
                  vars, tallyVars
    <3>2. QED
      BY <2>1, <3>1
  <2>4. QED
    BY <2>2, <2>3
<1>3. QED
  BY <1>1, <1>2, PTL DEF Spec, ImplementsView, View!ViewSpec
===============================================================================
