---------------------------- MODULE LedgerFormProofs ----------------------------
(***************************************************************************)
(* Theorems about what a ledger is made with beside its transactions'       *)
(* effects: the flag ledgers, for every FLAG, list and set of amendments,    *)
(* and the pages of a directory, for every set of objects, every capacity    *)
(* of a page and as many pages as one likes.                                *)
(***************************************************************************)
EXTENDS FlagLedgers, DirectoryPages, Integers, FiniteSetTheorems, SequenceTheorems, WellFoundedInduction, TLAPS

-------------------------------------------------------------------------------
(* Numbers, functions that grow and shrink, and multiples of FLAG *)

\* A set of natural numbers has a least one.
LEMMA LeastNatural ==
  ASSUME NEW S \in SUBSET Nat, S # {}
  PROVE  \E s \in S : \A t \in S : s <= t
<1>1. PICK s \in S : \A t \in S : ~ (<<t, s>> \in OpToRel(<, Nat))
  BY NatLessThanWellFounded, WFMin
<1>2. ASSUME NEW t \in S PROVE s <= t
  <2>1. s \in Nat /\ t \in Nat /\ ~ (t < s)
    BY <1>1 DEF OpToRel
  <2>2. QED
    BY <2>1
<1>3. QED
  BY <1>2

\* What Restrict does to a function, point by point.
LEMMA RestrictIs ==
  ASSUME NEW f, NEW S
  PROVE  DOMAIN Restrict(f, S) = S /\ \A z \in S : Restrict(f, S)[z] = f[z]
BY DEF Restrict

\* A number is its quotient times the divisor, and the rest.
LEMMA Divided ==
  ASSUME NEW F \in Nat \ {0}, NEW a \in Nat, a % F = 0
  PROVE  \E q \in Int : a = F * q
<1>1. a \div F \in Int
  BY Z3
<1>2. a = (F * (a \div F)) + (a % F)
  BY Z3
<1>3. F * (a \div F) \in Int
  BY <1>1, Z3
<1>4. QED
  BY <1>1, <1>2, <1>3

\* A multiple leaves no rest.
LEMMA Multiple ==
  ASSUME NEW F \in Nat \ {0}, NEW q \in Int
  PROVE  (F * q) % F = 0
BY Z3

\* Of two multiples no more than F apart, the next is just F further.
LEMMA NextMultiple ==
  ASSUME NEW F \in Nat \ {0}, NEW a \in Nat, NEW s \in Nat, a % F = 0, s % F = 0, a < s, s <= a + F
  PROVE  s = a + F
<1>1. PICK p \in Int, q \in Int : a = F * p /\ s = F * q
  BY Divided
<1>2. F * (q - p) > 0 /\ F * (q - p) <= F
  BY <1>1, Z3
<1>3. q - p > 0
  BY <1>2, Z3
<1>4. q - p < 2
  BY <1>2, Z3
<1>5. q = p + 1
  BY <1>3, <1>4
<1>6. QED
  BY <1>1, <1>5, Z3

\* F further from a multiple is one.
LEMMA MultipleAfter ==
  ASSUME NEW F \in Nat \ {0}, NEW a \in Nat, a % F = 0
  PROVE  (a + F) % F = 0
<1>1. PICK q \in Int : a = F * q
  BY Divided
<1>2. a + F = F * (q + 1)
  BY <1>1, Z3
<1>3. q + 1 \in Int
  OBVIOUS
<1>4. QED
  BY <1>2, <1>3, Multiple

-------------------------------------------------------------------------------
(* The Negative UNL *)

\* Who waits to be disabled was asked for at the last flag ledger; those asked for are validators.
NunlInv ==
  /\ nseq \in Nat /\ DOMAIN asked \subseteq NegValidators
  /\ nunl # NoObject =>
       /\ nunl = [list |-> nunl.list, disable |-> nunl.disable, enable |-> nunl.enable]
       /\ DOMAIN nunl.list \subseteq NegValidators
       /\ nunl.disable \in NegValidators \cup {NoOne} /\ nunl.enable \in NegValidators \cup {NoOne}
       /\ nunl.disable # NoOne =>
            /\ nunl.disable \in DOMAIN asked /\ asked[nunl.disable] \in Nat /\ asked[nunl.disable] % FLAG = 0
            /\ asked[nunl.disable] <= nseq /\ nseq < asked[nunl.disable] + FLAG
  /\ NegativeUnlFits

\* The rotation: who waited joins the list with this ledger's number, who was to return leaves it.
LEMMA RotationFits ==
  ASSUME NunlInv, OpenNext, IsFlag(nseq + 1)
  PROVE  NunlInv'
<1> DEFINE s == nseq + 1
<1>1. /\ FLAG \in Nat \ {0} /\ NoOne \notin NegValidators /\ nseq \in Nat
      /\ s \in Nat /\ s % FLAG = 0
  BY FlagConstants DEF NunlInv, IsFlag
<1>2. /\ nseq' = s /\ nunl' = Rotated(nunl, s)
      /\ asked' = IF ToReEnable(nunl) # NoOne THEN Restrict(asked, DOMAIN asked \ {nunl.enable}) ELSE asked
  BY DEF OpenNext
<1>3. CASE nunl = NoObject
  <2>1. nunl' = nunl /\ asked' = asked
    BY <1>2, <1>3 DEF Rotated, ToDisable, ToReEnable
  <2>2. QED
    BY <1>1, <1>2, <1>3, <2>1 DEF NunlInv, NegativeUnlFits
<1>4. CASE nunl # NoObject
  <2> DEFINE d == nunl.disable  r == nunl.enable  l == nunl.list
  <2>1. /\ DOMAIN l \subseteq NegValidators /\ DOMAIN asked \subseteq NegValidators
        /\ d \in NegValidators \cup {NoOne} /\ r \in NegValidators \cup {NoOne}
        /\ d \notin DOMAIN l /\ r \in DOMAIN l \cup {NoOne} /\ (d = r => d = NoOne)
        /\ \A v \in DOMAIN l : v \in DOMAIN asked /\ l[v] = asked[v] + FLAG
        /\ d # NoOne => d \in DOMAIN asked /\ asked[d] \in Nat /\ asked[d] % FLAG = 0
                        /\ asked[d] <= nseq /\ nseq < asked[d] + FLAG
        /\ l # <<>> \/ d # NoOne
        /\ ToDisable(nunl) = d /\ ToReEnable(nunl) = r
    BY <1>4 DEF NunlInv, NegativeUnlFits, ToDisable, ToReEnable
  <2>2. d # NoOne => s = asked[d] + FLAG
    BY <1>1, <2>1, NextMultiple
  <2>3. /\ DOMAIN asked' \subseteq NegValidators
        /\ \A v \in DOMAIN asked : v # r => v \in DOMAIN asked' /\ asked'[v] = asked[v]
    BY <1>2, <2>1, RestrictIs
  <2>4. CASE d = NoOne /\ r = NoOne
    <3>1. nunl' = nunl /\ asked' = asked
      BY <1>2, <2>1, <2>4 DEF Rotated
    <3>2. QED
      BY <1>1, <1>2, <1>4, <2>4, <3>1 DEF NunlInv, NegativeUnlFits
  <2>5. CASE d # NoOne \/ r # NoOne
    <3> DEFINE j == Joined(nunl, s)
    <3>1. nunl' = IF j = <<>> THEN NoObject ELSE [list |-> j, disable |-> NoOne, enable |-> NoOne]
      BY <1>2, <2>1, <2>5 DEF Rotated
    <3>2. /\ DOMAIN j \subseteq NegValidators
          /\ \A v \in DOMAIN j : v \in DOMAIN asked' /\ j[v] = asked'[v] + FLAG
      <4>1. DOMAIN Stayed(nunl) = DOMAIN l \ {r} /\ \A v \in DOMAIN l \ {r} : Stayed(nunl)[v] = l[v]
        BY RestrictIs DEF Stayed
      <4>2. CASE d = NoOne
        <5>1. j = Stayed(nunl)
          BY <4>2 DEF Joined
        <5>2. QED
          BY <2>1, <2>3, <4>1, <5>1
      <4>3. CASE d # NoOne
        <5>1. j = Mapped(Stayed(nunl), d, s)
          BY <4>3 DEF Joined
        <5>2. /\ DOMAIN j = (DOMAIN l \ {r}) \cup {d} /\ j[d] = s
              /\ \A v \in DOMAIN l \ {r} : v # d => j[v] = l[v]
          BY <4>1, <5>1 DEF Mapped
        <5> HIDE DEF j
        <5>3. QED
          BY <2>1, <2>2, <2>3, <4>3, <5>2
      <4>4. QED
        BY <4>2, <4>3
    <3> HIDE DEF j
    <3>3. CASE j = <<>>
      BY <1>1, <1>2, <2>3, <3>1, <3>3 DEF NunlInv, NegativeUnlFits
    <3>4. CASE j # <<>>
      <4>1. nunl'.list = j /\ nunl'.disable = NoOne /\ nunl'.enable = NoOne
            /\ nunl' = [list |-> nunl'.list, disable |-> nunl'.disable, enable |-> nunl'.enable]
        BY <3>1, <3>4
      <4>2. QED
        BY <1>1, <1>2, <2>3, <3>2, <3>4, <4>1 DEF NunlInv, NegativeUnlFits
    <3>5. QED
      BY <3>3, <3>4
  <2>6. QED
    BY <2>4, <2>5
<1>5. QED
  BY <1>3, <1>4

\* Between flag ledgers the list stays, and the one that waits still does.
LEMMA OtherOpens ==
  ASSUME NunlInv, OpenNext, ~IsFlag(nseq + 1)
  PROVE  NunlInv'
<1>1. nseq' = nseq + 1 /\ nunl' = nunl /\ asked' = asked /\ nseq \in Nat /\ FLAG \in Nat \ {0}
  BY FlagConstants DEF OpenNext, NunlInv
<1>2. ASSUME nunl # NoObject, nunl.disable # NoOne
      PROVE  nseq + 1 < asked[nunl.disable] + FLAG
  <2> DEFINE a == asked[nunl.disable]
  <2>1. a \in Nat /\ a % FLAG = 0 /\ nseq < a + FLAG
    BY <1>2 DEF NunlInv
  <2>2. (a + FLAG) % FLAG = 0
    BY <1>1, <2>1, MultipleAfter
  <2>3. nseq + 1 # a + FLAG
    BY <1>1, <2>1, <2>2 DEF IsFlag
  <2> HIDE DEF a
  <2>4. nseq + 1 < a + FLAG
    BY <1>1, <2>1, <2>3
  <2>5. QED
    BY <2>4 DEF a
<1>3. QED
  BY <1>1, <1>2 DEF NunlInv, NegativeUnlFits

\* A UNLModify that is accepted fits the list.
LEMMA ModifyFits ==
  ASSUME NunlInv, NEW v \in NegValidators, NEW d \in BOOLEAN, NEW named, UNLModify(v, d, named)
  PROVE  NunlInv'
<1>1. nseq' = nseq /\ nseq \in Nat /\ FLAG \in Nat \ {0} /\ NoOne \notin NegValidators /\ nseq % FLAG = 0
  BY FlagConstants DEF UNLModify, NunlInv, IsFlag
<1>2. CASE d
  <2>1. /\ ToDisable(nunl) = NoOne /\ ToReEnable(nunl) # v /\ v \notin DOMAIN List(nunl)
        /\ nunl' = [list |-> List(nunl), disable |-> v, enable |-> ToReEnable(nunl)]
        /\ asked' = Mapped(asked, v, nseq)
    BY <1>2 DEF UNLModify
  <2>2. /\ nunl'.list = List(nunl) /\ nunl'.disable = v /\ nunl'.enable = ToReEnable(nunl)
        /\ nunl' = [list |-> nunl'.list, disable |-> nunl'.disable, enable |-> nunl'.enable]
    BY <2>1
  <2>3. /\ DOMAIN asked' = DOMAIN asked \cup {v} /\ asked'[v] = nseq
        /\ \A u \in DOMAIN asked : u # v => asked'[u] = asked[u]
    BY <2>1 DEF Mapped
  <2>4. /\ DOMAIN List(nunl) \subseteq NegValidators
        /\ ToReEnable(nunl) \in DOMAIN List(nunl) \cup {NoOne}
        /\ \A u \in DOMAIN List(nunl) : u \in DOMAIN asked /\ List(nunl)[u] = asked[u] + FLAG
    <3>1. CASE nunl = NoObject
      <4>1. DOMAIN List(nunl) = {}
        BY <3>1 DEF List
      <4>2. QED
        BY <3>1, <4>1 DEF ToReEnable
    <3>2. CASE nunl # NoObject
      BY <3>2 DEF NunlInv, NegativeUnlFits, List, ToReEnable
    <3>3. QED
      BY <3>1, <3>2
  <2>5. DOMAIN asked' \subseteq NegValidators
    BY <2>3 DEF NunlInv
  <2>6. nunl'.disable # NoOne /\ nunl'.disable # nunl'.enable
    BY <1>1, <2>1, <2>2
  <2>7. \A u \in DOMAIN nunl'.list : u \in DOMAIN asked' /\ nunl'.list[u] = asked'[u] + FLAG
    BY <2>1, <2>2, <2>3, <2>4
  <2>8. NegativeUnlFits'
    BY <2>1, <2>2, <2>4, <2>6, <2>7 DEF NegativeUnlFits
  <2>9. asked'[v] \in Nat /\ asked'[v] % FLAG = 0 /\ asked'[v] <= nseq' /\ nseq' < asked'[v] + FLAG
    BY <1>1, <2>3
  <2>10. QED
    BY <1>1, <2>2, <2>3, <2>4, <2>5, <2>8, <2>9 DEF NunlInv
<1>3. CASE ~d
  <2>1. /\ ToReEnable(nunl) = NoOne /\ ToDisable(nunl) # v /\ v \in DOMAIN List(nunl)
        /\ nunl' = [nunl EXCEPT !.enable = v] /\ asked' = asked
    BY <1>3 DEF UNLModify
  <2>2. nunl # NoObject
    BY <2>1 DEF List
  <2>3. /\ nunl'.list = nunl.list /\ nunl'.disable = nunl.disable /\ nunl'.enable = v
        /\ nunl' = [list |-> nunl'.list, disable |-> nunl'.disable, enable |-> nunl'.enable]
    <3>1. nunl = [list |-> nunl.list, disable |-> nunl.disable, enable |-> nunl.enable]
      BY <2>2 DEF NunlInv
    <3>2. QED
      BY <2>1, <3>1
  <2>4. v \in DOMAIN nunl.list /\ nunl.disable # v
    BY <2>1, <2>2 DEF List, ToDisable
  <2>5. QED
    BY <1>1, <2>1, <2>2, <2>3, <2>4 DEF NunlInv, NegativeUnlFits
<1>4. QED
  BY <1>2, <1>3

\* Every step keeps the Negative UNL fitting.
LEMMA NunlStep ==
  ASSUME NunlInv, [FlagNext]_flag_vars
  PROVE  NunlInv'
<1>1. CASE OpenNext
  BY <1>1, RotationFits, OtherOpens
<1>2. CASE UNLModifies
  BY <1>2, ModifyFits DEF UNLModifies
<1>3. CASE EnableAmendments \/ SetFees \/ CloseLedger \/ GuardReads \/ SignsVote \/ UNCHANGED flag_vars
  <2>1. UNCHANGED <<nseq, nunl, asked>>
    BY <1>3 DEF EnableAmendments, EnableAmendment, SetFees, SetFee, CloseLedger, GuardReads, SignsVote, flag_vars
  <2>2. QED
    BY <2>1 DEF NunlInv, NegativeUnlFits
<1>4. QED
  BY <1>1, <1>2, <1>3 DEF FlagNext

-------------------------------------------------------------------------------
(* The amendments, the guard's reading and the vote *)

\* Every amendment enabled has the ledger that did it; a reading or a vote is of a ledger closed,
\* and what was enabled since a reading is of a later ledger.
AmendInv ==
  /\ nseq \in Nat /\ open \in BOOLEAN
  /\ amend.enabled \subseteq Amendments /\ DOMAIN since = amend.enabled
  /\ vote.seq \in Nat /\ vote.seq <= nseq /\ (open => vote.seq < nseq)
  /\ guard # NoReading =>
       /\ guard.seq \in Nat /\ guard.seq <= nseq /\ (open => guard.seq < nseq)
       /\ guard.enabled \subseteq amend.enabled /\ guard.unknown = guard.enabled \ EngineKnown
       /\ \A a \in amend.enabled \ guard.enabled : since[a] > guard.seq
  /\ NoMajorityOfEnabled /\ VoteIsWhole

\* An EnableAmendment, whatever it says.
LEMMA EnableStep ==
  ASSUME AmendInv, NEW a \in Amendments, NEW got \in BOOLEAN, NEW lost \in BOOLEAN,
         EnableAmendment(a, got, lost)
  PROVE  AmendInv' /\ AmendmentsOnlyAdded /\ AlarmStays
<1>1. /\ open /\ nseq' = nseq /\ open' = open /\ guard' = guard /\ vote' = vote
      /\ a \notin amend.enabled
      /\ amend'.enabled = amend.enabled \cup (IF got \/ lost THEN {} ELSE {a})
      /\ amend'.majority = IF got THEN Mapped(NotMajority(a), a, nseq - 1) ELSE NotMajority(a)
      /\ since' = IF got \/ lost THEN since ELSE Mapped(since, a, nseq)
      /\ got => a \notin DOMAIN amend.majority
  BY DEF EnableAmendment
<1>2. /\ DOMAIN NotMajority(a) = DOMAIN amend.majority \ {a}
      /\ \A b \in DOMAIN amend.majority \ {a} : NotMajority(a)[b] = amend.majority[b]
  BY RestrictIs DEF NotMajority
<1>3. AlarmStays
  BY <1>1 DEF AlarmStays
<1>4. AmendmentsOnlyAdded /\ NoMajorityOfEnabled'
  <2>1. CASE got
    <3>1. DOMAIN amend'.majority = (DOMAIN amend.majority \ {a}) \cup {a}
          /\ \A b \in DOMAIN amend.majority \ {a} : amend'.majority[b] = amend.majority[b]
      BY <1>1, <1>2, <2>1 DEF Mapped
    <3>2. amend'.enabled = amend.enabled
      BY <1>1, <2>1
    <3>3. QED
      BY <1>1, <2>1, <3>1, <3>2 DEF AmendInv, NoMajorityOfEnabled, AmendmentsOnlyAdded
  <2>2. CASE ~got
    <3>1. DOMAIN amend'.majority = DOMAIN amend.majority \ {a}
          /\ \A b \in DOMAIN amend.majority \ {a} : amend'.majority[b] = amend.majority[b]
      BY <1>1, <1>2, <2>2
    <3>2. amend.enabled \subseteq amend'.enabled /\ amend'.enabled \subseteq amend.enabled \cup {a}
      BY <1>1
    <3>3. QED
      BY <3>1, <3>2 DEF AmendInv, NoMajorityOfEnabled, AmendmentsOnlyAdded
  <2>3. QED
    BY <2>1, <2>2
<1>5. /\ amend'.enabled \subseteq Amendments /\ DOMAIN since' = amend'.enabled
      /\ \A b \in amend.enabled : since'[b] = since[b]
      /\ \A b \in amend'.enabled \ amend.enabled : since'[b] = nseq
  <2>1. CASE got \/ lost
    BY <1>1, <2>1 DEF AmendInv
  <2>2. CASE ~(got \/ lost)
    BY <1>1, <2>2 DEF AmendInv, Mapped
  <2>3. QED
    BY <2>1, <2>2
<1>6. VoteIsWhole'
  BY <1>1 DEF VoteIsWhole
<1>7. ASSUME guard # NoReading
      PROVE  /\ guard.enabled \subseteq amend'.enabled
             /\ \A b \in amend'.enabled \ guard.enabled : since'[b] > guard.seq
  BY <1>1, <1>5, <1>7 DEF AmendInv
<1>8. QED
  BY <1>1, <1>3, <1>4, <1>5, <1>6, <1>7 DEF AmendInv

\* A vote signed on the ledger before a flag ledger.
LEMMA SignsVoteStep ==
  ASSUME AmendInv, SignsVote
  PROVE  AmendInv' /\ AmendmentsOnlyAdded /\ AlarmStays
<1>1. /\ ~open /\ vote' = [seq |-> nseq, names |-> AmendmentVotes]
      /\ UNCHANGED <<nseq, open, amend, guard, since>>
  BY DEF SignsVote
<1>2. vote'.seq = nseq /\ vote'.names = AmendmentVotes
  BY <1>1
<1>3. VoteIsWhole'
  BY <1>1, <1>2 DEF AmendInv, VoteIsWhole, AmendmentVotes
<1>4. QED
  BY <1>1, <1>2, <1>3 DEF AmendInv, AmendmentsOnlyAdded, AlarmStays, NoMajorityOfEnabled

\* A reading of the amendment guard.
LEMMA GuardStep ==
  ASSUME AmendInv, GuardReads
  PROVE  AmendInv' /\ AmendmentsOnlyAdded /\ AlarmStays
<1>1. /\ ~open /\ guard' = [seq |-> nseq, enabled |-> amend.enabled, unknown |-> amend.enabled \ EngineKnown]
      /\ UNCHANGED <<nseq, open, amend, vote, since>>
  BY DEF GuardReads
<1>2. guard'.seq = nseq /\ guard'.enabled = amend.enabled /\ guard'.unknown = amend.enabled \ EngineKnown
  BY <1>1
<1>3. guard' # NoReading
  BY <1>1, FlagConstants DEF AmendInv
<1>4. VoteIsWhole'
  BY <1>1, <1>2 DEF AmendInv, VoteIsWhole
<1>5. AlarmStays
  BY <1>2, <1>3 DEF AmendInv, AlarmStays
<1>6. QED
  BY <1>1, <1>2, <1>4, <1>5 DEF AmendInv, AmendmentsOnlyAdded, NoMajorityOfEnabled

\* Every step keeps the amendments, the guard and the vote in line.
LEMMA AmendStep ==
  ASSUME AmendInv, [FlagNext]_flag_vars
  PROVE  AmendInv' /\ AmendmentsOnlyAdded /\ AlarmStays
<1>1. CASE OpenNext
  <2>1. ~open /\ open' = TRUE /\ nseq' = nseq + 1 /\ UNCHANGED <<amend, guard, vote, since>>
    BY <1>1 DEF OpenNext
  <2>2. VoteIsWhole'
    BY <2>1 DEF VoteIsWhole
  <2>3. QED
    BY <2>1, <2>2 DEF AmendInv, AmendmentsOnlyAdded, AlarmStays, NoMajorityOfEnabled
<1>2. CASE CloseLedger
  <2>1. open /\ open' = FALSE /\ UNCHANGED <<nseq, amend, guard, vote, since>>
    BY <1>2 DEF CloseLedger
  <2>2. VoteIsWhole'
    BY <2>1 DEF AmendInv, VoteIsWhole
  <2>3. QED
    BY <2>1, <2>2 DEF AmendInv, AmendmentsOnlyAdded, AlarmStays, NoMajorityOfEnabled
<1>3. CASE EnableAmendments
  BY <1>3, EnableStep DEF EnableAmendments
<1>4. CASE GuardReads
  BY <1>4, GuardStep
<1>5. CASE SignsVote
  BY <1>5, SignsVoteStep
<1>6. CASE UNLModifies \/ SetFees \/ UNCHANGED flag_vars
  <2>1. UNCHANGED <<nseq, open, amend, guard, vote, since>>
    BY <1>6 DEF UNLModifies, UNLModify, SetFees, SetFee, flag_vars
  <2>2. QED
    BY <2>1 DEF AmendInv, AmendmentsOnlyAdded, AlarmStays, NoMajorityOfEnabled, VoteIsWhole
<1>7. QED
  BY <1>1, <1>2, <1>3, <1>4, <1>5, <1>6 DEF FlagNext

\* Whatever the network asks on its flag ledgers, the Negative UNL fits, amendments are only added,
\* no vote leaves one out, and the guard's alarm stays (tx/pseudo.rs, amendment_guard.rs, validation.rs).
THEOREM FlagLedgersKeep == FlagInit /\ [][FlagNext]_flag_vars => FlagLedgersOK
<1>1. FlagInit => NunlInv
  <2>1. SUFFICES ASSUME FlagInit PROVE NunlInv
    OBVIOUS
  <2>2. DOMAIN asked = {}
    BY <2>1 DEF FlagInit
  <2>3. QED
    BY <2>1, <2>2 DEF FlagInit, NunlInv, NegativeUnlFits
<1>2. FlagInit => AmendInv
  <2>1. SUFFICES ASSUME FlagInit PROVE AmendInv
    OBVIOUS
  <2>2. DOMAIN since = {} /\ amend.enabled = {} /\ vote.seq = 0 /\ nseq = 1 /\ open = FALSE /\ guard = NoReading
    BY <2>1 DEF FlagInit
  <2>3. NoMajorityOfEnabled
    BY <2>2 DEF NoMajorityOfEnabled
  <2>4. VoteIsWhole
    BY <2>2 DEF VoteIsWhole
  <2>5. nseq \in Nat /\ vote.seq \in Nat /\ vote.seq <= nseq
    BY <2>2
  <2>6. QED
    BY <2>2, <2>3, <2>4, <2>5 DEF AmendInv
<1>3. NunlInv /\ [FlagNext]_flag_vars => NunlInv'
  BY NunlStep
<1>4. AmendInv /\ [FlagNext]_flag_vars => AmendInv'
  BY AmendStep
<1>5. AmendInv /\ [FlagNext]_flag_vars => [AmendmentsOnlyAdded /\ AlarmStays]_flag_vars
  BY AmendStep
<1>6. NunlInv /\ AmendInv => NegativeUnlFits /\ NoMajorityOfEnabled /\ VoteIsWhole
  BY DEF NunlInv, AmendInv
<1>7. QED
  BY <1>1, <1>2, <1>3, <1>4, <1>5, <1>6, PTL DEF FlagLedgersOK

-------------------------------------------------------------------------------
(* Directories: the entries of a page *)

\* No entry twice; entries in the order of the keys; an entry among them.
Distinct(s) == \A i, j \in DOMAIN s : s[i] = s[j] => i = j
Rising(s) == \A i, j \in DOMAIN s : i < j => s[i] < s[j]
In(s, o) == \E i \in DOMAIN s : s[i] = o

\* What is left keeps its order.
LEMMA WithoutIs ==
  ASSUME NEW q \in Seq(Nat), NEW o, In(q, o)
  PROVE  /\ Without(q, o) \in Seq(Nat) /\ Len(Without(q, o)) = Len(q) - 1
         /\ \E p \in 1 .. Len(q) : /\ q[p] = o
                                   /\ \A k \in 1 .. Len(q) - 1 : Without(q, o)[k] = IF k < p THEN q[k] ELSE q[k + 1]
<1> DEFINE n == Len(q)
           p == CHOOSE i \in DOMAIN q : q[i] = o
           b == Without(q, o)
           one == SubSeq(q, 1, p - 1)
           two == SubSeq(q, p + 1, n)
<1>1. p \in DOMAIN q /\ q[p] = o
  BY DEF In
<1>2. n \in Nat /\ DOMAIN q = 1 .. n /\ p \in 1 .. n
  BY <1>1, LenProperties
<1>5. b = one \o two
  BY DEF Without, RemoveAt
<1> HIDE DEF p, b
<1>3. one \in Seq(Nat) /\ Len(one) = p - 1 /\ \A k \in 1 .. p - 1 : one[k] = q[k]
  BY <1>2
<1>4. two \in Seq(Nat) /\ Len(two) = n - p /\ \A k \in 1 .. n - p : two[k] = q[p + k]
  <2>1. p + 1 \in 1 .. n + 1 /\ n \in p .. n /\ n \in Nat /\ p \in Nat
    BY <1>2
  <2>2. two \in Seq(Nat) /\ Len(two) = n - p
    BY <2>1, SubSeqProperties
  <2>3. ASSUME NEW k \in 1 .. n - p PROVE two[k] = q[p + k]
    BY <2>1, SubSeqProperties
  <2>4. QED
    BY <2>2, <2>3
<1> HIDE DEF one, two, n
<1>6. b \in Seq(Nat) /\ Len(b) = Len(one) + Len(two)
  BY <1>3, <1>4, <1>5, ConcatProperties
<1>7. \A k \in 1 .. Len(one) + Len(two) : b[k] = IF k <= Len(one) THEN one[k] ELSE two[k - Len(one)]
  BY <1>3, <1>4, <1>5, ConcatProperties
<1>8. Len(b) = n - 1
  BY <1>2, <1>3, <1>4, <1>6
<1>9. ASSUME NEW k \in 1 .. n - 1 PROVE b[k] = IF k < p THEN q[k] ELSE q[k + 1]
  <2>1. k \in 1 .. Len(one) + Len(two)
    BY <1>2, <1>3, <1>4
  <2>2. CASE k < p
    <3>1. k \in 1 .. p - 1 /\ k <= Len(one)
      BY <2>2, <1>2, <1>3
    <3>2. QED
      BY <2>1, <2>2, <3>1, <1>3, <1>7
  <2>3. CASE ~ (k < p)
    <3>1. k - Len(one) \in 1 .. n - p /\ ~ (k <= Len(one)) /\ p + (k - Len(one)) = k + 1
      BY <2>3, <1>2, <1>3
    <3>2. QED
      BY <2>1, <2>3, <3>1, <1>4, <1>7
  <2>4. QED
    BY <2>2, <2>3
<1>10. QED
  BY <1>1, <1>2, <1>6, <1>8, <1>9 DEF n, b

\* So what is left is what was there but the one taken, no more often, and no less in order.
LEMMA WithoutKeeps ==
  ASSUME NEW q \in Seq(Nat), Distinct(q), NEW o, In(q, o)
  PROVE  /\ Distinct(Without(q, o)) /\ (Rising(q) => Rising(Without(q, o)))
         /\ \A e : In(Without(q, o), e) <=> (In(q, e) /\ e # o)
         /\ \A k, l \in DOMAIN Without(q, o) : k < l =>
              \E i, j \in DOMAIN q : i < j /\ q[i] = Without(q, o)[k] /\ q[j] = Without(q, o)[l]
<1> DEFINE n == Len(q)
           b == Without(q, o)
<1>1. b \in Seq(Nat) /\ Len(b) = n - 1 /\ n \in Nat
  BY WithoutIs
<1>2. PICK p \in 1 .. n : q[p] = o /\ \A k \in 1 .. n - 1 : b[k] = IF k < p THEN q[k] ELSE q[k + 1]
  BY WithoutIs
<1>3. DOMAIN q = 1 .. n /\ DOMAIN b = 1 .. n - 1
  BY <1>1, LenProperties
<1> DEFINE from(k) == IF k < p THEN k ELSE k + 1
<1>4. ASSUME NEW k \in 1 .. n - 1 PROVE from(k) \in 1 .. n /\ from(k) # p /\ b[k] = q[from(k)]
  <2> HIDE DEF b, n
  <2>1. b[k] = IF k < p THEN q[k] ELSE q[k + 1]
    BY <1>2
  <2>2. k \in Int /\ p \in Int /\ n \in Int /\ 1 <= k /\ k <= n - 1 /\ 1 <= p /\ p <= n
    BY <1>1
  <2>3. CASE k < p
    <3>1. from(k) = k /\ b[k] = q[k]
      BY <2>1, <2>3
    <3>2. QED
      BY <2>2, <2>3, <3>1
  <2>4. CASE ~ (k < p)
    <3>1. from(k) = k + 1 /\ b[k] = q[k + 1]
      BY <2>1, <2>4
    <3>2. k + 1 \in 1 .. n /\ k + 1 # p
      BY <2>2, <2>4
    <3>3. QED
      BY <3>1, <3>2
  <2>5. QED
    BY <2>3, <2>4
<1>5. ASSUME NEW k \in 1 .. n - 1, NEW l \in 1 .. n - 1, k < l PROVE from(k) < from(l)
  <2>1. k \in Int /\ l \in Int /\ p \in Int /\ k < l
    BY <1>5
  <2>2. QED
    BY <2>1
<1>6. ASSUME NEW i \in 1 .. n, i # p PROVE \E k \in 1 .. n - 1 : from(k) = i
  <2>1. CASE i < p
    <3>1. i \in 1 .. n - 1
      BY <2>1, <1>1, <1>2
    <3>2. QED
      BY <2>1, <3>1
  <2>2. CASE ~ (i < p)
    <3>1. i - 1 \in 1 .. n - 1 /\ ~ (i - 1 < p) /\ (i - 1) + 1 = i
      BY <2>2, <1>1, <1>2, <1>6
    <3>2. QED
      BY <3>1
  <2>3. QED
    BY <2>1, <2>2
<1> HIDE DEF from, b, n
<1>7. ASSUME NEW k \in DOMAIN b, NEW l \in DOMAIN b, b[k] = b[l] PROVE k = l
  <2>1. from(k) = from(l)
    BY <1>3, <1>4, <1>7 DEF Distinct
  <2>2. ~ (k < l) /\ ~ (l < k)
    <3>1. from(k) \in Int /\ from(l) \in Int
      BY <1>1, <1>3, <1>4
    <3>2. QED
      BY <2>1, <3>1, <1>3, <1>5
  <2>3. k \in Int /\ l \in Int
    BY <1>1, <1>3
  <2>4. QED
    BY <2>2, <2>3
<1>8. ASSUME NEW k \in DOMAIN b, NEW l \in DOMAIN b, k < l
      PROVE  \E i, j \in DOMAIN q : i < j /\ q[i] = b[k] /\ q[j] = b[l]
  BY <1>3, <1>4, <1>5, <1>8
<1>9. Rising(q) => Rising(b)
  BY <1>8 DEF Rising
<1>10. ASSUME NEW e PROVE In(b, e) <=> (In(q, e) /\ e # o)
  <2>1. ASSUME In(b, e) PROVE In(q, e) /\ e # o
    <3>1. PICK k \in 1 .. n - 1 : b[k] = e
      BY <2>1, <1>3 DEF In
    <3>2. from(k) \in DOMAIN q /\ q[from(k)] = e /\ from(k) # p
      BY <3>1, <1>3, <1>4
    <3>3. QED
      BY <3>2, <1>2, <1>3 DEF In, Distinct
  <2>2. ASSUME In(q, e), e # o PROVE In(b, e)
    <3>1. PICK i \in 1 .. n : q[i] = e
      BY <2>2, <1>3 DEF In
    <3>2. PICK k \in 1 .. n - 1 : from(k) = i
      BY <3>1, <2>2, <1>2, <1>6
    <3>3. QED
      BY <3>1, <3>2, <1>3, <1>4 DEF In
  <2>3. QED
    BY <2>1, <2>2
<1>11. QED
  BY <1>7, <1>8, <1>9, <1>10 DEF Distinct, b

\* The page's entries with one more at their end.
LEMMA AppendKeeps ==
  ASSUME NEW q \in Seq(Nat), NEW o \in Nat, Distinct(q), ~ In(q, o)
  PROVE  /\ Append(q, o) \in Seq(Nat) /\ Len(Append(q, o)) = Len(q) + 1 /\ Len(q) \in Nat
         /\ Append(q, o)[Len(q) + 1] = o /\ \A k \in DOMAIN q : Append(q, o)[k] = q[k]
         /\ Distinct(Append(q, o))
         /\ \A e : In(Append(q, o), e) <=> (In(q, e) \/ e = o)
<1> DEFINE n == Len(q)
           b == Append(q, o)
<1>1. n \in Nat /\ DOMAIN q = 1 .. n
  BY LenProperties
<1>2. b \in Seq(Nat) /\ Len(b) = n + 1 /\ b[n + 1] = o /\ \A k \in 1 .. n : b[k] = q[k]
  BY AppendProperties
<1>3. DOMAIN b = 1 .. n + 1
  BY <1>2, LenProperties
<1> HIDE DEF b, n
<1>4. \A k \in DOMAIN b : k = n + 1 \/ k \in DOMAIN q
  BY <1>1, <1>3
<1>5. Distinct(b)
  BY <1>1, <1>2, <1>3, <1>4 DEF Distinct, In
<1>6. \A e : In(b, e) <=> (In(q, e) \/ e = o)
  <2>1. n + 1 \in DOMAIN b /\ \A k \in DOMAIN q : k \in DOMAIN b
    BY <1>1, <1>3
  <2>2. QED
    BY <2>1, <1>1, <1>2, <1>4 DEF In
<1>7. QED
  BY <1>1, <1>2, <1>5, <1>6 DEF b, n

\* What is met in a sequence, and the sequence's range.
LEMMA InRange == \A s, e : In(s, e) <=> e \in Range(s)
BY DEF In, Range

\* An entry that comes to a page in the order of the keys leaves it in that order.
LEMMA KeyOrder ==
  ASSUME NEW q \in Seq(Nat), NEW o \in Nat, Rising(q), ~ In(q, o)
  PROVE  /\ InKeyOrder(Append(q, o)) \in Seq(Nat) /\ Len(InKeyOrder(Append(q, o))) = Len(q) + 1
         /\ Rising(InKeyOrder(Append(q, o)))
         /\ \A e : In(InKeyOrder(Append(q, o)), e) <=> (In(q, e) \/ e = o)
<1> DEFINE n == Len(q)
           a == Append(q, o)
           Greater == {i \in 1 .. n : q[i] > o} \cup {n + 1}
           Fits(s) == s \in [DOMAIN a -> Range(a)] /\ Range(s) = Range(a) /\ \A i, j \in DOMAIN a : i < j => s[i] < s[j]
<1>1. n \in Nat /\ DOMAIN q = 1 .. n /\ \A i \in 1 .. n : q[i] \in Nat /\ q[i] # o
  BY LenProperties, ElementOfSeq DEF In
<1>2. a \in Seq(Nat) /\ Len(a) = n + 1 /\ a[n + 1] = o /\ \A k \in 1 .. n : a[k] = q[k]
  BY AppendProperties
<1>3. DOMAIN a = 1 .. n + 1
  BY <1>2, LenProperties
<1>4. Greater \in SUBSET Nat /\ Greater # {}
  BY <1>1
<1>5. PICK k \in Greater : \A i \in Greater : k <= i
  BY <1>4, LeastNatural
<1>6. k \in 1 .. n + 1 /\ (k # n + 1 => q[k] > o) /\ \A i \in 1 .. n : i < k => q[i] < o
  <2>1. k \in 1 .. n + 1 /\ (k # n + 1 => q[k] > o)
    BY <1>1
  <2>2. ASSUME NEW i \in 1 .. n, i < k PROVE q[i] < o
    <3>1. i \notin Greater
      BY <2>1, <2>2, <1>1, <1>5
    <3>2. ~ (q[i] > o) /\ q[i] \in Nat /\ q[i] # o
      BY <3>1, <1>1
    <3>3. QED
      BY <3>2
  <2>3. QED
    BY <2>1, <2>2
<1> DEFINE w == [j \in 1 .. n + 1 |-> IF j < k THEN q[j] ELSE IF j = k THEN o ELSE q[j - 1]]
<1>7. \A i, j \in 1 .. n : i < j => q[i] < q[j]
  BY <1>1 DEF Rising
<1> HIDE DEF a, n, Greater
<1>8. \A e : (\E j \in 1 .. n + 1 : w[j] = e) <=> (\E j \in 1 .. n : q[j] = e) \/ e = o
  <2>1. ASSUME NEW j \in 1 .. n + 1 PROVE (\E i \in 1 .. n : q[i] = w[j]) \/ w[j] = o
    <3>1. CASE j < k
      <4>1. j \in 1 .. n
        BY <3>1, <1>1, <1>6
      <4>2. QED
        BY <3>1, <4>1
    <3>2. CASE j = k
      BY <3>2
    <3>3. CASE j > k
      <4>1. j - 1 \in 1 .. n /\ ~ (j < k) /\ j # k
        BY <3>3, <1>1, <1>6
      <4>2. QED
        BY <4>1
    <3>4. j \in Int /\ k \in Int
      BY <1>6
    <3>5. QED
      BY <3>1, <3>2, <3>3, <3>4
  <2>2. ASSUME NEW i \in 1 .. n PROVE \E j \in 1 .. n + 1 : w[j] = q[i]
    <3>1. CASE i < k
      <4>1. i \in 1 .. n + 1 /\ w[i] = q[i]
        BY <3>1, <1>1
      <4>2. QED
        BY <4>1
    <3>2. CASE ~ (i < k)
      <4>1. i + 1 \in 1 .. n + 1 /\ ~ (i + 1 < k) /\ i + 1 # k /\ (i + 1) - 1 = i
        BY <3>2, <1>1, <1>6
      <4> DEFINE j == i + 1
      <4> HIDE DEF j
      <4>2. j \in 1 .. n + 1 /\ ~ (j < k) /\ j # k /\ j - 1 = i
        BY <4>1 DEF j
      <4>3. w[j] = q[i]
        BY <4>2
      <4>4. QED
        BY <4>2, <4>3
    <3>3. QED
      BY <3>1, <3>2
  <2>3. w[k] = o /\ k \in 1 .. n + 1
    BY <1>6
  <2> HIDE DEF w
  <2>4. QED
    BY <2>1, <2>2, <2>3
<1>9. ASSUME NEW i \in 1 .. n + 1, NEW j \in 1 .. n + 1, i < j PROVE w[i] < w[j]
  <2>0. i \in Int /\ j \in Int /\ k \in Int
    BY <1>6
  <2>1. CASE j < k
    <3>1. i < k /\ i \in 1 .. n /\ j \in 1 .. n
      BY <2>0, <2>1, <1>1, <1>6, <1>9
    <3>2. QED
      BY <2>1, <3>1, <1>7, <1>9
  <2>2. CASE j = k
    <3>1. i < k /\ i \in 1 .. n /\ ~ (j < k)
      BY <2>0, <2>2, <1>1, <1>6, <1>9
    <3>2. w[i] = q[i] /\ w[j] = o
      BY <2>2, <3>1
    <3>3. QED
      BY <3>1, <3>2, <1>6
  <2>3. CASE j > k
    <3>1. j - 1 \in 1 .. n /\ ~ (j < k) /\ j # k
      BY <2>0, <2>3, <1>1, <1>6
    <3>2. w[j] = q[j - 1]
      BY <3>1
    <3>3. CASE i < k
      <4>1. i \in 1 .. n /\ i < j - 1 /\ w[i] = q[i]
        BY <2>0, <2>3, <3>3, <1>1, <1>6
      <4>2. QED
        BY <3>1, <3>2, <4>1, <1>7
    <3>4. CASE i = k
      <4>1. w[i] = o /\ i \in 1 .. n
        BY <3>4, <1>1, <1>6, <1>9
      <4>2. q[i] > o /\ i # n + 1
        BY <3>4, <4>1, <1>1, <1>6
      <4>3. i = j - 1 \/ i < j - 1
        BY <2>0, <1>9
      <4>4. CASE i = j - 1
        BY <3>2, <4>1, <4>2, <4>4, <1>1
      <4>5. CASE i < j - 1
        <5>1. q[i] < q[j - 1] /\ q[i] \in Nat /\ q[j - 1] \in Nat
          BY <3>1, <4>1, <4>5, <1>1, <1>7
        <5>2. QED
          BY <3>2, <4>1, <4>2, <5>1
      <4>6. QED
        BY <4>3, <4>4, <4>5
    <3>5. CASE i > k
      <4>1. i - 1 \in 1 .. n /\ ~ (i < k) /\ i # k /\ i - 1 < j - 1
        BY <2>0, <3>5, <1>1, <1>6, <1>9
      <4>2. w[i] = q[i - 1]
        BY <4>1
      <4>3. QED
        BY <3>1, <3>2, <4>1, <4>2, <1>7
    <3>6. QED
      BY <2>0, <3>3, <3>4, <3>5
  <2>4. QED
    BY <2>0, <2>1, <2>2, <2>3
<1>10. DOMAIN w = 1 .. n + 1 /\ w = [j \in 1 .. n + 1 |-> w[j]]
  OBVIOUS
<1> HIDE DEF w
<1>11. Range(w) = Range(a)
  <2>1. \A e : e \in Range(w) <=> \E j \in 1 .. n + 1 : w[j] = e
    BY <1>10 DEF Range
  <2>2. \A e : e \in Range(a) <=> \E j \in 1 .. n + 1 : a[j] = e
    BY <1>3 DEF Range
  <2>3. \A e : (\E j \in 1 .. n + 1 : a[j] = e) <=> (\E j \in 1 .. n : q[j] = e) \/ e = o
    <3>1. \A j \in 1 .. n + 1 : j \in 1 .. n \/ j = n + 1
      BY <1>1
    <3>2. n + 1 \in 1 .. n + 1 /\ \A j \in 1 .. n : j \in 1 .. n + 1
      BY <1>1
    <3>3. QED
      BY <3>1, <3>2, <1>2
  <2>4. QED
    BY <2>1, <2>2, <2>3, <1>8
<1>12. \A j \in 1 .. n + 1 : w[j] \in Range(a)
  BY <1>10, <1>11 DEF Range
<1>13. Fits(w)
  BY <1>3, <1>9, <1>10, <1>11, <1>12
<1> DEFINE r == InKeyOrder(a)
<1>14. Fits(r)
  <2>1. r = CHOOSE s \in [DOMAIN a -> Range(a)] : Range(s) = Range(a) /\ \A i, j \in DOMAIN a : i < j => s[i] < s[j]
    BY DEF InKeyOrder
  <2>2. QED
    BY <2>1, <1>13
<1> HIDE DEF r
<1>15. DOMAIN r = 1 .. n + 1 /\ r \in [1 .. n + 1 -> Nat]
  <2>1. Range(a) \subseteq Nat
    BY <1>2, <1>3, ElementOfSeq DEF Range
  <2>2. QED
    BY <2>1, <1>3, <1>14
<1>16. r \in Seq(Nat) /\ Len(r) = n + 1
  <2>1. r \in Seq(Nat)
    BY <1>1, <1>15, SeqDef
  <2>2. QED
    BY <2>1, <1>1, <1>15, LenProperties
<1>17. Rising(r)
  BY <1>3, <1>14, <1>15 DEF Rising
<1>18. \A e : In(r, e) <=> (In(q, e) \/ e = o)
  <2>1. \A e : In(r, e) <=> e \in Range(w)
    BY <1>11, <1>14, InRange
  <2>2. \A e : e \in Range(w) <=> \E j \in 1 .. n + 1 : w[j] = e
    BY <1>10 DEF Range
  <2>3. \A e : In(q, e) <=> \E j \in 1 .. n : q[j] = e
    BY <1>1 DEF In
  <2>4. QED
    BY <2>1, <2>2, <2>3, <1>8
<1>19. QED
  BY <1>16, <1>17, <1>18 DEF r, a, n

-------------------------------------------------------------------------------
(* The ring of pages *)

\* Pages by their numbers.
PageType == [entries : Seq(Nat), next : Nat, prev : Nat]
Typed(D) == DOMAIN D \subseteq Nat /\ D \in [DOMAIN D -> PageType]

\* The pages follow each other in the order of their numbers, from the root to the one its link back
\* names, and each link has its counterpart.
Ring(D) ==
  /\ 0 \in DOMAIN D
  /\ \A n \in DOMAIN D : D[n].next \in DOMAIN D /\ D[n].prev \in DOMAIN D /\ n <= D[0].prev
  /\ \A n \in DOMAIN D : (D[n].next = 0) <=> (n = D[0].prev)
  /\ \A n \in DOMAIN D : D[n].next # 0 => n < D[n].next /\ D[D[n].next].prev = n
  /\ \A n \in DOMAIN D : D[n].next # 0 => \A m \in DOMAIN D : ~ (n < m /\ m < D[n].next)
  /\ \A n \in DOMAIN D : n # 0 => D[n].prev < n /\ D[D[n].prev].next = n

\* What a page is made of.
LEMMA PageIs ==
  ASSUME NEW e \in Seq(Nat), NEW n \in Nat, NEW p \in Nat
  PROVE  /\ DirPage(e, n, p) \in PageType
         /\ DirPage(e, n, p).entries = e /\ DirPage(e, n, p).next = n /\ DirPage(e, n, p).prev = p
BY DEF DirPage, PageType

\* A page of a directory has entries and links.
LEMMA PagesAre ==
  ASSUME NEW D, Typed(D), NEW n \in DOMAIN D
  PROVE  n \in Nat /\ D[n].entries \in Seq(Nat) /\ D[n].next \in Nat /\ D[n].prev \in Nat
BY DEF Typed, PageType

\* A page written, point by point.
LEMMA PutIs ==
  ASSUME NEW D, NEW n, NEW p
  PROVE  /\ DOMAIN Put(D, n, p) = DOMAIN D \cup {n} /\ Put(D, n, p)[n] = p
         /\ \A i \in DOMAIN D : i # n => Put(D, n, p)[i] = D[i]
BY DEF Put

\* A page erased, point by point.
LEMMA EraseIs ==
  ASSUME NEW D, NEW n
  PROVE  DOMAIN Erase(D, n) = DOMAIN D \ {n} /\ \A i \in DOMAIN D \ {n} : Erase(D, n)[i] = D[i]
BY DEF Erase, Restrict

\* Directories of the same pages with the same links are rings together.
LEMMA SameRing ==
  ASSUME NEW D, NEW E, DOMAIN E = DOMAIN D, Ring(D),
         \A i \in DOMAIN D : E[i].next = D[i].next /\ E[i].prev = D[i].prev
  PROVE  Ring(E)
<1>1. 0 \in DOMAIN D /\ E[0].prev = D[0].prev
  BY DEF Ring
<1>2. \A n \in DOMAIN D : D[n].next \in DOMAIN D /\ D[n].prev \in DOMAIN D /\ n <= D[0].prev
  BY DEF Ring
<1>3. \A n \in DOMAIN E : E[n].next \in DOMAIN E /\ E[n].prev \in DOMAIN E /\ n <= E[0].prev
  BY <1>1, <1>2
<1>4. \A n \in DOMAIN E : (E[n].next = 0) <=> (n = E[0].prev)
  <2>1. \A n \in DOMAIN D : (D[n].next = 0) <=> (n = D[0].prev)
    BY DEF Ring
  <2>2. QED
    BY <1>1, <2>1
<1>5. \A n \in DOMAIN E : E[n].next # 0 => n < E[n].next /\ E[E[n].next].prev = n
  <2>1. \A n \in DOMAIN D : D[n].next # 0 => n < D[n].next /\ D[D[n].next].prev = n
    BY DEF Ring
  <2>2. QED
    BY <1>2, <2>1
<1>6. \A n \in DOMAIN E : E[n].next # 0 => \A m \in DOMAIN E : ~ (n < m /\ m < E[n].next)
  <2>1. \A n \in DOMAIN D : D[n].next # 0 => \A m \in DOMAIN D : ~ (n < m /\ m < D[n].next)
    BY DEF Ring
  <2>2. QED
    BY <2>1
<1>7. \A n \in DOMAIN E : n # 0 => E[n].prev < n /\ E[E[n].prev].next = n
  <2>1. \A n \in DOMAIN D : n # 0 => D[n].prev < n /\ D[D[n].prev].next = n
    BY DEF Ring
  <2>2. QED
    BY <1>2, <2>1
<1>8. 0 \in DOMAIN E
  BY <1>1
<1>9. QED
  BY <1>3, <1>4, <1>5, <1>6, <1>7, <1>8 DEF Ring

\* A page put back with other entries keeps the ring.
LEMMA PutKeepsRing ==
  ASSUME NEW D, Typed(D), Ring(D), NEW n \in DOMAIN D, NEW e \in Seq(Nat)
  PROVE  Typed(Put(D, n, DirPage(e, D[n].next, D[n].prev))) /\ Ring(Put(D, n, DirPage(e, D[n].next, D[n].prev)))
<1> DEFINE p == DirPage(e, D[n].next, D[n].prev)
           E == Put(D, n, p)
<1>1. p \in PageType /\ p.entries = e /\ p.next = D[n].next /\ p.prev = D[n].prev
  BY PagesAre, PageIs
<1> HIDE DEF p
<1>2. DOMAIN E = DOMAIN D /\ E[n] = p /\ \A i \in DOMAIN D : i # n => E[i] = D[i]
  BY DEF Put
<1>3. Typed(E)
  <2>1. E = [i \in DOMAIN D |-> E[i]]
    BY <1>2 DEF Put
  <2>2. \A i \in DOMAIN D : E[i] \in PageType
    BY <1>1, <1>2 DEF Typed
  <2>3. QED
    BY <2>1, <2>2, <1>2 DEF Typed
<1>4. \A i \in DOMAIN D : E[i].next = D[i].next /\ E[i].prev = D[i].prev
  BY <1>1, <1>2
<1> HIDE DEF E
<1>5. QED
  BY <1>2, <1>3, <1>4, SameRing DEF E, p

\* A page after the last keeps the ring.
LEMMA LinkedKeepsRing ==
  ASSUME NEW D, Typed(D), Ring(D), NEW e \in Seq(Nat)
  PROVE  LET n == D[0].prev + 1
             E == Put(LinkedTo(D, n), n, DirPage(e, 0, D[0].prev))
         IN /\ Typed(E) /\ Ring(E) /\ DOMAIN E = DOMAIN D \cup {n} /\ n \notin DOMAIN D /\ E[0].prev = n
            /\ E[n].entries = e /\ \A i \in DOMAIN D : E[i].entries = D[i].entries
<1> DEFINE l == D[0].prev
           n == l + 1
           L == LinkedTo(D, n)
           E == Put(L, n, DirPage(e, 0, l))
<1>1. 0 \in DOMAIN D /\ l \in DOMAIN D /\ l \in Nat /\ n \in Nat /\ l < n /\ n # 0
  <2>1. 0 \in DOMAIN D /\ l \in DOMAIN D
    BY DEF Ring
  <2>2. QED
    BY <2>1, PagesAre
<1>2. \A i \in DOMAIN D : i \in Nat /\ i <= l /\ i < n /\ i # n
  <2>1. ASSUME NEW i \in DOMAIN D PROVE i \in Nat /\ i <= l /\ i < n /\ i # n
    <3>1. i \in Nat /\ i <= l
      BY PagesAre DEF Ring
    <3>2. QED
      BY <3>1, <1>1
  <2>2. QED
    BY <2>1
<1> HIDE DEF n, l
<1>3. DOMAIN L = DOMAIN D /\ \A i \in DOMAIN D :
         /\ L[i] \in PageType /\ L[i].entries = D[i].entries
         /\ L[i].next = (IF i = l THEN n ELSE D[i].next)
         /\ L[i].prev = (IF i = 0 THEN n ELSE D[i].prev)
  <2>1. DOMAIN L = DOMAIN D
    BY DEF LinkedTo
  <2>2. ASSUME NEW i \in DOMAIN D
        PROVE  /\ L[i] \in PageType /\ L[i].entries = D[i].entries
               /\ L[i].next = (IF i = l THEN n ELSE D[i].next)
               /\ L[i].prev = (IF i = 0 THEN n ELSE D[i].prev)
    <3> DEFINE a == IF i = l THEN n ELSE D[i].next
               b == IF i = 0 THEN n ELSE D[i].prev
    <3>1. D[i].entries \in Seq(Nat) /\ a \in Nat /\ b \in Nat
      BY <1>1, PagesAre
    <3>2. L[i] = DirPage(D[i].entries, a, b)
      BY DEF LinkedTo, l
    <3> HIDE DEF a, b
    <3>3. L[i] \in PageType /\ L[i].entries = D[i].entries /\ L[i].next = a /\ L[i].prev = b
      BY <3>1, <3>2, PageIs
    <3>4. QED
      BY <3>3 DEF a, b
  <2>3. QED
    BY <2>1, <2>2
<1> DEFINE p == DirPage(e, 0, l)
<1>4. p \in PageType /\ p.entries = e /\ p.next = 0 /\ p.prev = l
  BY <1>1, PageIs
<1> HIDE DEF L, p
<1>5. DOMAIN E = DOMAIN D \cup {n} /\ E[n] = p /\ \A i \in DOMAIN D : E[i] = L[i]
  BY <1>2, <1>3 DEF p, Put
<1>6. E = [i \in DOMAIN D \cup {n} |-> E[i]]
  BY <1>3 DEF Put
<1> HIDE DEF E
<1>7. Typed(E)
  <2>1. \A i \in DOMAIN D \cup {n} : E[i] \in PageType
    BY <1>3, <1>4, <1>5
  <2>2. QED
    BY <2>1, <1>1, <1>5, <1>6 DEF Typed
<1>8. \A i \in DOMAIN D : D[i].next \in DOMAIN D /\ D[i].prev \in DOMAIN D /\ ((D[i].next = 0) <=> (i = l))
  BY DEF Ring, l
<1>9. \A i \in DOMAIN D : D[i].next # 0 => i < D[i].next /\ D[D[i].next].prev = i /\ \A m \in DOMAIN D : ~ (i < m /\ m < D[i].next)
  BY DEF Ring
<1>10. \A i \in DOMAIN D : i # 0 => D[i].prev < i /\ D[D[i].prev].next = i
  BY DEF Ring
<1>11. /\ E[n].next = 0 /\ E[n].prev = l /\ E[0].prev = n /\ E[l].next = n
       /\ \A i \in DOMAIN D : i # l => E[i].next = D[i].next
       /\ \A i \in DOMAIN D : i # 0 => E[i].prev = D[i].prev
  BY <1>1, <1>3, <1>4, <1>5
<1>12. ASSUME NEW i \in DOMAIN E PROVE E[i].next \in DOMAIN E /\ E[i].prev \in DOMAIN E /\ i <= n
  <2>1. CASE i = n
    BY <2>1, <1>1, <1>5, <1>11
  <2>2. CASE i \in DOMAIN D
    <3>1. E[i].next = n \/ E[i].next \in DOMAIN D
      BY <2>2, <1>8, <1>11
    <3>2. E[i].prev = n \/ E[i].prev \in DOMAIN D
      BY <2>2, <1>8, <1>11
    <3>3. QED
      BY <2>2, <3>1, <3>2, <1>1, <1>2, <1>5
  <2>3. QED
    BY <2>1, <2>2, <1>5
<1>13. ASSUME NEW i \in DOMAIN E PROVE (E[i].next = 0) <=> (i = n)
  <2>1. CASE i = n
    BY <2>1, <1>11
  <2>2. CASE i \in DOMAIN D /\ i = l
    BY <2>2, <1>1, <1>11
  <2>3. CASE i \in DOMAIN D /\ i # l
    BY <2>3, <1>2, <1>8, <1>11
  <2>4. QED
    BY <2>1, <2>2, <2>3, <1>5
<1>14. ASSUME NEW i \in DOMAIN E, E[i].next # 0
       PROVE  i < E[i].next /\ E[E[i].next].prev = i /\ \A m \in DOMAIN E : ~ (i < m /\ m < E[i].next)
  <2>1. i \in DOMAIN D
    BY <1>5, <1>11, <1>14
  <2>2. CASE i = l
    <3>1. \A m \in DOMAIN E : m \in Nat /\ (m = n \/ m <= l)
      BY <1>1, <1>2, <1>5
    <3>2. QED
      BY <2>2, <3>1, <1>1, <1>11
  <2>3. CASE i # l
    <3>1. E[i].next = D[i].next /\ D[i].next # 0 /\ D[i].next \in DOMAIN D
      BY <2>1, <2>3, <1>8, <1>11
    <3>2. D[i].next \in Nat /\ D[i].next < n
      BY <3>1, <1>2
    <3>3. QED
      BY <2>1, <3>1, <3>2, <1>1, <1>5, <1>9, <1>11
  <2>4. QED
    BY <2>2, <2>3
<1>15. ASSUME NEW i \in DOMAIN E, i # 0 PROVE E[i].prev < i /\ E[E[i].prev].next = i
  <2>1. CASE i = n
    BY <2>1, <1>1, <1>11
  <2>2. CASE i \in DOMAIN D
    <3>1. E[i].prev = D[i].prev /\ D[i].prev < i /\ D[D[i].prev].next = i /\ D[i].prev \in DOMAIN D
      BY <2>2, <1>8, <1>10, <1>11, <1>15
    <3>2. D[i].prev # l
      BY <3>1, <1>8, <1>15
    <3>3. QED
      BY <3>1, <3>2, <1>11
  <2>3. QED
    BY <2>1, <2>2, <1>5
<1>16. Ring(E)
  <2>1. 0 \in DOMAIN E /\ E[0].prev = n
    BY <1>1, <1>5, <1>11
  <2>2. QED
    BY <2>1, <1>12, <1>13, <1>14, <1>15 DEF Ring
<1>17. n \notin DOMAIN D /\ E[n].entries = e /\ \A i \in DOMAIN D : E[i].entries = D[i].entries
  BY <1>2, <1>3, <1>4, <1>5
<1>18. QED
  BY <1>5, <1>7, <1>11, <1>16, <1>17 DEF E, L, p, n, l

\* A page taken out of the ring leaves a ring.
LEMMA UnlinkedKeepsRing ==
  ASSUME NEW D, Typed(D), Ring(D), NEW n \in DOMAIN D, n # 0
  PROVE  /\ Typed(Unlinked(D, n)) /\ Ring(Unlinked(D, n)) /\ DOMAIN Unlinked(D, n) = DOMAIN D \ {n}
         /\ \A i \in DOMAIN D \ {n} : Unlinked(D, n)[i].entries = D[i].entries
<1> DEFINE l == D[0].prev
           p == D[n].prev
           x == D[n].next
           E == Unlinked(D, n)
<1>1. \A i \in DOMAIN D : D[i].next \in DOMAIN D /\ D[i].prev \in DOMAIN D /\ i <= l /\ ((D[i].next = 0) <=> (i = l))
  BY DEF Ring
<1>2. \A i \in DOMAIN D : D[i].next # 0 => i < D[i].next /\ D[D[i].next].prev = i /\ \A m \in DOMAIN D : ~ (i < m /\ m < D[i].next)
  BY DEF Ring
<1>3. \A i \in DOMAIN D : i # 0 => D[i].prev < i /\ D[D[i].prev].next = i
  BY DEF Ring
<1>4. \A i \in DOMAIN D : i \in Nat
  BY PagesAre
<1>5. /\ 0 \in DOMAIN D /\ l \in DOMAIN D /\ p \in DOMAIN D /\ x \in DOMAIN D
      /\ p < n /\ p # n /\ D[p].next = n /\ ((x = 0) <=> (n = l))
  <2>1. 0 \in DOMAIN D
    BY DEF Ring
  <2>2. p < n /\ D[p].next = n /\ p \in DOMAIN D
    BY <1>1, <1>3
  <2>3. p # n
    BY <2>2, <1>4
  <2>4. QED
    BY <2>1, <2>2, <2>3, <1>1
<1>6. x # 0 => n < x /\ x # n /\ D[x].prev = n
  BY <1>2, <1>4, <1>5
<1> DEFINE nx(i) == IF i = p THEN x ELSE D[i].next
           pv(i) == IF (i = x /\ i # 0) \/ (i = 0 /\ l = n) THEN p ELSE D[i].prev
<1>7. DOMAIN E = DOMAIN D \ {n} /\ E = [i \in DOMAIN D \ {n} |-> DirPage(D[i].entries, nx(i), pv(i))]
  BY DEF Unlinked
<1> HIDE DEF l, p, x, E
<1>8. ASSUME NEW i \in DOMAIN D \ {n}
      PROVE  E[i] \in PageType /\ E[i].entries = D[i].entries /\ E[i].next = nx(i) /\ E[i].prev = pv(i)
  <2>1. D[i].entries \in Seq(Nat) /\ D[i].next \in Nat /\ D[i].prev \in Nat /\ x \in Nat /\ p \in Nat
    BY <1>4, <1>5, PagesAre
  <2>2. nx(i) \in Nat /\ pv(i) \in Nat
    BY <2>1
  <2> HIDE DEF nx, pv
  <2>3. E[i] = DirPage(D[i].entries, nx(i), pv(i))
    BY <1>7
  <2>4. QED
    BY <2>1, <2>2, <2>3, PageIs
<1>9. Typed(E)
  <2>1. E = [i \in DOMAIN D \ {n} |-> E[i]]
    BY <1>7
  <2>2. QED
    BY <2>1, <1>4, <1>7, <1>8 DEF Typed
<1>10. ASSUME NEW i \in DOMAIN D, i # n, i # p PROVE D[i].next # n
  <2>1. SUFFICES ASSUME D[i].next = n PROVE FALSE
    OBVIOUS
  <2>2. D[n].prev = i
    BY <2>1, <1>2
  <2>3. QED
    BY <2>2, <1>10 DEF p
<1>11. ASSUME NEW i \in DOMAIN D, i # n, i # 0, i # x PROVE D[i].prev # n
  <2>1. SUFFICES ASSUME D[i].prev = n PROVE FALSE
    OBVIOUS
  <2>2. D[n].next = i
    BY <2>1, <1>3, <1>11
  <2>3. QED
    BY <2>2, <1>11 DEF x
<1>12. x # n /\ (x = 0 => n = l) /\ (n = l => x = 0)
  BY <1>5, <1>6
<1>13. \A i \in DOMAIN E : nx(i) \in DOMAIN E
  BY <1>1, <1>5, <1>7, <1>10, <1>12
<1>14. \A i \in DOMAIN E : pv(i) \in DOMAIN E
  <2>1. ASSUME NEW i \in DOMAIN E PROVE pv(i) \in DOMAIN E
    <3>1. i \in DOMAIN D /\ i # n /\ D[i].prev \in DOMAIN D
      BY <1>1, <1>7
    <3>2. CASE pv(i) = p
      BY <3>2, <1>5, <1>7
    <3>3. CASE ~ ((i = x /\ i # 0) \/ (i = 0 /\ l = n)) /\ i # 0
      <4>1. i # x
        BY <3>3
      <4>2. QED
        BY <3>1, <3>3, <4>1, <1>7, <1>11
    <3>4. CASE i = 0 /\ l # n
      BY <3>1, <3>4, <1>7 DEF l
    <3>5. QED
      BY <3>2, <3>3, <3>4
  <2>2. QED
    BY <2>1
<1>15. l = n => \A i \in DOMAIN E : i <= p
  <2>1. ASSUME l = n, NEW i \in DOMAIN E PROVE i <= p
    <3>1. i \in DOMAIN D /\ i # n /\ i <= n /\ i \in Nat /\ n \in Nat /\ p \in Nat
      BY <2>1, <1>1, <1>4, <1>5, <1>7
    <3>2. ~ (p < i /\ i < n)
      BY <3>1, <1>2, <1>5
    <3>3. QED
      BY <3>1, <3>2
  <2>2. QED
    BY <2>1
<1>16. 0 \in DOMAIN E /\ E[0].prev = (IF l = n THEN p ELSE l)
  <2>1. 0 \in DOMAIN D \ {n}
    BY <1>5
  <2>2. E[0].prev = pv(0)
    BY <2>1, <1>8
  <2>3. QED
    BY <2>1, <2>2, <1>7 DEF l
<1>17. \A i \in DOMAIN E : i <= E[0].prev
  BY <1>1, <1>7, <1>15, <1>16
<1>18. ASSUME NEW i \in DOMAIN E PROVE (nx(i) = 0) <=> (i = E[0].prev)
  <2>1. i \in DOMAIN D /\ i # n
    BY <1>7
  <2>2. CASE i = p
    <3>1. p # l
      BY <1>1, <1>5
    <3>2. QED
      BY <2>2, <3>1, <1>12, <1>16
  <2>3. CASE i # p
    BY <2>1, <2>3, <1>1, <1>16
  <2>4. QED
    BY <2>2, <2>3
<1>19. ASSUME NEW i \in DOMAIN E, nx(i) # 0
       PROVE  i < nx(i) /\ pv(nx(i)) = i /\ \A m \in DOMAIN E : ~ (i < m /\ m < nx(i))
  <2>1. i \in DOMAIN D /\ i # n
    BY <1>7
  <2>2. CASE i = p
    <3>1. nx(i) = x /\ x # 0 /\ n < x
      BY <2>2, <1>6, <1>19
    <3>2. pv(x) = p
      BY <3>1
    <3>3. ASSUME NEW m \in DOMAIN E PROVE ~ (p < m /\ m < x)
      <4>1. m \in DOMAIN D /\ m # n /\ m \in Nat /\ n \in Nat
        BY <1>4, <1>7
      <4>2. ~ (p < m /\ m < n)
        BY <4>1, <1>2, <1>5
      <4>3. ~ (n < m /\ m < x)
        BY <4>1, <3>1, <1>2 DEF x
      <4>4. QED
        BY <4>1, <4>2, <4>3
    <3>4. p \in Nat /\ n \in Nat /\ x \in Nat
      BY <1>4, <1>5
    <3>5. p < x
      BY <3>1, <3>4, <1>5
    <3>6. QED
      BY <2>2, <3>1, <3>2, <3>3, <3>5
  <2>3. CASE i # p
    <3> DEFINE y == D[i].next
    <3>1. nx(i) = y /\ y # 0 /\ y \in DOMAIN D
      BY <2>1, <2>3, <1>1, <1>19
    <3>2. i < y /\ D[y].prev = i /\ \A m \in DOMAIN D : ~ (i < m /\ m < y)
      BY <2>1, <3>1, <1>2
    <3>3. y # x
      BY <2>1, <3>1, <3>2, <1>6
    <3>4. pv(y) = i
      BY <3>1, <3>2, <3>3
    <3>5. QED
      BY <3>1, <3>2, <3>4, <1>7
  <2>4. QED
    BY <2>2, <2>3
<1>20. ASSUME NEW i \in DOMAIN E, i # 0 PROVE pv(i) < i /\ nx(pv(i)) = i
  <2>1. i \in DOMAIN D /\ i # n
    BY <1>7
  <2>2. CASE i = x
    <3>1. pv(i) = p /\ nx(p) = x
      BY <2>2, <1>20
    <3>2. p \in Nat /\ n \in Nat /\ x \in Nat /\ p < n /\ n < x
      BY <2>2, <1>4, <1>5, <1>6, <1>20
    <3>3. QED
      BY <2>2, <3>1, <3>2
  <2>3. CASE i # x
    <3> DEFINE q == D[i].prev
    <3>1. pv(i) = q /\ q < i /\ D[q].next = i /\ q \in DOMAIN D
      BY <2>1, <2>3, <1>1, <1>3, <1>20
    <3>2. q # p
      BY <2>1, <3>1, <1>5
    <3>3. QED
      BY <3>1, <3>2
  <2>4. QED
    BY <2>2, <2>3
<1> HIDE DEF nx, pv
<1>21. \A i \in DOMAIN E : E[i].next = nx(i) /\ E[i].prev = pv(i)
  BY <1>7, <1>8
<1>22. Ring(E)
  <2>1. \A i \in DOMAIN E : E[i].next \in DOMAIN E /\ E[i].prev \in DOMAIN E /\ i <= E[0].prev
    BY <1>13, <1>14, <1>17, <1>21
  <2>2. \A i \in DOMAIN E : (E[i].next = 0) <=> (i = E[0].prev)
    BY <1>18, <1>21
  <2>3. \A i \in DOMAIN E : E[i].next # 0 => i < E[i].next /\ E[E[i].next].prev = i
    BY <1>13, <1>19, <1>21
  <2>4. \A i \in DOMAIN E : E[i].next # 0 => \A m \in DOMAIN E : ~ (i < m /\ m < E[i].next)
    BY <1>19, <1>21
  <2>5. \A i \in DOMAIN E : i # 0 => E[i].prev < i /\ E[E[i].prev].next = i
    BY <1>14, <1>20, <1>21
  <2>6. QED
    BY <2>1, <2>2, <2>3, <2>4, <2>5, <1>16 DEF Ring
<1>23. QED
  BY <1>7, <1>8, <1>9, <1>22 DEF E

\* An empty last page let go of is taken out of the ring.
LEMMA LastIsUnlinked ==
  ASSUME NEW D, Typed(D), Ring(D), NEW n \in DOMAIN D, n # 0, D[n].next = 0, D[n].entries = <<>>
  PROVE  ThenLast(D, D[n].prev, n) = Unlinked(D, n)
<1>1. LastLetsGo(D, n)
  BY DEF LastLetsGo, Bare
<1>2. n = D[0].prev /\ 0 \in DOMAIN D
  BY DEF Ring
<1>3. \A i \in DOMAIN D \ {n} :
        /\ (IF i = D[n].prev THEN 0 ELSE D[i].next) = (IF i = D[n].prev THEN D[n].next ELSE D[i].next)
        /\ (IF i = 0 THEN D[n].prev ELSE D[i].prev)
             = (IF (i = D[n].next /\ i # 0) \/ (i = 0 /\ D[0].prev = n) THEN D[n].prev ELSE D[i].prev)
  BY <1>2
<1>4. QED
  BY <1>1, <1>3 DEF ThenLast, Unlinked

-------------------------------------------------------------------------------
(* Going along the links *)

\* The next page, the root after the last; the first pages met, g, as many as one likes.
Following(D, p) == IF D[p].next \in DOMAIN D THEN D[p].next ELSE 0
Walk(D, n, g) == g = [i \in 1 .. n |-> IF i = 1 THEN 0 ELSE Following(D, g[i - 1])]

\* One can go as far as one likes.
LEMMA WalkExists ==
  ASSUME NEW D, NEW n \in Nat
  PROVE  \E g : Walk(D, n, g)
<1> DEFINE Bad == {m \in Nat : ~ \E g : Walk(D, m, g)}
<1>1. SUFFICES ASSUME Bad # {} PROVE FALSE
  OBVIOUS
<1>2. PICK m \in Bad : \A k \in Bad : m <= k
  BY <1>1, LeastNatural
<1>3. m # 0
  <2> DEFINE h == [i \in 1 .. 0 |-> 0]
  <2>1. h = [i \in 1 .. 0 |-> IF i = 1 THEN 0 ELSE Following(D, h[i - 1])]
    OBVIOUS
  <2>2. Walk(D, 0, h)
    BY <2>1 DEF Walk
  <2>3. QED
    BY <2>2
<1>4. m \in Nat /\ m - 1 \in Nat /\ ~ (m <= m - 1)
  BY <1>3
<1>5. PICK h : Walk(D, m - 1, h)
  BY <1>2, <1>4
<1> DEFINE g == [i \in 1 .. m |-> IF i = m THEN (IF m = 1 THEN 0 ELSE Following(D, h[m - 1])) ELSE h[i]]
<1>6. ASSUME NEW i \in 1 .. m PROVE g[i] = IF i = 1 THEN 0 ELSE Following(D, g[i - 1])
  <2>1. CASE i = m
    <3>1. m # 1 => m - 1 \in 1 .. m /\ m - 1 # m
      BY <1>4
    <3>2. m # 1 => g[m - 1] = h[m - 1]
      BY <3>1
    <3>3. QED
      BY <2>1, <3>2
  <2>2. CASE i # m
    <3>1. i \in 1 .. m - 1 /\ (i # 1 => i - 1 \in 1 .. m /\ i - 1 # m)
      BY <2>2, <1>4
    <3>2. h[i] = IF i = 1 THEN 0 ELSE Following(D, h[i - 1])
      BY <1>5, <3>1 DEF Walk
    <3>3. g[i] = h[i] /\ (i # 1 => g[i - 1] = h[i - 1])
      BY <2>2, <3>1
    <3>4. QED
      BY <3>2, <3>3
  <2>3. QED
    BY <2>1, <2>2
<1>7. Walk(D, m, g)
  <2>1. g = [i \in 1 .. m |-> g[i]]
    OBVIOUS
  <2> HIDE DEF g
  <2>2. QED
    BY <1>6, <2>1 DEF Walk
<1>8. QED
  BY <1>2, <1>7

\* The pages before one of them.
Under(D, p) == {m \in DOMAIN D : m < p}

\* The chain from the root goes through all the pages, in the order of their numbers, to the one the
\* root's link back names.
LEMMA ChainIs ==
  ASSUME NEW D, Typed(D), Ring(D)
  PROVE  /\ IsFiniteSet(DOMAIN D) /\ Cardinality(DOMAIN D) \in Nat \ {0}
         /\ ChainOf(D) \in [1 .. Cardinality(DOMAIN D) -> DOMAIN D]
         /\ \A n \in DOMAIN D : \E i \in DOMAIN ChainOf(D) : ChainOf(D)[i] = n
         /\ \A i, j \in DOMAIN ChainOf(D) : ChainOf(D)[i] < ChainOf(D)[j] => i < j
         /\ ChainOf(D)[Cardinality(DOMAIN D)] = D[0].prev
         /\ \A i \in 2 .. Cardinality(DOMAIN D) : D[ChainOf(D)[i]].prev = ChainOf(D)[i - 1]
<1> DEFINE N == Cardinality(DOMAIN D)
           c == ChainOf(D)
<1>1. \A i \in DOMAIN D : i \in Nat /\ D[i].next \in DOMAIN D /\ D[i].prev \in DOMAIN D /\ i <= D[0].prev
                           /\ ((D[i].next = 0) <=> (i = D[0].prev))
  BY PagesAre DEF Ring
<1>2. \A i \in DOMAIN D : D[i].next # 0 => i < D[i].next /\ D[D[i].next].prev = i /\ \A m \in DOMAIN D : ~ (i < m /\ m < D[i].next)
  BY DEF Ring
<1>3. 0 \in DOMAIN D
  BY DEF Ring
<1>4. IsFiniteSet(DOMAIN D)
  <2> DEFINE l == D[0].prev
  <2>1. l \in DOMAIN D /\ \A i \in DOMAIN D : i \in Nat /\ i <= l
    BY <1>1, <1>3
  <2> HIDE DEF l
  <2>2. l \in Nat /\ l \in Int /\ 0 \in Int
    BY <2>1
  <2>3. DOMAIN D \subseteq 0 .. l
    BY <2>1, <2>2
  <2>4. IsFiniteSet(0 .. l)
    BY <2>2, FS_Interval
  <2>5. QED
    BY <2>3, <2>4, FS_Subset
<1>5. N \in Nat /\ N # 0
  <2>1. N \in Nat
    BY <1>4, FS_CardinalityType
  <2>2. QED
    BY <2>1, <1>3, <1>4, FS_EmptySet
<1>6. Walk(D, N, c)
  <2> DEFINE Upto(g) == g = [i \in 1 .. N |-> IF i = 1 THEN 0 ELSE IF D[g[i - 1]].next \in DOMAIN D THEN D[g[i - 1]].next ELSE 0]
  <2>1. c = CHOOSE g : Upto(g)
    BY DEF ChainOf
  <2>2. \A g : Upto(g) <=> Walk(D, N, g)
    BY DEF Walk, Following
  <2> HIDE DEF Upto, N, c
  <2>3. \E g : Upto(g)
    BY <2>2, <1>5, WalkExists
  <2>4. QED
    BY <2>1, <2>2, <2>3
<1> HIDE DEF N, c
<1>7. DOMAIN c = 1 .. N /\ c = [i \in 1 .. N |-> c[i]] /\ \A i \in 1 .. N : c[i] = IF i = 1 THEN 0 ELSE Following(D, c[i - 1])
  BY <1>6 DEF Walk
<1>8. ASSUME NEW p \in DOMAIN D PROVE IsFiniteSet(Under(D, p)) /\ Cardinality(Under(D, p)) \in Nat /\ Cardinality(Under(D, p)) < N
  <2>1. Under(D, p) \subseteq DOMAIN D /\ Under(D, p) # DOMAIN D
    <3>1. ~ (p < p)
      BY <1>1
    <3>2. QED
      BY <3>1 DEF Under
  <2>2. IsFiniteSet(Under(D, p)) /\ Cardinality(Under(D, p)) <= N /\ (N = Cardinality(Under(D, p)) => Under(D, p) = DOMAIN D)
    BY <2>1, <1>4, FS_Subset DEF N
  <2>3. Cardinality(Under(D, p)) \in Nat
    BY <2>2, FS_CardinalityType
  <2>4. QED
    BY <2>1, <2>2, <2>3, <1>5
<1>9. ASSUME NEW p \in DOMAIN D, D[p].next # 0
      PROVE  Cardinality(Under(D, D[p].next)) = Cardinality(Under(D, p)) + 1
  <2>1. Under(D, D[p].next) = Under(D, p) \cup {p} /\ p \notin Under(D, p)
    <3>1. ASSUME NEW m \in DOMAIN D PROVE (m < D[p].next) <=> (m < p \/ m = p)
      <4>1. m \in Nat /\ p \in Nat /\ D[p].next \in Nat /\ p < D[p].next /\ ~ (p < m /\ m < D[p].next)
        BY <1>1, <1>2, <1>9
      <4>2. QED
        BY <4>1
    <3>2. ~ (p < p)
      BY <1>1
    <3>3. QED
      BY <3>1, <3>2 DEF Under
  <2>2. QED
    BY <2>1, <1>8, FS_AddElement
<1>10. ASSUME NEW p \in DOMAIN D, D[p].next = 0 PROVE Cardinality(Under(D, p)) + 1 = N
  <2>1. DOMAIN D = Under(D, p) \cup {p} /\ p \notin Under(D, p)
    <3>1. \A m \in DOMAIN D : m \in Nat /\ p \in Nat /\ m <= p
      BY <1>1, <1>10
    <3>2. \A m \in DOMAIN D : m < p \/ m = p
      BY <3>1
    <3>3. ~ (p < p)
      BY <1>1
    <3>4. QED
      BY <3>2, <3>3 DEF Under
  <2>2. QED
    BY <2>1, <1>8, FS_AddElement DEF N
<1> DEFINE Met(i) == c[i] \in DOMAIN D /\ Cardinality(Under(D, c[i])) = i - 1
           Bad == {i \in 1 .. N : ~ Met(i)}
<1>11. Bad = {}
  <2>1. SUFFICES ASSUME Bad # {} PROVE FALSE
    OBVIOUS
  <2>2. Bad \in SUBSET Nat
    BY <1>5
  <2>3. PICK i \in Bad : \A k \in Bad : i <= k
    BY <2>1, <2>2, LeastNatural
  <2>4. i \in 1 .. N /\ ~ Met(i)
    BY <2>3
  <2>5. CASE i = 1
    <3>1. c[i] = 0
      BY <2>4, <2>5, <1>7
    <3>2. Under(D, 0) = {}
      BY <1>1 DEF Under
    <3>3. Cardinality(Under(D, 0)) = 0
      BY <3>2, FS_EmptySet
    <3>4. QED
      BY <2>4, <2>5, <3>1, <3>3, <1>3
  <2>6. CASE i # 1
    <3>1. i - 1 \in 1 .. N /\ ~ (i <= i - 1) /\ i \in Nat
      BY <2>4, <2>6, <1>5
    <3>2. Met(i - 1)
      BY <2>3, <3>1
    <3> DEFINE p == c[i - 1]
    <3>3. p \in DOMAIN D /\ Cardinality(Under(D, p)) = (i - 1) - 1
      BY <3>2
    <3> HIDE DEF Met, p
    <3>4. D[p].next # 0
      BY <2>4, <3>1, <3>3, <1>5, <1>10
    <3>5. D[p].next \in DOMAIN D /\ Cardinality(Under(D, D[p].next)) = i - 1
      <4>1. D[p].next \in DOMAIN D
        BY <3>3, <1>1
      <4>2. Cardinality(Under(D, D[p].next)) = ((i - 1) - 1) + 1
        BY <3>3, <3>4, <1>9
      <4>3. ((i - 1) - 1) + 1 = i - 1
        BY <3>1
      <4>4. QED
        BY <4>1, <4>2, <4>3
    <3>6. c[i] = D[p].next
      BY <2>4, <2>6, <3>5, <1>7 DEF p, Following
    <3>7. QED
      BY <2>4, <3>5, <3>6 DEF Met
  <2>7. QED
    BY <2>5, <2>6
<1>12. \A i \in 1 .. N : c[i] \in DOMAIN D /\ Cardinality(Under(D, c[i])) = i - 1
  BY <1>11
<1> HIDE DEF Met, Bad
<1>13. c \in [1 .. N -> DOMAIN D]
  BY <1>7, <1>12
<1>14. ASSUME NEW p \in DOMAIN D, NEW q \in DOMAIN D, p < q PROVE Cardinality(Under(D, p)) < Cardinality(Under(D, q))
  <2>1. Under(D, p) \subseteq Under(D, q) /\ p \in Under(D, q) /\ p \notin Under(D, p)
    <3>1. p \in Nat /\ q \in Nat /\ \A m \in DOMAIN D : m \in Nat
      BY <1>1
    <3>2. QED
      BY <3>1, <1>14 DEF Under
  <2>2. Cardinality(Under(D, p)) <= Cardinality(Under(D, q)) /\ Cardinality(Under(D, p)) # Cardinality(Under(D, q))
    BY <2>1, <1>8, FS_Subset
  <2>3. QED
    BY <2>2, <1>8
<1>15. ASSUME NEW n \in DOMAIN D PROVE \E i \in 1 .. N : c[i] = n
  <2> DEFINE i == Cardinality(Under(D, n)) + 1
  <2>1. i \in 1 .. N /\ i - 1 = Cardinality(Under(D, n))
    BY <1>5, <1>8
  <2> HIDE DEF i
  <2>2. c[i] \in DOMAIN D /\ Cardinality(Under(D, c[i])) = Cardinality(Under(D, n))
    BY <2>1, <1>12
  <2>3. ~ (c[i] < n) /\ ~ (n < c[i])
    <3>1. Cardinality(Under(D, n)) \in Nat
      BY <1>8
    <3>2. QED
      BY <2>2, <3>1, <1>14
  <2>4. c[i] \in Nat /\ n \in Nat
    BY <2>2, <1>1
  <2>5. QED
    BY <2>1, <2>3, <2>4
<1>16. ASSUME NEW i \in 1 .. N, NEW j \in 1 .. N, c[i] < c[j] PROVE i < j
  <2>1. Cardinality(Under(D, c[i])) < Cardinality(Under(D, c[j]))
    BY <1>12, <1>14, <1>16
  <2>2. i - 1 < j - 1
    BY <2>1, <1>12
  <2>3. QED
    BY <2>2
<1>17. c[N] = D[0].prev
  <2>1. N \in 1 .. N
    BY <1>5
  <2>2. c[N] \in DOMAIN D /\ Cardinality(Under(D, c[N])) = N - 1
    BY <2>1, <1>12
  <2>3. CASE D[c[N]].next # 0
    <3>1. Cardinality(Under(D, D[c[N]].next)) = (N - 1) + 1 /\ D[c[N]].next \in DOMAIN D
      BY <2>2, <2>3, <1>1, <1>9
    <3>2. Cardinality(Under(D, D[c[N]].next)) < N
      BY <3>1, <1>8
    <3>3. QED
      BY <3>1, <3>2, <1>5
  <2>4. QED
    BY <2>2, <2>3, <1>1
<1>18. ASSUME NEW i \in 2 .. N PROVE D[c[i]].prev = c[i - 1]
  <2>1. i - 1 \in 1 .. N /\ i \in 1 .. N /\ i # 1 /\ i \in Nat
    BY <1>5
  <2> DEFINE p == c[i - 1]
  <2>2. p \in DOMAIN D /\ Cardinality(Under(D, p)) = (i - 1) - 1
    BY <2>1, <1>12
  <2>3. D[p].next # 0
    <3> HIDE DEF p
    <3>1. QED
      BY <2>1, <2>2, <1>5, <1>10
  <2>4. c[i] = D[p].next
    BY <2>1, <2>2, <1>1, <1>7 DEF Following
  <2>5. QED
    BY <2>2, <2>3, <2>4, <1>2
<1>19. QED
  BY <1>4, <1>5, <1>7, <1>13, <1>15, <1>16, <1>17, <1>18 DEF N, c

-------------------------------------------------------------------------------
(* A removal *)

\* No page but the root stands empty, except the one of old while it is the last.
EmptyLast(D, n) == \A i \in DOMAIN D \ {0} : D[i].entries = <<>> => i = n /\ i = D[0].prev

\* The entries a page is left with when o goes from page n.
Left(D, n, o, i) == IF i = n THEN Without(D[n].entries, o) ELSE D[i].entries

\* A ring of which the root names no page after it is the root alone.
LEMMA RootAlone ==
  ASSUME NEW D, Typed(D), Ring(D), D[0].next = 0
  PROVE  DOMAIN D = {0}
<1>1. 0 \in DOMAIN D /\ D[0].prev = 0
  BY DEF Ring
<1>2. \A i \in DOMAIN D : i \in Nat /\ i <= 0
  BY <1>1, PagesAre DEF Ring
<1>3. QED
  BY <1>1, <1>2

\* A page erased leaves pages.
LEMMA EraseTyped ==
  ASSUME NEW D, Typed(D), NEW n
  PROVE  Typed(Erase(D, n))
<1>1. DOMAIN Erase(D, n) = DOMAIN D \ {n} /\ \A i \in DOMAIN D \ {n} : Erase(D, n)[i] = D[i]
  BY EraseIs
<1>2. Erase(D, n) = [i \in DOMAIN D \ {n} |-> Erase(D, n)[i]]
  BY <1>1 DEF Erase, Restrict
<1>3. \A i \in DOMAIN D \ {n} : D[i] \in PageType /\ i \in Nat
  BY DEF Typed
<1>4. QED
  BY <1>1, <1>2, <1>3 DEF Typed

\* What a removal leaves: pages in a ring or none, the entries that stay where they were, and no
\* page without entries but the one of old that still follows another.
Removal(D, E, n, o, b) ==
  /\ Typed(E) /\ (DOMAIN E = {} \/ Ring(E)) /\ DOMAIN E \subseteq DOMAIN D
  /\ \A i \in DOMAIN E : E[i].entries = Left(D, n, o, i)
  /\ \A i \in DOMAIN D \ DOMAIN E : Left(D, n, o, i) = <<>>
  /\ EmptyLast(E, b)
  /\ (\A i \in DOMAIN D : Left(D, n, o, i) = <<>>) => DOMAIN E \subseteq {0}

\* From the root.
LEMMA RemovedFromRoot ==
  ASSUME NEW D, Typed(D), Ring(D), NEW o, In(D[0].entries, o), NEW b, EmptyLast(D, b), NEW keep \in BOOLEAN
  PROVE  Removal(D, RemovedAt(D, 0, o, keep), 0, o, b)
<1> DEFINE w == Without(D[0].entries, o)
           p == DirPage(w, D[0].next, D[0].prev)
           E == RemovedAt(D, 0, o, keep)
<1>1. 0 \in DOMAIN D /\ D[0].next \in DOMAIN D /\ D[0].prev \in DOMAIN D /\ \A i \in DOMAIN D : i <= D[0].prev /\ i \in Nat
  BY PagesAre DEF Ring
<1>2. w \in Seq(Nat) /\ D[0].next \in Nat /\ D[0].prev \in Nat
  BY <1>1, PagesAre, WithoutIs
<1> HIDE DEF w
<1>3. p.entries = w /\ p.next = D[0].next /\ p.prev = D[0].prev
  BY <1>2, PageIs
<1>4. E = RootEmptied(D, p, keep)
  BY DEF RemovedAt, w
<1>5. \A i : Left(D, 0, o, i) = IF i = 0 THEN w ELSE D[i].entries
  BY DEF Left, w
<1> HIDE DEF p, E
<1>6. CASE RootLetsGo(D, p)
  <2> DEFINE x == D[0].next
  <2>1. w = <<>> /\ x = D[0].prev /\ x # 0 /\ x \in DOMAIN D /\ D[x].entries = <<>>
    BY <1>3, <1>6 DEF RootLetsGo, Bare
  <2>2. DOMAIN D = {0, x}
    <3>1. \A m \in DOMAIN D : ~ (0 < m /\ m < x)
      BY <2>1, <1>1 DEF Ring
    <3>2. ASSUME NEW m \in DOMAIN D PROVE m = 0 \/ m = x
      <4>1. m <= x /\ m \in Nat /\ x \in Nat
        BY <2>1, <1>1
      <4>2. QED
        BY <3>1, <4>1
    <3>3. QED
      BY <3>2, <1>1
  <2>3. \A i \in DOMAIN D : Left(D, 0, o, i) = <<>>
    BY <2>1, <2>2, <1>5
  <2>4. CASE keep
    <3> DEFINE r == DirPage(<<>>, 0, 0)
    <3>1. E = Put(Erase(D, x), 0, r)
      BY <2>4, <1>3, <1>4, <1>6 DEF RootEmptied
    <3>2. r \in PageType /\ r.entries = <<>> /\ r.next = 0 /\ r.prev = 0
      <4>1. <<>> \in Seq(Nat) /\ 0 \in Nat
        BY EmptySeq
      <4>2. QED
        BY <4>1 DEF DirPage, PageType
    <3> HIDE DEF r
    <3>3. DOMAIN Erase(D, x) = {0}
      BY <2>1, <2>2, EraseIs
    <3>4. DOMAIN E = {0} /\ E[0] = r /\ E = [i \in {0} |-> r]
      BY <3>1, <3>3 DEF Put
    <3>5. Typed(E) /\ Ring(E)
      <4>1. E[0].next = 0 /\ E[0].prev = 0
        BY <3>2, <3>4
      <4>2. Typed(E)
        BY <3>2, <3>4 DEF Typed
      <4>3. \A i \in DOMAIN E : i = 0 /\ E[i].next = 0 /\ E[i].prev = 0
        BY <3>4, <4>1
      <4>4. 0 \in DOMAIN E /\ 0 <= 0 /\ E[0].prev = 0
        BY <3>4, <4>1
      <4>5. Ring(E)
        BY <4>3, <4>4 DEF Ring
      <4>6. QED
        BY <4>2, <4>5
    <3>6. EmptyLast(E, b)
      BY <3>4 DEF EmptyLast
    <3>7. E[0].entries = <<>>
      BY <3>2, <3>4
    <3>8. QED
      BY <3>4, <3>5, <3>6, <3>7, <2>3, <1>1 DEF Removal, E
  <2>5. CASE ~ keep
    <3>1. E = Erase(Erase(D, x), 0)
      BY <2>5, <1>3, <1>4, <1>6 DEF RootEmptied
    <3>2. DOMAIN E = {}
      BY <3>1, <2>2, EraseIs
    <3>3. Typed(E)
      BY <3>1, EraseTyped
    <3>4. QED
      BY <3>2, <3>3, <2>3 DEF Removal, EmptyLast, E
  <2>6. QED
    BY <2>4, <2>5
<1>7. CASE ~ RootLetsGo(D, p) /\ Alone(p) /\ ~ keep
  <2>1. E = Erase(D, 0)
    BY <1>4, <1>7 DEF RootEmptied
  <2>2. DOMAIN D = {0} /\ w = <<>>
    BY <1>3, <1>7, RootAlone DEF Alone
  <2>3. DOMAIN E = {} /\ Typed(E)
    BY <2>1, <2>2, EraseIs, EraseTyped
  <2>4. QED
    BY <2>2, <2>3, <1>5 DEF Removal, EmptyLast, E
<1>8. CASE ~ RootLetsGo(D, p) /\ ~ (Alone(p) /\ ~ keep)
  <2>1. E = Put(D, 0, p)
    BY <1>4, <1>8 DEF RootEmptied
  <2>2. Typed(E) /\ Ring(E)
    BY <2>1, <1>1, <1>2, PutKeepsRing DEF p
  <2>3. DOMAIN E = DOMAIN D /\ E[0] = p /\ \A i \in DOMAIN D : i # 0 => E[i] = D[i]
    BY <2>1, <1>1 DEF Put
  <2>4. E[0].prev = D[0].prev /\ \A i \in DOMAIN E : E[i].entries = Left(D, 0, o, i)
    BY <2>3, <1>3, <1>5
  <2>5. EmptyLast(E, b)
    BY <2>3, <2>4 DEF EmptyLast
  <2>6. ASSUME \A i \in DOMAIN D : Left(D, 0, o, i) = <<>> PROVE DOMAIN E \subseteq {0}
    <3>1. p.entries = <<>> /\ \A i \in DOMAIN D : i # 0 => i = D[0].prev /\ D[i].entries = <<>>
      BY <2>6, <1>1, <1>3, <1>5 DEF EmptyLast
    <3>2. D[0].next = 0
      <4>1. SUFFICES ASSUME D[0].next # 0 PROVE FALSE
        OBVIOUS
      <4>2. D[0].next = D[0].prev /\ D[D[0].next].entries = <<>>
        BY <3>1, <4>1, <1>1
      <4>3. RootLetsGo(D, p)
        BY <3>1, <4>1, <4>2, <1>1, <1>3 DEF RootLetsGo, Bare
      <4>4. QED
        BY <4>3, <1>8
    <3>3. QED
      BY <3>2, <2>3, RootAlone
  <2>7. QED
    BY <2>2, <2>3, <2>4, <2>5, <2>6 DEF Removal, E
<1>9. QED
  BY <1>6, <1>7, <1>8

\* From a page that keeps others.
LEMMA RemovedFromPage ==
  ASSUME NEW D, Typed(D), Ring(D), NEW n \in DOMAIN D, n # 0, NEW o, In(D[n].entries, o), NEW b, EmptyLast(D, b),
         NEW keep \in BOOLEAN, Without(D[n].entries, o) # <<>>
  PROVE  Removal(D, RemovedAt(D, n, o, keep), n, o, b)
<1> DEFINE w == Without(D[n].entries, o)
           p == DirPage(w, D[n].next, D[n].prev)
           E == RemovedAt(D, n, o, keep)
<1>1. w \in Seq(Nat) /\ D[n].next \in Nat /\ D[n].prev \in Nat /\ w # <<>>
  BY PagesAre, WithoutIs
<1>2. \A i : Left(D, n, o, i) = IF i = n THEN w ELSE D[i].entries
  BY DEF Left
<1> HIDE DEF w
<1>3. p.entries = w /\ p.next = D[n].next /\ p.prev = D[n].prev
  BY <1>1, PageIs
<1>4. E = Put(D, n, p)
  BY <1>1, <1>3 DEF RemovedAt, w
<1> HIDE DEF E
<1>5. Typed(E) /\ Ring(E)
  BY <1>1, <1>4, PutKeepsRing
<1> HIDE DEF p
<1>6. DOMAIN E = DOMAIN D /\ E[n] = p /\ \A i \in DOMAIN D : i # n => E[i] = D[i]
  BY <1>4 DEF Put
<1>7. E[0].prev = D[0].prev /\ \A i \in DOMAIN E : E[i].entries = Left(D, n, o, i)
  <2>1. 0 \in DOMAIN D
    BY DEF Ring
  <2>2. QED
    BY <2>1, <1>2, <1>3, <1>6
<1>8. EmptyLast(E, b)
  BY <1>1, <1>3, <1>6, <1>7 DEF EmptyLast
<1>9. Left(D, n, o, n) # <<>>
  BY <1>1, <1>2
<1>10. QED
  BY <1>5, <1>6, <1>7, <1>8, <1>9 DEF Removal, E

\* Its last entry gone, a page goes, with the empty page of old when that is the one after it.
LEMMA RemovedWithPage ==
  ASSUME NEW D, Typed(D), Ring(D), NEW n \in DOMAIN D, n # 0, NEW o, In(D[n].entries, o), NEW b, EmptyLast(D, b),
         NEW keep \in BOOLEAN, Without(D[n].entries, o) = <<>>
  PROVE  Removal(D, RemovedAt(D, n, o, keep), n, o, b)
<1> DEFINE w == Without(D[n].entries, o)
           p == D[n].prev
           x == D[n].next
           l == D[0].prev
           U == Unlinked(D, n)
           T == ThenLast(U, p, x)
           E == RemovedAt(D, n, o, keep)
<1>1. E = ThenRoot(T, keep)
  <2>1. DirPage(w, D[n].next, D[n].prev).entries = <<>>
    BY DEF DirPage
  <2>2. QED
    BY <2>1 DEF RemovedAt, PageEmptied
<1>2. \A i : Left(D, n, o, i) = IF i = n THEN <<>> ELSE D[i].entries
  BY DEF Left
<1>3. /\ 0 \in DOMAIN D /\ l \in DOMAIN D /\ x \in DOMAIN D /\ p \in DOMAIN D
      /\ \A i \in DOMAIN D : i \in Nat /\ i <= l /\ ((D[i].next = 0) <=> (i = l))
  BY PagesAre DEF Ring
<1>4. x # 0 => n < x /\ \A m \in DOMAIN D : ~ (n < m /\ m < x)
  BY DEF Ring
<1>5. p < n
  BY DEF Ring
<1>6. Typed(U) /\ Ring(U) /\ DOMAIN U = DOMAIN D \ {n} /\ \A i \in DOMAIN D \ {n} : U[i].entries = D[i].entries
  BY UnlinkedKeepsRing
<1>7. x # 0 => U[x].prev = p /\ x # n
  <2>1. SUFFICES ASSUME x # 0 PROVE U[x].prev = p /\ x # n
    OBVIOUS
  <2>2. x # n /\ x \in DOMAIN D \ {n}
    BY <2>1, <1>3, <1>4
  <2>3. U[x] = DirPage(D[x].entries, IF x = p THEN x ELSE D[x].next, p)
    BY <2>1, <2>2 DEF Unlinked
  <2>4. DirPage(D[x].entries, IF x = p THEN x ELSE D[x].next, p).prev = p
    BY DEF DirPage
  <2>5. QED
    BY <2>2, <2>3, <2>4
<1>8. \A i \in DOMAIN U : U[i].next = IF i = p THEN x ELSE D[i].next
  BY DEF Unlinked, DirPage
<1>9. l # n => U[0].prev = l
  <2>1. SUFFICES ASSUME l # n PROVE U[0].prev = l
    OBVIOUS
  <2>2. 0 \in DOMAIN D \ {n}
    BY <1>3
  <2>3. U[0] = DirPage(D[0].entries, IF 0 = p THEN x ELSE D[0].next, l)
    BY <2>1, <2>2 DEF Unlinked
  <2>4. DirPage(D[0].entries, IF 0 = p THEN x ELSE D[0].next, l).prev = l
    BY DEF DirPage
  <2>5. QED
    BY <2>3, <2>4
<1> HIDE DEF U, T, E, p, x, l, w
\* The ring after that, whether or not the page after it went too.
<1> DEFINE Kept(F) == /\ Typed(F) /\ Ring(F) /\ DOMAIN F \subseteq DOMAIN D
                      /\ \A i \in DOMAIN F : F[i].entries = Left(D, n, o, i)
                      /\ \A i \in DOMAIN D \ DOMAIN F : Left(D, n, o, i) = <<>>
                      /\ EmptyLast(F, b)
                      /\ (\A i \in DOMAIN D : Left(D, n, o, i) = <<>>) => DOMAIN F \subseteq {0}
<1>10. ASSUME LastLetsGo(U, x) PROVE Kept(T)
  <2>1. x # 0 /\ x \in DOMAIN U /\ U[x].next = 0 /\ U[x].entries = <<>>
    BY <1>10 DEF LastLetsGo, Bare
  <2>2. T = Unlinked(U, x)
    BY <2>1, <1>6, <1>7, LastIsUnlinked DEF T
  <2>3. /\ Typed(T) /\ Ring(T) /\ DOMAIN T = DOMAIN U \ {x}
        /\ \A i \in DOMAIN U \ {x} : T[i].entries = U[i].entries
    BY <2>1, <2>2, <1>6, UnlinkedKeepsRing
  <2>4. D[x].entries = <<>> /\ x = l
    <3>1. x # p
      BY <2>1, <1>3, <1>4, <1>5
    <3>2. QED
      BY <2>1, <3>1, <1>3, <1>6, <1>8
  <2>5. \A i \in DOMAIN T : i \in DOMAIN D /\ i # n /\ i # x /\ T[i].entries = D[i].entries
    BY <2>3, <1>6
  <2>6. \A i \in DOMAIN T \ {0} : T[i].entries # <<>>
    BY <2>4, <2>5 DEF EmptyLast, l
  <2>7. \A i \in DOMAIN T : T[i].entries = Left(D, n, o, i)
    BY <2>5, <1>2
  <2>8. \A i \in DOMAIN D \ DOMAIN T : Left(D, n, o, i) = <<>>
    BY <2>3, <2>4, <1>2, <1>6
  <2>9. DOMAIN T \subseteq DOMAIN D
    BY <2>5
  <2>10. (\A i \in DOMAIN D : Left(D, n, o, i) = <<>>) => DOMAIN T \subseteq {0}
    BY <2>6, <2>7, <2>9
  <2>11. EmptyLast(T, b)
    BY <2>6 DEF EmptyLast
  <2>12. QED
    BY <2>3, <2>7, <2>8, <2>9, <2>10, <2>11
<1>11. ASSUME ~ LastLetsGo(U, x) PROVE Kept(T)
  <2>1. T = U
    BY <1>11 DEF ThenLast, T
  <2>2. \A i \in DOMAIN U : i \in DOMAIN D /\ i # n /\ U[i].entries = D[i].entries /\ U[i].entries = Left(D, n, o, i)
    BY <1>2, <1>6
  <2>3. \A i \in DOMAIN D \ DOMAIN U : Left(D, n, o, i) = <<>>
    BY <1>2, <1>6
  <2>4. \A i \in DOMAIN U \ {0} : U[i].entries = <<>> => i = b /\ i = l /\ l # n
    BY <2>2 DEF EmptyLast, l
  <2>5. EmptyLast(U, b)
    BY <2>4, <1>9 DEF EmptyLast
  <2>6. ASSUME \A i \in DOMAIN D : Left(D, n, o, i) = <<>> PROVE DOMAIN U \subseteq {0}
    <3>1. SUFFICES ASSUME NEW i \in DOMAIN U, i # 0 PROVE FALSE
      OBVIOUS
    <3>2. U[i].entries = <<>> /\ i = l /\ l # n /\ i \in DOMAIN D
      BY <2>2, <2>4, <2>6, <3>1
    <3>3. \A m \in DOMAIN U : m = 0 \/ m = i
      BY <2>2, <2>4, <2>6, <3>2
    <3>4. D[n].next # 0
      BY <3>2, <1>3
    <3>5. x # 0 /\ x # n
      BY <3>4, <1>7 DEF x
    <3>6. x = i
      BY <3>3, <3>5, <1>3, <1>6
    <3>7. U[i].next = 0
      BY <3>1, <3>2, <1>6, <1>9 DEF Ring
    <3>8. LastLetsGo(U, x)
      BY <3>1, <3>2, <3>5, <3>6, <3>7 DEF LastLetsGo, Bare
    <3>9. QED
      BY <3>8, <1>11
  <2>7. DOMAIN U \subseteq DOMAIN D
    BY <2>2
  <2>8. Kept(U)
    BY <2>2, <2>3, <2>5, <2>6, <2>7, <1>6
  <2>9. QED
    BY <2>1, <2>8
<1>12. Kept(T)
  BY <1>10, <1>11
<1>13. CASE Alone(T[0]) /\ ~ keep
  <2>1. E = Erase(T, 0)
    BY <1>1, <1>13 DEF ThenRoot
  <2>2. DOMAIN T = {0}
    BY <1>12, <1>13, RootAlone DEF Alone
  <2>3. DOMAIN E = {} /\ Typed(E)
    BY <2>1, <2>2, <1>12, EraseIs, EraseTyped
  <2>4. Left(D, n, o, 0) = <<>>
    BY <2>2, <1>12, <1>13 DEF Alone
  <2>5. \A i \in DOMAIN D \ DOMAIN E : Left(D, n, o, i) = <<>>
    <3>1. \A i \in DOMAIN D : i \in DOMAIN T => i = 0
      BY <2>2
    <3>2. QED
      BY <2>4, <3>1, <1>12
  <2>6. EmptyLast(E, b)
    BY <2>3 DEF EmptyLast
  <2>7. QED
    BY <2>3, <2>5, <2>6 DEF Removal, E
<1>14. CASE ~ (Alone(T[0]) /\ ~ keep)
  <2>1. E = T
    BY <1>1, <1>14 DEF ThenRoot
  <2>2. QED
    BY <2>1, <1>12 DEF Removal, E
<1>15. QED
  BY <1>13, <1>14

\* From whichever page.
LEMMA RemovedIs ==
  ASSUME NEW D, Typed(D), Ring(D), NEW n \in DOMAIN D, NEW o, In(D[n].entries, o), NEW b, EmptyLast(D, b),
         NEW keep \in BOOLEAN
  PROVE  Removal(D, RemovedAt(D, n, o, keep), n, o, b)
BY RemovedFromRoot, RemovedFromPage, RemovedWithPage

-------------------------------------------------------------------------------
(* The invariant *)

\* Each page holds, once each, the objects that recorded its number.
Holds(D, a) ==
  /\ \A n \in DOMAIN D : Distinct(D[n].entries) /\ Len(D[n].entries) <= DIR_MAX
  /\ \A n \in DOMAIN D : \A e : In(D[n].entries, e) <=> (e \in DOMAIN a /\ a[e] = n)
  /\ \A e \in DOMAIN a : a[e] \in DOMAIN D

\* One entry of a page stands before another.
Earlier(q, x, y) == \E k, l \in DOMAIN q : k < l /\ q[k] = x /\ q[l] = y

\* The order the objects came in is that of their pages, and on a page that of its entries.
ByArrival(D, a, s) ==
  \A i, j \in DOMAIN s : i < j =>
    a[s[i]] < a[s[j]] \/ (a[s[i]] = a[s[j]] /\ Earlier(D[a[s[i]]].entries, s[i], s[j]))

\* The objects in the order they came, each once; an owner's pages are each in the order of the keys.
Ordered(D, a, s, b) ==
  /\ s \in Seq(Nat) /\ Distinct(s) /\ \A e : In(s, e) <=> e \in DOMAIN a
  /\ IF b THEN ByArrival(D, a, s) ELSE \A n \in DOMAIN D : Rising(D[n].entries)

\* The inductive invariant of a directory.
DirInv ==
  /\ Typed(dir) /\ (Pages = {} \/ Ring(dir))
  /\ Holds(dir, at)
  /\ EmptyLast(dir, old) /\ (DOMAIN at = {} => Pages \subseteq {0})
  /\ Ordered(dir, at, added, book) /\ book \in BOOLEAN

\* The page an object is looked for on is the one it recorded.
LEMMA FoundOnItsPage ==
  ASSUME NEW D, Typed(D), Ring(D), NEW a, Holds(D, a), NEW o \in DOMAIN a, NEW hint \in {a[o], NoHint}
  PROVE  FoundOn(D, hint, o) = a[o]
<1> DEFINE c == ChainOf(D)
           First(i) == i \in DOMAIN c /\ On(D, c[i], o) /\ \A j \in 1 .. i - 1 : ~ On(D, c[j], o)
<1>1. \A n : On(D, n, o) <=> n \in DOMAIN D /\ a[o] = n
  BY InRange DEF On, Holds
<1>2. a[o] \in DOMAIN D /\ a[o] \in Nat
  BY PagesAre DEF Holds
<1>3. CASE hint # NoHint
  BY <1>1, <1>2, <1>3 DEF FoundOn
<1>4. CASE hint = NoHint /\ On(D, D[0].prev, o)
  BY <1>1, <1>4 DEF FoundOn
<1>5. CASE hint = NoHint /\ ~ On(D, D[0].prev, o)
  <2>1. FoundOn(D, hint, o) = c[CHOOSE i \in DOMAIN c : On(D, c[i], o) /\ \A j \in 1 .. i - 1 : ~ On(D, c[j], o)]
    BY <1>5 DEF FoundOn
  <2> DEFINE N == Cardinality(DOMAIN D)
  <2>2. /\ N \in Nat \ {0} /\ c \in [1 .. N -> DOMAIN D]
        /\ \E i \in DOMAIN c : c[i] = a[o]
        /\ \A i, j \in DOMAIN c : c[i] < c[j] => i < j
    BY <1>2, ChainIs
  <2> HIDE DEF c, N
  <2>3. DOMAIN c = 1 .. N
    BY <2>2
  <2> DEFINE S == {i \in 1 .. N : On(D, c[i], o)}
  <2>4. S \in SUBSET Nat /\ S # {}
    BY <2>2, <2>3, <1>1, <1>2
  <2>5. PICK i \in S : \A k \in S : i <= k
    BY <2>4, LeastNatural
  <2>6. \A j \in 1 .. i - 1 : ~ On(D, c[j], o)
    <3>1. ASSUME NEW j \in 1 .. i - 1 PROVE ~ On(D, c[j], o)
      <4>1. i \in 1 .. N /\ j \in 1 .. N /\ ~ (i <= j)
        BY <2>2, <2>5
      <4>2. QED
        BY <4>1, <2>5
    <3>2. QED
      BY <3>1
  <2>7. \E k \in DOMAIN c : On(D, c[k], o) /\ \A j \in 1 .. k - 1 : ~ On(D, c[j], o)
    BY <2>3, <2>5, <2>6
  <2>8. PICK k \in DOMAIN c : /\ On(D, c[k], o)
                              /\ k = CHOOSE m \in DOMAIN c : On(D, c[m], o) /\ \A j \in 1 .. m - 1 : ~ On(D, c[j], o)
    BY <2>7
  <2>9. QED
    BY <2>1, <2>8, <1>1
<1>6. QED
  BY <1>3, <1>4, <1>5

\* A removal keeps the promises.
LEMMA RemovalKeeps ==
  ASSUME NEW D, Typed(D), Ring(D), NEW a, Holds(D, a), NEW s, NEW b \in BOOLEAN, Ordered(D, a, s, b),
         NEW o \in DOMAIN a, NEW m, NEW E, Removal(D, E, a[o], o, m)
  PROVE  /\ Holds(E, Erase(a, o)) /\ (DOMAIN Erase(a, o) = {} => DOMAIN E \subseteq {0})
         /\ Ordered(E, Erase(a, o), Without(s, o), b)
<1> DEFINE n == a[o]
           z == Erase(a, o)
           t == Without(s, o)
           left(i) == Left(D, n, o, i)
<1>1. n \in DOMAIN D /\ In(D[n].entries, o)
  BY DEF Holds
<1>2. \A i \in DOMAIN D : D[i].entries \in Seq(Nat) /\ Distinct(D[i].entries) /\ Len(D[i].entries) <= DIR_MAX /\ Len(D[i].entries) \in Nat
  BY PagesAre, LenProperties DEF Holds
<1>3. DOMAIN z = DOMAIN a \ {o} /\ \A e \in DOMAIN a \ {o} : z[e] = a[e]
  BY EraseIs
<1>4. DIR_MAX \in Nat
  BY DirMaxAssumption
<1>5. ASSUME NEW i \in DOMAIN D
      PROVE  /\ left(i) \in Seq(Nat) /\ Distinct(left(i)) /\ Len(left(i)) <= DIR_MAX
             /\ (Rising(D[i].entries) => Rising(left(i)))
             /\ \A e : In(left(i), e) <=> (In(D[i].entries, e) /\ ~ (i = n /\ e = o))
             /\ \A x, y : Earlier(D[i].entries, x, y) /\ ~ (i = n /\ (x = o \/ y = o)) => Earlier(left(i), x, y)
  <2>1. CASE i # n
    BY <2>1, <1>2 DEF Left
  <2>2. CASE i = n
    <3> DEFINE q == D[n].entries
               w == Without(q, o)
    <3>1. left(i) = w
      BY <2>2 DEF Left
    <3>2. q \in Seq(Nat) /\ Distinct(q) /\ In(q, o) /\ Len(q) <= DIR_MAX /\ Len(q) \in Nat
      BY <1>1, <1>2
    <3> HIDE DEF q
    <3>3. w \in Seq(Nat) /\ Len(w) = Len(q) - 1
      BY <3>2, WithoutIs
    <3>4. Distinct(w) /\ (Rising(q) => Rising(w)) /\ \A e : In(w, e) <=> (In(q, e) /\ e # o)
      BY <3>2, WithoutKeeps
    <3>5. \A k, l \in DOMAIN w : k < l => \E i1, j1 \in DOMAIN q : i1 < j1 /\ q[i1] = w[k] /\ q[j1] = w[l]
      BY <3>2, WithoutKeeps
    <3>6. Len(w) <= DIR_MAX
      BY <3>2, <3>3, <1>4
    <3> HIDE DEF w
    <3>7. ASSUME NEW x, NEW y, Earlier(q, x, y), x # o, y # o PROVE Earlier(w, x, y)
      <4>1. PICK k1 \in DOMAIN q, l1 \in DOMAIN q : k1 < l1 /\ q[k1] = x /\ q[l1] = y
        BY <3>7 DEF Earlier
      <4>2. In(w, x) /\ In(w, y)
        BY <4>1, <3>4, <3>7 DEF In
      <4>3. PICK k \in DOMAIN w, l \in DOMAIN w : w[k] = x /\ w[l] = y
        BY <4>2 DEF In
      <4>4. DOMAIN q \subseteq Nat /\ DOMAIN w \subseteq Nat
        BY <3>2, <3>3, LenProperties
      <4>5. k # l
        BY <4>1, <4>3, <4>4, <3>2 DEF Distinct
      <4>6. ~ (l < k)
        <5>1. SUFFICES ASSUME l < k PROVE FALSE
          OBVIOUS
        <5>2. PICK i1 \in DOMAIN q, j1 \in DOMAIN q : i1 < j1 /\ q[i1] = y /\ q[j1] = x
          BY <5>1, <4>3, <3>5
        <5>3. i1 = l1 /\ j1 = k1
          BY <5>2, <4>1, <3>2 DEF Distinct
        <5>4. QED
          BY <5>2, <5>3, <4>1, <4>4
      <4>7. k < l
        BY <4>4, <4>5, <4>6
      <4>8. QED
        BY <4>3, <4>7 DEF Earlier
    <3>8. QED
      BY <2>2, <3>1, <3>3, <3>4, <3>6, <3>7 DEF q
  <2>3. QED
    BY <2>1, <2>2
<1>6. /\ DOMAIN E \subseteq DOMAIN D /\ \A i \in DOMAIN E : E[i].entries = left(i)
      /\ \A i \in DOMAIN D \ DOMAIN E : left(i) = <<>>
      /\ (\A i \in DOMAIN D : left(i) = <<>>) => DOMAIN E \subseteq {0}
  BY DEF Removal
<1> HIDE DEF left, z, t
<1>7. ASSUME NEW i \in DOMAIN D, NEW e PROVE In(left(i), e) <=> (e \in DOMAIN z /\ z[e] = i)
  <2>1. In(D[i].entries, e) <=> (e \in DOMAIN a /\ a[e] = i)
    BY DEF Holds
  <2>2. In(left(i), e) <=> (In(D[i].entries, e) /\ ~ (i = n /\ e = o))
    BY <1>5
  <2>3. QED
    BY <2>1, <2>2, <1>3
<1>8. \A e \in DOMAIN z : z[e] \in DOMAIN E
  <2>1. ASSUME NEW e \in DOMAIN z PROVE z[e] \in DOMAIN E
    <3>1. z[e] \in DOMAIN D
      BY <1>3 DEF Holds
    <3>2. In(left(z[e]), e)
      BY <3>1, <1>7
    <3>3. left(z[e]) # <<>>
      BY <3>2 DEF In
    <3>4. QED
      BY <3>1, <3>3, <1>6
  <2>2. QED
    BY <2>1
<1>9. Holds(E, z)
  <2>1. \A i \in DOMAIN E : Distinct(E[i].entries) /\ Len(E[i].entries) <= DIR_MAX
    BY <1>5, <1>6
  <2>2. \A i \in DOMAIN E : \A e : In(E[i].entries, e) <=> (e \in DOMAIN z /\ z[e] = i)
    BY <1>6, <1>7
  <2>3. QED
    BY <2>1, <2>2, <1>8 DEF Holds
<1>10. DOMAIN z = {} => DOMAIN E \subseteq {0}
  <2>1. SUFFICES ASSUME DOMAIN z = {} PROVE \A i \in DOMAIN D : left(i) = <<>>
    BY <1>6
  <2>2. ASSUME NEW i \in DOMAIN D PROVE left(i) = <<>>
    <3>1. \A e : ~ In(left(i), e)
      BY <2>1, <1>7
    <3>2. left(i) \in Seq(Nat)
      BY <1>5
    <3> DEFINE q == left(i)
    <3> HIDE DEF q
    <3>3. q \in Seq(Nat) /\ \A e : ~ In(q, e)
      BY <3>1, <3>2 DEF q
    <3>4. 1 \notin DOMAIN q
      BY <3>3 DEF In
    <3>5. q = <<>>
      BY <3>3, <3>4, EmptySeq, LenProperties
    <3>6. QED
      BY <3>5 DEF q
  <2>3. QED
    BY <2>2
<1>11. s \in Seq(Nat) /\ Distinct(s) /\ In(s, o) /\ \A e : In(s, e) <=> e \in DOMAIN a
  BY DEF Ordered
<1>12. t \in Seq(Nat) /\ Distinct(t) /\ \A e : In(t, e) <=> (In(s, e) /\ e # o)
  BY <1>11, WithoutIs, WithoutKeeps DEF t
<1>13. \A k, l \in DOMAIN t : k < l => \E i, j \in DOMAIN s : i < j /\ s[i] = t[k] /\ s[j] = t[l]
  BY <1>11, WithoutKeeps DEF t
<1>14. \A e : In(t, e) <=> e \in DOMAIN z
  BY <1>3, <1>11, <1>12
<1>15. ASSUME b PROVE ByArrival(E, z, t)
  <2>1. SUFFICES ASSUME NEW k \in DOMAIN t, NEW l \in DOMAIN t, k < l
                 PROVE  z[t[k]] < z[t[l]] \/ (z[t[k]] = z[t[l]] /\ Earlier(E[z[t[k]]].entries, t[k], t[l]))
    BY DEF ByArrival
  <2>2. PICK i \in DOMAIN s, j \in DOMAIN s : i < j /\ s[i] = t[k] /\ s[j] = t[l]
    BY <2>1, <1>13
  <2>3. a[s[i]] < a[s[j]] \/ (a[s[i]] = a[s[j]] /\ Earlier(D[a[s[i]]].entries, s[i], s[j]))
    BY <2>2, <1>15 DEF Ordered, ByArrival
  <2>4. t[k] \in DOMAIN z /\ t[l] \in DOMAIN z
    BY <1>14 DEF In
  <2>5. z[t[k]] = a[s[i]] /\ z[t[l]] = a[s[j]] /\ t[k] # o /\ t[l] # o
    BY <2>2, <2>4, <1>3
  <2>6. CASE a[s[i]] = a[s[j]] /\ Earlier(D[a[s[i]]].entries, s[i], s[j])
    <3> DEFINE p == z[t[k]]
    <3>1. p \in DOMAIN E /\ p \in DOMAIN D
      BY <2>4, <1>6, <1>8
    <3>2. Earlier(D[p].entries, t[k], t[l])
      BY <2>2, <2>5, <2>6
    <3>3. Earlier(left(p), t[k], t[l])
      BY <2>5, <3>1, <3>2, <1>5
    <3>4. QED
      BY <2>5, <2>6, <3>1, <3>3, <1>6
  <2>7. QED
    BY <2>3, <2>5, <2>6
<1>16. ASSUME ~ b PROVE \A i \in DOMAIN E : Rising(E[i].entries)
  BY <1>5, <1>6, <1>16 DEF Ordered
<1>17. Ordered(E, z, t, b)
  BY <1>12, <1>14, <1>15, <1>16 DEF Ordered
<1>18. QED
  BY <1>9, <1>10, <1>17 DEF z, t

-------------------------------------------------------------------------------
(* An insertion *)

\* The page an entry came to: its entries and the new one, last of them in a book.
TakenIn(q, r, o) ==
  /\ r \in Seq(Nat) /\ Distinct(r) /\ Len(r) = Len(q) + 1 /\ \A e : In(r, e) <=> (In(q, e) \/ e = o)
  /\ book => \A x, y : Earlier(q, x, y) \/ (In(q, x) /\ y = o) => Earlier(r, x, y)
  /\ ~ book => Rising(r)

\* A page takes the entry where its kind of directory puts it.
LEMMA SortedJoins ==
  ASSUME NEW q \in Seq(Nat), Distinct(q), ~ book => Rising(q), NEW o \in Nat, ~ In(q, o)
  PROVE  TakenIn(q, Sorted(q, o), o)
<1> DEFINE r == Sorted(q, o)
           n == Len(q)
<1>1. CASE book
  <2>1. r = Append(q, o)
    BY <1>1 DEF Sorted
  <2>2. r \in Seq(Nat) /\ Len(r) = n + 1 /\ n \in Nat /\ r[n + 1] = o /\ (\A k \in DOMAIN q : r[k] = q[k]) /\ Distinct(r)
        /\ \A e : In(r, e) <=> (In(q, e) \/ e = o)
    BY <2>1, AppendKeeps
  <2>3. DOMAIN q = 1 .. n /\ DOMAIN r = 1 .. n + 1
    BY <2>2, LenProperties
  <2> HIDE DEF r, n
  <2>4. \A k \in DOMAIN q : k \in DOMAIN r /\ k < n + 1
    BY <2>2, <2>3
  <2>5. n + 1 \in DOMAIN r
    BY <2>2, <2>3
  <2>6. ASSUME NEW x, NEW y, Earlier(q, x, y) PROVE Earlier(r, x, y)
    BY <2>2, <2>4, <2>6 DEF Earlier
  <2>7. ASSUME NEW x, In(q, x) PROVE Earlier(r, x, o)
    BY <2>2, <2>4, <2>5, <2>7 DEF Earlier, In
  <2>8. QED
    BY <2>2, <2>6, <2>7, <1>1 DEF TakenIn, r, n
<1>2. CASE ~ book
  <2>1. r = InKeyOrder(Append(q, o))
    BY <1>2 DEF Sorted
  <2>2. r \in Seq(Nat) /\ Len(r) = n + 1 /\ Rising(r) /\ \A e : In(r, e) <=> (In(q, e) \/ e = o)
    BY <2>1, <1>2, KeyOrder
  <2> HIDE DEF r, n
  <2>3. Distinct(r)
    <3>1. ASSUME NEW i \in DOMAIN r, NEW j \in DOMAIN r, r[i] = r[j] PROVE i = j
      <4>1. i \in Nat /\ j \in Nat /\ r[i] \in Nat /\ r[j] \in Nat
        BY <2>2, LenProperties, ElementOfSeq
      <4>2. ~ (i < j) /\ ~ (j < i)
        BY <4>1, <3>1, <2>2 DEF Rising
      <4>3. QED
        BY <4>1, <4>2
    <3>2. QED
      BY <3>1 DEF Distinct
  <2>4. QED
    BY <2>2, <2>3, <1>2 DEF TakenIn, r, n
<1>3. QED
  BY <1>1, <1>2

\* A page made for it holds it alone.
LEMMA OneJoins ==
  ASSUME NEW o \in Nat
  PROVE  TakenIn(<<>>, <<o>>, o) /\ <<o>> \in Seq(Nat)
<1>1. <<o>> \in Seq(Nat) /\ Len(<<o>>) = 1 /\ Len(<<>>) = 0 /\ DOMAIN <<o>> = {1} /\ DOMAIN <<>> = {}
  OBVIOUS
<1>2. <<o>>[1] = o
  OBVIOUS
<1>3. Distinct(<<o>>)
  BY <1>1 DEF Distinct
<1>4. Rising(<<o>>)
  BY <1>1 DEF Rising
<1>5. \A e : In(<<o>>, e) <=> e = o
  BY <1>1, <1>2 DEF In
<1>6. \A e : ~ In(<<>>, e)
  BY <1>1 DEF In
<1>7. \A x, y : ~ Earlier(<<>>, x, y)
  BY <1>1 DEF Earlier
<1>8. Len(<<o>>) = Len(<<>>) + 1
  BY <1>1
<1>9. QED
  BY <1>1, <1>3, <1>4, <1>5, <1>6, <1>7, <1>8 DEF TakenIn

\* What the page held before the entry came to it.
Before(D, n) == IF n \in DOMAIN D THEN D[n].entries ELSE <<>>

\* An insertion leaves the pages in a ring, the last of them the one it went to, and the others as
\* they were.
LEMMA InsertedIs ==
  ASSUME NEW D, Typed(D), DOMAIN D = {} \/ Ring(D), NEW m, EmptyLast(D, m), NEW o \in Nat,
         \A i \in DOMAIN D : Distinct(D[i].entries) /\ Len(D[i].entries) <= DIR_MAX /\ ~ In(D[i].entries, o)
                             /\ (~ book => Rising(D[i].entries))
  PROVE  LET E == Inserted(D, o)
             n == LandsOn(D)
         IN /\ Typed(E) /\ Ring(E) /\ EmptyLast(E, m) /\ DOMAIN E = DOMAIN D \cup {n} /\ n \in Nat
            /\ \A i \in DOMAIN D : i <= n /\ (i # n => E[i].entries = D[i].entries)
            /\ TakenIn(Before(D, n), E[n].entries, o) /\ Len(E[n].entries) <= DIR_MAX
<1> DEFINE E == Inserted(D, o)
           n == LandsOn(D)
           one == <<o>>
<1>1. DIR_MAX \in Nat /\ DIR_MAX >= 1
  BY DirMaxAssumption
<1>2. TakenIn(<<>>, one, o) /\ one \in Seq(Nat) /\ Len(one) = 1 /\ one # <<>>
  <2>1. one # <<>> /\ Len(one) = 1
    OBVIOUS
  <2>2. QED
    BY <2>1, OneJoins
<1> HIDE DEF one
<1>3. CASE DOMAIN D = {}
  <2> DEFINE p == DirPage(one, 0, 0)
  <2>1. n = 0 /\ E = Put(D, 0, p)
    BY <1>3 DEF LandsOn, Inserted, one
  <2>2. p \in PageType /\ p.entries = one /\ p.next = 0 /\ p.prev = 0
    BY <1>2 DEF DirPage, PageType
  <2> HIDE DEF p, E, n
  <2>3. DOMAIN E = {0} /\ E[0] = p /\ E = [i \in {0} |-> p]
    BY <2>1, <1>3 DEF Put
  <2>4. Typed(E)
    BY <2>2, <2>3 DEF Typed
  <2>5. \A i \in DOMAIN E : i = 0 /\ E[i].next = 0 /\ E[i].prev = 0
    BY <2>2, <2>3
  <2>6. 0 \in DOMAIN E /\ 0 <= 0 /\ E[0].prev = 0
    BY <2>2, <2>3
  <2>7. Ring(E)
    BY <2>5, <2>6 DEF Ring
  <2>8. EmptyLast(E, m)
    BY <2>3 DEF EmptyLast
  <2>9. Before(D, n) = <<>> /\ E[n].entries = one
    BY <2>1, <2>2, <2>3, <1>3 DEF Before
  <2>10. QED
    BY <2>1, <2>3, <2>4, <2>7, <2>8, <2>9, <1>1, <1>2, <1>3 DEF E, n
<1>4. CASE Ring(D)
  <2> DEFINE l == D[0].prev
             q == D[l].entries
  <2>1. /\ 0 \in DOMAIN D /\ l \in DOMAIN D /\ l \in Nat /\ q \in Seq(Nat) /\ Len(q) \in Nat
        /\ \A i \in DOMAIN D : i \in Nat /\ i <= l
    <3>1. 0 \in DOMAIN D /\ l \in DOMAIN D /\ \A i \in DOMAIN D : i <= l
      BY <1>4 DEF Ring
    <3>2. QED
      BY <3>1, PagesAre, LenProperties
  <2>2. CASE Len(q) < DIR_MAX
    <3>1. n = l
      BY <2>1, <2>2 DEF LandsOn
    <3> DEFINE r == Sorted(q, o)
               p == DirPage(r, D[l].next, D[l].prev)
    <3>2. E = Put(D, l, p)
      BY <2>1, <3>1 DEF Inserted
    <3>3. TakenIn(q, r, o)
      BY <2>1, SortedJoins
    <3> HIDE DEF r
    <3>4. r \in Seq(Nat) /\ Len(r) = Len(q) + 1
      BY <3>3 DEF TakenIn
    <3>5. Typed(E) /\ Ring(E)
      BY <2>1, <3>2, <3>4, <1>4, PutKeepsRing
    <3>6. p.entries = r /\ p.next = D[l].next /\ p.prev = D[l].prev
      BY DEF DirPage
    <3> HIDE DEF p, E, n
    <3>7. DOMAIN E = DOMAIN D /\ E[l] = p /\ \A i \in DOMAIN D : i # l => E[i] = D[i]
      BY <2>1, <3>2 DEF Put
    <3>8. E[0].prev = l
      BY <2>1, <3>6, <3>7
    <3>9. r # <<>>
      BY <2>1, <3>4
    <3>10. EmptyLast(E, m)
      BY <3>6, <3>7, <3>8, <3>9 DEF EmptyLast
    <3>11. Before(D, n) = q /\ E[n].entries = r /\ Len(r) <= DIR_MAX
      BY <2>1, <2>2, <3>1, <3>4, <3>6, <3>7, <1>1 DEF Before
    <3>12. DOMAIN E = DOMAIN D \cup {n}
      BY <2>1, <3>1, <3>7
    <3>13. \A i \in DOMAIN D : i <= n /\ (i # n => E[i].entries = D[i].entries)
      BY <2>1, <3>1, <3>7
    <3>14. QED
      BY <2>1, <3>1, <3>3, <3>5, <3>10, <3>11, <3>12, <3>13 DEF E, n
  <2>3. CASE ~ (Len(q) < DIR_MAX)
    <3>1. n = l + 1 /\ n # l
      BY <2>1, <2>3 DEF LandsOn
    <3>2. E = Put(LinkedTo(D, n), n, DirPage(one, 0, l))
      BY <2>1, <3>1 DEF Inserted, one
    <3> DEFINE F == Put(LinkedTo(D, l + 1), l + 1, DirPage(one, 0, l))
    <3>10. /\ Typed(F) /\ Ring(F) /\ DOMAIN F = DOMAIN D \cup {l + 1} /\ l + 1 \notin DOMAIN D /\ F[0].prev = l + 1
           /\ F[l + 1].entries = one /\ \A i \in DOMAIN D : F[i].entries = D[i].entries
      BY <1>2, <1>4, LinkedKeepsRing
    <3>11. E = F
      BY <3>1, <3>2
    <3> HIDE DEF E, n, F
    <3>3. /\ Typed(E) /\ Ring(E) /\ DOMAIN E = DOMAIN D \cup {n} /\ n \notin DOMAIN D /\ E[0].prev = n
          /\ E[n].entries = one /\ \A i \in DOMAIN D : E[i].entries = D[i].entries
      BY <3>1, <3>10, <3>11
    <3>4. q # <<>>
      <4>1. Len(q) >= 1
        BY <2>1, <2>3, <1>1
      <4>2. Len(<<>>) = 0
        OBVIOUS
      <4>3. QED
        BY <4>1, <4>2
    <3>5. \A i \in DOMAIN D \ {0} : D[i].entries # <<>>
      BY <3>4 DEF EmptyLast
    <3>6. EmptyLast(E, m)
      BY <3>3, <3>5, <1>2 DEF EmptyLast
    <3>7. Before(D, n) = <<>>
      BY <3>3 DEF Before
    <3>8. \A i \in DOMAIN D : i <= n /\ n \in Nat
      BY <2>1, <3>1
    <3>9. QED
      BY <2>1, <3>3, <3>6, <3>7, <3>8, <1>1, <1>2 DEF E, n
  <2>4. QED
    BY <2>2, <2>3
<1>5. QED
  BY <1>3, <1>4

\* An insertion keeps the promises.
LEMMA InsertionKeeps ==
  ASSUME NEW D, Typed(D), NEW a, Holds(D, a), NEW s, Ordered(D, a, s, book), NEW o \in Nat, o \notin DOMAIN a,
         NEW n \in Nat, NEW E, DOMAIN E = DOMAIN D \cup {n},
         \A i \in DOMAIN D : i <= n /\ (i # n => E[i].entries = D[i].entries),
         TakenIn(Before(D, n), E[n].entries, o), Len(E[n].entries) <= DIR_MAX
  PROVE  /\ Holds(E, Put(a, o, n)) /\ DOMAIN Put(a, o, n) # {}
         /\ Ordered(E, Put(a, o, n), Append(s, o), book)
<1> DEFINE z == Put(a, o, n)
           t == Append(s, o)
           r == E[n].entries
           q == Before(D, n)
<1>1. DOMAIN z = DOMAIN a \cup {o} /\ z[o] = n /\ \A e \in DOMAIN a : e # o /\ z[e] = a[e]
  <2>1. DOMAIN z = DOMAIN a \cup {o} /\ z[o] = n /\ \A e \in DOMAIN a : e # o => z[e] = a[e]
    BY DEF Put
  <2>2. QED
    BY <2>1
<1>2. /\ r \in Seq(Nat) /\ Distinct(r) /\ Len(r) <= DIR_MAX /\ \A e : In(r, e) <=> (In(q, e) \/ e = o)
      /\ (book => \A x, y : Earlier(q, x, y) \/ (In(q, x) /\ y = o) => Earlier(r, x, y))
      /\ (~ book => Rising(r))
  BY DEF TakenIn
<1>3. /\ \A i \in DOMAIN D : Distinct(D[i].entries) /\ Len(D[i].entries) <= DIR_MAX
      /\ \A i \in DOMAIN D : \A e : In(D[i].entries, e) <=> (e \in DOMAIN a /\ a[e] = i)
      /\ \A e \in DOMAIN a : a[e] \in DOMAIN D
  BY DEF Holds
<1>4. \A e : In(q, e) <=> (e \in DOMAIN a /\ a[e] = n)
  <2>1. CASE n \in DOMAIN D
    BY <2>1, <1>3 DEF Before
  <2>2. CASE n \notin DOMAIN D
    <3>1. q = <<>> /\ \A e : ~ In(<<>>, e)
      BY <2>2 DEF Before, In
    <3>2. QED
      BY <2>2, <3>1, <1>3
  <2>3. QED
    BY <2>1, <2>2
<1> HIDE DEF z, t, r, q
<1>5. \A i \in DOMAIN E : i # n => i \in DOMAIN D /\ E[i].entries = D[i].entries
  OBVIOUS
<1>6. ASSUME NEW i \in DOMAIN E, NEW e PROVE In(E[i].entries, e) <=> (e \in DOMAIN z /\ z[e] = i)
  <2>1. CASE i = n
    <3>1. In(E[i].entries, e) <=> (e \in DOMAIN a /\ a[e] = n) \/ e = o
      BY <2>1, <1>2, <1>4 DEF r
    <3>2. QED
      BY <2>1, <3>1, <1>1
  <2>2. CASE i # n
    <3>1. In(E[i].entries, e) <=> (e \in DOMAIN a /\ a[e] = i)
      BY <2>2, <1>3, <1>5
    <3>2. QED
      BY <2>2, <3>1, <1>1
  <2>3. QED
    BY <2>1, <2>2
<1>7. \A e \in DOMAIN z : z[e] \in DOMAIN E
  BY <1>1, <1>3
<1>8. \A i \in DOMAIN E : Distinct(E[i].entries) /\ Len(E[i].entries) <= DIR_MAX
  <2>1. ASSUME NEW i \in DOMAIN E, i # n PROVE Distinct(E[i].entries) /\ Len(E[i].entries) <= DIR_MAX
    BY <2>1, <1>3, <1>5
  <2>2. QED
    BY <2>1, <1>2 DEF r
<1>9. Holds(E, z)
  BY <1>6, <1>7, <1>8 DEF Holds
<1>10. s \in Seq(Nat) /\ Distinct(s) /\ ~ In(s, o) /\ \A e : In(s, e) <=> e \in DOMAIN a
  BY DEF Ordered
<1>11. /\ t \in Seq(Nat) /\ Len(t) = Len(s) + 1 /\ Len(s) \in Nat
       /\ t[Len(s) + 1] = o /\ \A k \in DOMAIN s : t[k] = s[k]
       /\ Distinct(t)
       /\ \A e : In(t, e) <=> (In(s, e) \/ e = o)
  BY <1>10, AppendKeeps DEF t
<1>12. \A e : In(t, e) <=> e \in DOMAIN z
  BY <1>1, <1>10, <1>11
<1>13. DOMAIN s = 1 .. Len(s) /\ DOMAIN t = 1 .. Len(s) + 1
  BY <1>10, <1>11, LenProperties
<1>14. ASSUME book PROVE ByArrival(E, z, t)
  <2>1. SUFFICES ASSUME NEW k \in DOMAIN t, NEW l \in DOMAIN t, k < l
                 PROVE  z[t[k]] < z[t[l]] \/ (z[t[k]] = z[t[l]] /\ Earlier(E[z[t[k]]].entries, t[k], t[l]))
    BY DEF ByArrival
  <2>2. k \in DOMAIN s /\ (l \in DOMAIN s \/ l = Len(s) + 1)
    BY <2>1, <1>11, <1>13
  <2> DEFINE x == t[k]
             y == t[l]
  <2>3. x = s[k] /\ x \in DOMAIN a /\ z[x] = a[x] /\ a[x] \in DOMAIN D
    BY <2>2, <1>1, <1>3, <1>10, <1>11 DEF In
  <2>4. CASE l \in DOMAIN s
    <3>1. y = s[l] /\ y \in DOMAIN a /\ z[y] = a[y]
      BY <2>4, <1>1, <1>10, <1>11 DEF In
    <3>2. a[s[k]] < a[s[l]] \/ (a[s[k]] = a[s[l]] /\ Earlier(D[a[s[k]]].entries, s[k], s[l]))
      BY <2>1, <2>2, <2>4, <1>14 DEF Ordered, ByArrival
    <3> HIDE DEF x, y
    <3>3. a[x] < a[y] \/ (a[x] = a[y] /\ Earlier(D[a[x]].entries, x, y))
      BY <2>3, <3>1, <3>2
    <3>4. ASSUME a[x] = a[y], Earlier(D[a[x]].entries, x, y) PROVE Earlier(E[a[x]].entries, x, y)
      <4>1. CASE a[x] = n
        <5>1. q = D[n].entries
          BY <4>1, <2>3 DEF q, Before
        <5>2. QED
          BY <4>1, <5>1, <3>4, <1>2, <1>14 DEF r
      <4>2. CASE a[x] # n
        BY <4>2, <2>3, <3>4
      <4>3. QED
        BY <4>1, <4>2
    <3>5. z[x] < z[y] \/ (z[x] = z[y] /\ Earlier(E[z[x]].entries, x, y))
      BY <2>3, <3>1, <3>3, <3>4
    <3>6. QED
      BY <3>5 DEF x, y
  <2>5. CASE l = Len(s) + 1
    <3>1. y = o /\ z[y] = n
      BY <2>5, <1>1, <1>11
    <3> HIDE DEF x, y
    <3>2. a[x] <= n /\ a[x] \in Nat
      BY <2>3, PagesAre
    <3>3. ASSUME a[x] = n PROVE Earlier(E[n].entries, x, y)
      <4>1. In(q, x)
        BY <2>3, <3>3, <1>4
      <4>2. QED
        BY <3>1, <4>1, <1>2, <1>14 DEF r
    <3>4. a[x] < n \/ a[x] = n
      BY <3>2
    <3>5. z[x] < z[y] \/ (z[x] = z[y] /\ Earlier(E[z[x]].entries, x, y))
      BY <2>3, <3>1, <3>3, <3>4
    <3>6. QED
      BY <3>5 DEF x, y
  <2>6. QED
    BY <2>2, <2>4, <2>5
<1>15. ASSUME ~ book PROVE \A i \in DOMAIN E : Rising(E[i].entries)
  <2>1. \A i \in DOMAIN D : Rising(D[i].entries)
    BY <1>15 DEF Ordered
  <2>2. ASSUME NEW i \in DOMAIN E PROVE Rising(E[i].entries)
    <3>1. CASE i = n
      BY <3>1, <1>2, <1>15 DEF r
    <3>2. CASE i # n
      BY <3>2, <2>1, <1>5
    <3>3. QED
      BY <3>1, <3>2
  <2>3. QED
    BY <2>2
<1>16. Ordered(E, z, t, book)
  BY <1>11, <1>12, <1>14, <1>15 DEF Ordered
<1>17. DOMAIN z # {}
  BY <1>1
<1>18. QED
  BY <1>9, <1>16, <1>17 DEF z, t

-------------------------------------------------------------------------------
(* The steps *)

\* An object that comes.
LEMMA InsertStep ==
  ASSUME DirInv, NEW o \in Objects, DirInsert(o)
  PROVE  DirInv'
<1> DEFINE E == Inserted(dir, o)
           n == LandsOn(dir)
<1>1. /\ Typed(dir) /\ (DOMAIN dir = {} \/ Ring(dir)) /\ Holds(dir, at)
      /\ EmptyLast(dir, old) /\ Ordered(dir, at, added, book) /\ book \in BOOLEAN
  BY DEF DirInv, Pages
<1>2. o \in Nat /\ o \notin DOMAIN at
  BY ObjectsAssumption DEF DirInsert
<1>3. dir' = E /\ at' = Put(at, o, n) /\ added' = Append(added, o) /\ book' = book /\ old' = old
  BY DEF DirInsert
<1>4. \A i \in DOMAIN dir : Distinct(dir[i].entries) /\ Len(dir[i].entries) <= DIR_MAX /\ ~ In(dir[i].entries, o)
  BY <1>1, <1>2 DEF Holds
<1>5. ~ book => \A i \in DOMAIN dir : Rising(dir[i].entries)
  BY <1>1 DEF Ordered
<1>6. /\ Typed(E) /\ Ring(E) /\ EmptyLast(E, old) /\ DOMAIN E = DOMAIN dir \cup {n} /\ n \in Nat
      /\ \A i \in DOMAIN dir : i <= n /\ (i # n => E[i].entries = dir[i].entries)
      /\ TakenIn(Before(dir, n), E[n].entries, o) /\ Len(E[n].entries) <= DIR_MAX
  BY <1>1, <1>2, <1>4, <1>5, InsertedIs
<1> HIDE DEF E, n
<1>7. Holds(E, Put(at, o, n)) /\ DOMAIN Put(at, o, n) # {} /\ Ordered(E, Put(at, o, n), Append(added, o), book)
  BY <1>1, <1>2, <1>6, InsertionKeeps
<1>8. QED
  BY <1>1, <1>3, <1>6, <1>7 DEF DirInv, Pages

\* An object that goes.
LEMMA RemoveStep ==
  ASSUME DirInv, NEW o \in DOMAIN at, NEW hint \in {at[o], NoHint}, NEW keep \in BOOLEAN, DirRemove(o, hint, keep)
  PROVE  DirInv'
<1> DEFINE n == at[o]
           E == RemovedAt(dir, n, o, keep)
<1>1. /\ Typed(dir) /\ (DOMAIN dir = {} \/ Ring(dir)) /\ Holds(dir, at)
      /\ EmptyLast(dir, old) /\ Ordered(dir, at, added, book) /\ book \in BOOLEAN
  BY DEF DirInv, Pages
<1>2. n \in DOMAIN dir /\ In(dir[n].entries, o)
  BY <1>1 DEF Holds
<1>3. Ring(dir)
  BY <1>1, <1>2
<1>4. FoundOn(dir, hint, o) = n
  BY <1>1, <1>3, FoundOnItsPage
<1>5. dir' = E /\ at' = Erase(at, o) /\ added' = Without(added, o) /\ book' = book /\ old' = old
  BY <1>4 DEF DirRemove
<1>6. Removal(dir, E, n, o, old)
  BY <1>1, <1>2, <1>3, RemovedIs
<1> HIDE DEF E, n
<1>7. /\ Holds(E, Erase(at, o)) /\ (DOMAIN Erase(at, o) = {} => DOMAIN E \subseteq {0})
      /\ Ordered(E, Erase(at, o), Without(added, o), book)
  BY <1>1, <1>3, <1>6, RemovalKeeps DEF n
<1>8. Typed(E) /\ (DOMAIN E = {} \/ Ring(E)) /\ EmptyLast(E, old)
  BY <1>6 DEF Removal
<1>9. QED
  BY <1>1, <1>5, <1>7, <1>8 DEF DirInv, Pages

\* A directory of which nothing is left.
LEMMA EmptyStep ==
  ASSUME DirInv, EmptyDirDelete
  PROVE  DirInv'
<1>1. /\ Typed(dir) /\ (DOMAIN dir = {} \/ Ring(dir)) /\ Holds(dir, at)
      /\ EmptyLast(dir, old) /\ Ordered(dir, at, added, book) /\ book \in BOOLEAN /\ DOMAIN at = {} /\ DOMAIN dir \subseteq {0}
  BY DEF DirInv, Pages, EmptyDirDelete
<1>2. at' = at /\ added' = added /\ book' = book /\ old' = old /\ dir' = EmptyDeleted(dir)
  BY DEF EmptyDirDelete
<1>3. dir' = dir \/ dir' = Erase(dir, 0)
  <2>1. CASE 0 \notin DOMAIN dir \/ dir[0].entries # <<>>
    BY <2>1, <1>2 DEF EmptyDeleted
  <2>2. CASE ~ (0 \notin DOMAIN dir \/ dir[0].entries # <<>>)
    <3>1. dir[0].next \in DOMAIN dir
      BY <2>2, <1>1 DEF Ring
    <3>2. dir[0].next = 0
      BY <3>1, <1>1
    <3>3. QED
      BY <2>2, <3>2, <1>2 DEF EmptyDeleted
  <2>3. QED
    BY <2>1, <2>2
<1>4. CASE dir' = dir
  BY <1>1, <1>2, <1>4 DEF DirInv, Pages
<1>5. CASE dir' = Erase(dir, 0)
  <2> DEFINE E == Erase(dir, 0)
  <2>1. DOMAIN E = {}
    BY <1>1, EraseIs
  <2>2. Typed(E)
    BY <1>1, EraseTyped
  <2> HIDE DEF E
  <2>3. Holds(E, at)
    BY <2>1, <1>1 DEF Holds
  <2>4. EmptyLast(E, old)
    BY <2>1 DEF EmptyLast
  <2>5. Ordered(E, at, added, book)
    <3>1. added \in Seq(Nat) /\ Distinct(added) /\ \A e : In(added, e) <=> e \in DOMAIN at
      BY <1>1 DEF Ordered
    <3>2. \A e : ~ In(added, e)
      BY <3>1, <1>1
    <3>3. DOMAIN added = {}
      BY <3>2 DEF In
    <3>4. ByArrival(E, at, added)
      BY <3>3 DEF ByArrival
    <3>5. \A i \in DOMAIN E : Rising(E[i].entries)
      BY <2>1
    <3>6. QED
      BY <3>1, <3>4, <3>5 DEF Ordered
  <2>6. dir' = E
    BY <1>5 DEF E
  <2>7. QED
    BY <2>1, <2>2, <2>3, <2>4, <2>5, <2>6, <1>1, <1>2 DEF DirInv, Pages
<1>6. QED
  BY <1>3, <1>4, <1>5

\* A page of one entry, and one of none.
LEMMA FewEntries ==
  /\ \A x \in Nat : /\ <<x>> \in Seq(Nat) /\ Len(<<x>>) = 1 /\ <<x>> # <<>>
                     /\ Distinct(<<x>>) /\ Rising(<<x>>) /\ \A e : In(<<x>>, e) <=> e = x
  /\ <<>> \in Seq(Nat) /\ Len(<<>>) = 0 /\ Distinct(<<>>) /\ Rising(<<>>) /\ \A e : ~ In(<<>>, e)
<1>1. ASSUME NEW x \in Nat
      PROVE  /\ <<x>> \in Seq(Nat) /\ Len(<<x>>) = 1 /\ <<x>> # <<>>
             /\ Distinct(<<x>>) /\ Rising(<<x>>) /\ \A e : In(<<x>>, e) <=> e = x
  <2>1. <<x>> \in Seq(Nat) /\ Len(<<x>>) = 1 /\ <<x>> # <<>>
    OBVIOUS
  <2>2. DOMAIN <<x>> = {1} /\ <<x>>[1] = x
    OBVIOUS
  <2>3. QED
    BY <2>1, <2>2 DEF Distinct, Rising, In
<1>2. <<>> \in Seq(Nat) /\ Len(<<>>) = 0 /\ Distinct(<<>>) /\ Rising(<<>>) /\ \A e : ~ In(<<>>, e)
  BY DEF Distinct, Rising, In
<1>3. QED
  BY <1>1, <1>2

\* A directory a run starts from holds the objects 1 to N, one to a page at most, in their order.
Start(D, N, m) ==
  /\ Typed(D) /\ (DOMAIN D = {} \/ Ring(D)) /\ EmptyLast(D, m) /\ (N = 0 => DOMAIN D \subseteq {0})
  /\ \A n \in DOMAIN D : Distinct(D[n].entries) /\ Rising(D[n].entries) /\ Len(D[n].entries) <= 1
  /\ \A n, k \in DOMAIN D, x, y \in Nat : In(D[n].entries, x) /\ In(D[k].entries, y) => (x = y => n = k) /\ (x < y => n < k)
  /\ \A e : e \in 1 .. N <=> \E n \in DOMAIN D : In(D[n].entries, e)

\* So do those there are.
LEMMA OldStarts ==
  ASSUME NEW D \in OldPages
  PROVE  \E N \in Nat : Start(D, N, IF DOMAIN D = {} THEN 0 ELSE 3)
<1>1. CASE D = <<>>
  <2>1. DOMAIN D = {} /\ D \in [{} -> PageType]
    BY <1>1
  <2>2. Start(D, 0, 0)
    BY <2>1 DEF Start, Typed, EmptyLast
  <2>3. QED
    BY <2>1, <2>2
<1>2. CASE D = [n \in {0, 3} |-> IF n = 0 THEN DirPage(<<1>>, 3, 3) ELSE DirPage(<<>>, 0, 0)]
  <2>1. DOMAIN D = {0, 3} /\ D[0] = DirPage(<<1>>, 3, 3) /\ D[3] = DirPage(<<>>, 0, 0) /\ D = [n \in {0, 3} |-> D[n]]
    BY <1>2
  <2>2. /\ D[0].entries = <<1>> /\ D[0].next = 3 /\ D[0].prev = 3
        /\ D[3].entries = <<>> /\ D[3].next = 0 /\ D[3].prev = 0
    BY <2>1 DEF DirPage
  <2>3. D[0] \in PageType /\ D[3] \in PageType
    BY <2>1, FewEntries DEF DirPage, PageType
  <2>4. Typed(D)
    BY <2>1, <2>3 DEF Typed
  <2>5. Ring(D)
    BY <2>1, <2>2 DEF Ring
  <2>6. EmptyLast(D, 3)
    BY <2>1, <2>2 DEF EmptyLast
  <2>7. \A e : (In(D[0].entries, e) <=> e = 1) /\ ~ In(D[3].entries, e)
    BY <2>2, FewEntries
  <2>8. \A n \in DOMAIN D : Distinct(D[n].entries) /\ Rising(D[n].entries) /\ Len(D[n].entries) <= 1
    <3>1. Distinct(D[0].entries) /\ Rising(D[0].entries) /\ Len(D[0].entries) <= 1
      BY <2>2, FewEntries
    <3>2. Distinct(D[3].entries) /\ Rising(D[3].entries) /\ Len(D[3].entries) <= 1
      BY <2>2, FewEntries
    <3>3. \A n \in DOMAIN D : n = 0 \/ n = 3
      BY <2>1
    <3>4. QED
      BY <3>1, <3>2, <3>3
  <2>9. \A e : e \in 1 .. 1 <=> \E n \in DOMAIN D : In(D[n].entries, e)
    BY <2>1, <2>7
  <2>10. \A n, k \in DOMAIN D, x, y \in Nat : In(D[n].entries, x) /\ In(D[k].entries, y) => (x = y => n = k) /\ (x < y => n < k)
    BY <2>1, <2>7
  <2>11. Start(D, 1, 3)
    BY <2>4, <2>5, <2>6, <2>8, <2>9, <2>10 DEF Start
  <2>12. QED
    BY <2>1, <2>11
<1>3. CASE D = [n \in {0, 2, 3} |-> IF n = 0 THEN DirPage(<<1>>, 2, 3) ELSE IF n = 2 THEN DirPage(<<2>>, 3, 0) ELSE DirPage(<<>>, 0, 2)]
  <2>1. /\ DOMAIN D = {0, 2, 3} /\ D[0] = DirPage(<<1>>, 2, 3) /\ D[2] = DirPage(<<2>>, 3, 0) /\ D[3] = DirPage(<<>>, 0, 2)
        /\ D = [n \in {0, 2, 3} |-> D[n]]
    BY <1>3
  <2>2. /\ D[0].entries = <<1>> /\ D[0].next = 2 /\ D[0].prev = 3
        /\ D[2].entries = <<2>> /\ D[2].next = 3 /\ D[2].prev = 0
        /\ D[3].entries = <<>> /\ D[3].next = 0 /\ D[3].prev = 2
    BY <2>1 DEF DirPage
  <2>3. D[0] \in PageType /\ D[2] \in PageType /\ D[3] \in PageType
    BY <2>1, FewEntries DEF DirPage, PageType
  <2>4. Typed(D)
    BY <2>1, <2>3 DEF Typed
  <2>5. Ring(D)
    BY <2>1, <2>2 DEF Ring
  <2>6. EmptyLast(D, 3)
    BY <2>1, <2>2, FewEntries DEF EmptyLast
  <2>7. \A e : (In(D[0].entries, e) <=> e = 1) /\ (In(D[2].entries, e) <=> e = 2) /\ ~ In(D[3].entries, e)
    BY <2>2, FewEntries
  <2>8. \A n \in DOMAIN D : Distinct(D[n].entries) /\ Rising(D[n].entries) /\ Len(D[n].entries) <= 1
    <3>1. /\ Distinct(D[0].entries) /\ Rising(D[0].entries) /\ Len(D[0].entries) <= 1
          /\ Distinct(D[2].entries) /\ Rising(D[2].entries) /\ Len(D[2].entries) <= 1
      BY <2>2, FewEntries
    <3>2. Distinct(D[3].entries) /\ Rising(D[3].entries) /\ Len(D[3].entries) <= 1
      BY <2>2, FewEntries
    <3>3. \A n \in DOMAIN D : n = 0 \/ n = 2 \/ n = 3
      BY <2>1
    <3>4. QED
      BY <3>1, <3>2, <3>3
  <2>9. \A e : e \in 1 .. 2 <=> \E n \in DOMAIN D : In(D[n].entries, e)
    BY <2>1, <2>7
  <2>10. \A n, k \in DOMAIN D, x, y \in Nat : In(D[n].entries, x) /\ In(D[k].entries, y) => (x = y => n = k) /\ (x < y => n < k)
    BY <2>1, <2>7
  <2>11. Start(D, 2, 3)
    BY <2>4, <2>5, <2>6, <2>8, <2>9, <2>10 DEF Start
  <2>12. QED
    BY <2>1, <2>11
<1>4. QED
  BY <1>1, <1>2, <1>3 DEF OldPages

\* The directory a run starts from.
LEMMA DirStart ==
  ASSUME DirInit
  PROVE  DirInv
<1>1. /\ dir \in OldPages /\ at = [o \in Held(dir) |-> CHOOSE n \in DOMAIN dir : On(dir, n, o)]
      /\ added = [i \in 1 .. Cardinality(Held(dir)) |-> i] /\ book \in BOOLEAN
      /\ old = (IF DOMAIN dir = {} THEN 0 ELSE 3)
  BY DEF DirInit, Pages
<1>2. PICK N \in Nat : Start(dir, N, old)
  BY <1>1, OldStarts
<1>3. /\ Typed(dir) /\ (DOMAIN dir = {} \/ Ring(dir)) /\ EmptyLast(dir, old) /\ (N = 0 => DOMAIN dir \subseteq {0})
      /\ \A n \in DOMAIN dir : Distinct(dir[n].entries) /\ Rising(dir[n].entries) /\ Len(dir[n].entries) <= 1
      /\ \A n, k \in DOMAIN dir, x, y \in Nat : In(dir[n].entries, x) /\ In(dir[k].entries, y) => (x = y => n = k) /\ (x < y => n < k)
      /\ \A e : e \in 1 .. N <=> \E n \in DOMAIN dir : In(dir[n].entries, e)
  BY <1>2 DEF Start
<1>4. \A n, o : On(dir, n, o) <=> n \in DOMAIN dir /\ In(dir[n].entries, o)
  BY InRange DEF On
<1>5. Held(dir) = 1 .. N
  <2>1. \A e : e \in Held(dir) <=> \E n \in DOMAIN dir : In(dir[n].entries, e)
    BY InRange DEF Held
  <2>2. QED
    BY <2>1, <1>3
<1>6. DOMAIN at = 1 .. N /\ \A o \in 1 .. N : at[o] \in DOMAIN dir /\ In(dir[at[o]].entries, o)
  BY <1>1, <1>3, <1>4, <1>5
<1>7. added = [i \in 1 .. N |-> i]
  BY <1>1, <1>5, FS_Interval
<1>8. Holds(dir, at)
  <2>1. \A n \in DOMAIN dir : Distinct(dir[n].entries) /\ Len(dir[n].entries) <= DIR_MAX
    <3>1. ASSUME NEW n \in DOMAIN dir PROVE Distinct(dir[n].entries) /\ Len(dir[n].entries) <= DIR_MAX
      <4>1. Distinct(dir[n].entries) /\ Len(dir[n].entries) <= 1 /\ Len(dir[n].entries) \in Nat
        BY <1>3, PagesAre, LenProperties
      <4>2. QED
        BY <4>1, DirMaxAssumption
    <3>2. QED
      BY <3>1
  <2>2. ASSUME NEW n \in DOMAIN dir, NEW e PROVE In(dir[n].entries, e) <=> (e \in DOMAIN at /\ at[e] = n)
    <3>1. ASSUME In(dir[n].entries, e) PROVE e \in DOMAIN at /\ at[e] = n
      <4>1. e \in 1 .. N
        BY <3>1, <1>3
      <4>2. e \in Nat /\ at[e] \in DOMAIN dir /\ In(dir[at[e]].entries, e)
        BY <4>1, <1>6
      <4>3. QED
        BY <4>1, <4>2, <3>1, <1>3, <1>6
    <3>2. ASSUME e \in DOMAIN at, at[e] = n PROVE In(dir[n].entries, e)
      BY <3>2, <1>6
    <3>3. QED
      BY <3>1, <3>2
  <2>3. \A e \in DOMAIN at : at[e] \in DOMAIN dir
    BY <1>6
  <2>4. QED
    BY <2>1, <2>2, <2>3 DEF Holds
<1>9. DOMAIN at = {} => DOMAIN dir \subseteq {0}
  <2>1. DOMAIN at = {} => N = 0
    BY <1>6
  <2>2. QED
    BY <2>1, <1>3
<1>10. Ordered(dir, at, added, book)
  <2>1. DOMAIN added = 1 .. N /\ \A i \in 1 .. N : added[i] = i
    BY <1>7
  <2>2. added \in Seq(Nat)
    BY <1>7
  <2>3. Distinct(added) /\ \A e : In(added, e) <=> e \in DOMAIN at
    BY <2>1, <1>6 DEF Distinct, In
  <2>4. ByArrival(dir, at, added)
    <3>1. SUFFICES ASSUME NEW i \in 1 .. N, NEW j \in 1 .. N, i < j PROVE at[i] < at[j]
      BY <2>1 DEF ByArrival
    <3>2. QED
      BY <3>1, <1>3, <1>6
  <2>5. \A n \in DOMAIN dir : Rising(dir[n].entries)
    BY <1>3
  <2>6. QED
    BY <2>2, <2>3, <2>4, <2>5 DEF Ordered
<1>11. QED
  BY <1>1, <1>3, <1>8, <1>9, <1>10 DEF DirInv, Pages

\* A step of the directory.
LEMMA DirStep ==
  ASSUME DirInv, [DirNext]_dir_vars
  PROVE  DirInv'
<1>1. ASSUME NEW o \in Objects, DirInsert(o) PROVE DirInv'
  BY <1>1, InsertStep
<1>2. ASSUME DirRemoves PROVE DirInv'
  <2>1. PICK o \in DOMAIN at, known \in BOOLEAN, keep \in BOOLEAN : DirRemove(o, IF known THEN at[o] ELSE NoHint, keep)
    BY <1>2 DEF DirRemoves
  <2>2. QED
    BY <2>1, RemoveStep
<1>3. ASSUME EmptyDirDelete PROVE DirInv'
  BY <1>3, EmptyStep
<1>4. ASSUME UNCHANGED dir_vars PROVE DirInv'
  BY <1>4 DEF dir_vars, DirInv, Pages
<1>5. QED
  BY <1>1, <1>2, <1>3, <1>4 DEF DirNext

-------------------------------------------------------------------------------
(* What the invariant promises *)

\* A sequence of distinct entries is as long as the set of them.
LEMMA DistinctCount ==
  ASSUME NEW q \in Seq(Nat), Distinct(q)
  PROVE  Len(q) = Cardinality(Range(q))
<1>1. Len(q) \in Nat /\ DOMAIN q = 1 .. Len(q)
  BY LenProperties
<1>2. IsFiniteSet(1 .. Len(q)) /\ Cardinality(1 .. Len(q)) = Len(q)
  <2>1. 1 \in Int /\ Len(q) \in Int /\ (1 > Len(q) => Len(q) = 0) /\ Len(q) - 1 + 1 = Len(q)
    BY <1>1
  <2>2. QED
    BY <2>1, FS_Interval
<1>3. q \in Bijection(1 .. Len(q), Range(q))
  <2>1. q \in [1 .. Len(q) -> Range(q)]
    BY <1>1 DEF Range
  <2>2. \A x, y \in 1 .. Len(q) : q[x] = q[y] => x = y
    BY <1>1 DEF Distinct
  <2>3. \A e \in Range(q) : \E x \in 1 .. Len(q) : q[x] = e
    BY <1>1 DEF Range
  <2>4. QED
    BY <2>1, <2>2, <2>3 DEF Bijection, Injection, Surjection, IsInjective
<1>4. Cardinality(1 .. Len(q)) = Cardinality(Range(q))
  BY <1>2, <1>3, FS_Bijection DEF ExistsBijection
<1>5. QED
  BY <1>2, <1>4

\* The links.
LEMMA LinksGood ==
  ASSUME DirInv
  PROVE  Linked
<1>1. SUFFICES ASSUME Pages # {}
               PROVE  /\ ToSet(ChainOf(dir)) = Pages
                      /\ Last(ChainOf(dir)) = dir[0].prev /\ dir[Last(ChainOf(dir))].next = 0
                      /\ \A i \in 2 .. Len(ChainOf(dir)) : dir[ChainOf(dir)[i]].prev = ChainOf(dir)[i - 1]
  BY DEF Linked
<1>2. Typed(dir) /\ Ring(dir)
  BY <1>1 DEF DirInv
<1> DEFINE N == Cardinality(DOMAIN dir)
           c == ChainOf(dir)
<1>3. /\ N \in Nat \ {0} /\ c \in [1 .. N -> DOMAIN dir]
      /\ \A n \in DOMAIN dir : \E i \in DOMAIN c : c[i] = n
      /\ c[N] = dir[0].prev
      /\ \A i \in 2 .. N : dir[c[i]].prev = c[i - 1]
  BY <1>2, ChainIs
<1> HIDE DEF N, c
<1>4. c \in Seq(DOMAIN dir) /\ Len(c) = N
  <2>1. c \in Seq(DOMAIN dir)
    <3>1. N \in Nat /\ c \in [1 .. N -> DOMAIN dir]
      BY <1>3
    <3>2. QED
      BY <3>1, SeqDef
  <2>2. QED
    BY <2>1, <1>3, LenProperties
<1>5. ToSet(c) = Pages
  BY <1>3 DEF ToSet, Pages
<1>6. Last(c) = dir[0].prev
  BY <1>3, <1>4 DEF Last
<1>7. dir[dir[0].prev].next = 0
  BY <1>2 DEF Ring
<1>8. QED
  BY <1>3, <1>4, <1>5, <1>6, <1>7 DEF c

\* The pages of the objects.
LEMMA PagesGood ==
  ASSUME DirInv
  PROVE  OnItsPage
<1>1. Typed(dir) /\ Holds(dir, at)
  BY DEF DirInv
<1>2. \A n, o : On(dir, n, o) <=> n \in DOMAIN dir /\ o \in DOMAIN at /\ at[o] = n
  BY <1>1, InRange DEF On, Holds
<1>3. Held(dir) = DOMAIN at
  <2>1. \A e : e \in Held(dir) <=> \E n \in DOMAIN dir : On(dir, n, e)
    BY DEF Held, On
  <2>2. \A e \in DOMAIN at : at[e] \in DOMAIN dir
    BY <1>1 DEF Holds
  <2>3. QED
    BY <2>1, <2>2, <1>2
<1>4. ASSUME NEW o \in DOMAIN at PROVE {n \in Pages : On(dir, n, o)} = {at[o]}
  <2>1. at[o] \in DOMAIN dir
    BY <1>1 DEF Holds
  <2>2. QED
    BY <2>1, <1>2 DEF Pages
<1>5. \A n \in Pages : Len(dir[n].entries) = Cardinality(Range(dir[n].entries)) /\ Len(dir[n].entries) <= DIR_MAX
  BY <1>1, PagesAre, DistinctCount DEF Holds, Pages
<1>6. QED
  BY <1>3, <1>4, <1>5 DEF OnItsPage

\* The order of the entries.
LEMMA EntriesGood ==
  ASSUME DirInv
  PROVE  EntriesInOrder
<1>1. Typed(dir) /\ Holds(dir, at) /\ Ordered(dir, at, added, book)
  BY DEF DirInv
<1>2. \A e : In(added, e) <=> e \in DOMAIN at
  BY <1>1 DEF Ordered
<1>3. ToSet(added) = Held(dir)
  <2>1. \A e : e \in ToSet(added) <=> In(added, e)
    BY DEF ToSet, In
  <2>2. Held(dir) = DOMAIN at
    BY PagesGood DEF OnItsPage
  <2>3. QED
    BY <2>1, <2>2, <1>2
<1>4. ASSUME book, NEW i \in DOMAIN added, NEW j \in DOMAIN added, i < j PROVE MetBefore(added[i], added[j])
  <2> DEFINE x == added[i]
             y == added[j]
             c == ChainOf(dir)
  <2>1. x \in DOMAIN at /\ y \in DOMAIN at
    BY <1>2 DEF In
  <2>2. at[x] < at[y] \/ (at[x] = at[y] /\ Earlier(dir[at[x]].entries, x, y))
    BY <1>1, <1>4 DEF Ordered, ByArrival
  <2> HIDE DEF x, y
  <2>3. at[x] \in DOMAIN dir /\ at[y] \in DOMAIN dir /\ In(dir[at[x]].entries, x) /\ In(dir[at[y]].entries, y)
    BY <1>1, <2>1 DEF Holds
  <2>4. Ring(dir)
    BY <2>3 DEF DirInv, Pages
  <2>5. /\ \A n \in DOMAIN dir : \E k \in DOMAIN c : c[k] = n
        /\ \A k, l \in DOMAIN c : c[k] < c[l] => k < l
    BY <2>4, <1>1, ChainIs
  <2> HIDE DEF c
  <2>6. PICK k \in DOMAIN c, l \in DOMAIN c : c[k] = at[x] /\ c[l] = at[y]
    BY <2>3, <2>5
  <2>7. CASE at[x] < at[y]
    <3>1. k < l
      BY <2>5, <2>6, <2>7
    <3>2. PICK u \in DOMAIN dir[c[k]].entries, v \in DOMAIN dir[c[l]].entries :
                 dir[c[k]].entries[u] = x /\ dir[c[l]].entries[v] = y
      BY <2>3, <2>6 DEF In
    <3>3. QED
      BY <3>1, <3>2 DEF MetBefore, c, x, y
  <2>8. CASE at[x] = at[y] /\ Earlier(dir[at[x]].entries, x, y)
    <3>1. PICK u \in DOMAIN dir[c[k]].entries, v \in DOMAIN dir[c[k]].entries :
                 u < v /\ dir[c[k]].entries[u] = x /\ dir[c[k]].entries[v] = y
      BY <2>6, <2>8 DEF Earlier
    <3>2. QED
      BY <3>1 DEF MetBefore, c, x, y
  <2>9. QED
    BY <2>2, <2>7, <2>8
<1>5. ASSUME ~ book PROVE \A n \in Pages : \A k, l \in DOMAIN dir[n].entries : k < l => dir[n].entries[k] < dir[n].entries[l]
  BY <1>1, <1>5 DEF Ordered, Rising, Pages
<1>6. QED
  BY <1>3, <1>4, <1>5 DEF EntriesInOrder

\* A directory's pages stay linked in a ring from the root, each object stays on the page it recorded
\* and on no other, entries keep their order, and no page but the root stands empty, save one of old.
THEOREM DirectoryIsSound == DirSpec => []DirectoryOK
<1>1. DirInit => DirInv
  BY DirStart
<1>2. DirInv /\ [DirNext]_dir_vars => DirInv'
  BY DirStep
<1>3. DirInv => DirectoryOK
  <2>1. SUFFICES ASSUME DirInv PROVE DirectoryOK
    OBVIOUS
  <2>2. NoEmptyPage
    BY <2>1 DEF DirInv, EmptyLast, NoEmptyPage, Pages
  <2>3. QED
    BY <2>1, <2>2, LinksGood, PagesGood, EntriesGood DEF DirectoryOK
<1>4. QED
  BY <1>1, <1>2, <1>3, PTL DEF DirSpec
===============================================================================
