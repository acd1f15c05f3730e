-------------------------------- MODULE Tally --------------------------------
(***************************************************************************)
(* Our own tally of the trusted validators' validations, and its verdicts. *)
(*                                                                         *)
(* Each validation a peer relays and whose signature holds is counted for  *)
(* the validator (by master key) that signed it.  A hash with the quorum   *)
(* of the list, less the negative UNL, is a ledger we call validated.      *)
(* ws-sync tells the tally what the reference server (.39) calls           *)
(* validated; from peers an optional witness does.  Each such ledger is    *)
(* judged: agree, differ, short (no quorum here) or late (its votes were   *)
(* already let go).                                                        *)
(*                                                                         *)
(* A vote is a signature-checked full validation of a key the list names;  *)
(* partial validations and those of other keys change nothing.  The times  *)
(* (the lead over .39) and the counters are left out.                      *)
(***************************************************************************)
EXTENDS Integers, FiniteSets

CONSTANTS
  Validators,         \* the master keys there are
  Faulty,             \* those that may validate two hashes for one ledger
  Lists,              \* the verified lists a publisher serves
  Hashes, None,
  TxSets, SetOf,      \* the consensus sets; the one behind each hash
  MaxSeq, Net,        \* bound: the last ledger; the hashes .39 validates
  NegativeAt,         \* the negative UNL each written ledger carries
  Splits,             \* may sound validators validate another hash than Net
  Sources,            \* is XRPL_LEDGER_SOURCE=peers
  RoundsUp,           \* list sizes whose 0.6f product is rounded past the exact one
  GIVE_UP, KEEP, AGREED_KEEP

Ledgers == 1 .. MaxSeq

ASSUME TallyConstants ==
  /\ IsFiniteSet(Validators) /\ Faulty \subseteq Validators
  /\ Lists \subseteq SUBSET Validators
  /\ None \notin Hashes \cup TxSets
  /\ SetOf \in [Hashes -> TxSets]
  /\ MaxSeq \in Nat /\ Net \in [Ledgers -> Hashes]
  /\ NegativeAt \in [0 .. MaxSeq -> SUBSET Validators]
  /\ Splits \subseteq BOOLEAN /\ Sources \subseteq BOOLEAN
  /\ RoundsUp \subseteq Nat
  /\ {GIVE_UP, KEEP, AGREED_KEEP} \subseteq Nat \ {0}

VARIABLES
  split, peers,      \* this network, and where this process takes ledgers
  \* the tally
  masters, negative, \* the list; the negative UNL
  held,              \* the sequences with votes
  votes, reached,    \* each validator's latest hash; the hashes with quorum
  sets, agreed,      \* the sets they accepted; those of sequences let go
  pending,           \* what .39 validated and is not judged yet
  first_seq,         \* the first sequence voted on, or None
  \* ws-sync and the witness
  landed, taken,     \* the last ledger written; has the next been fetched
  told,              \* the last ledger the witness looked at
  \* history: who named each hash; the hashes that ever had the quorum; the
  \* verdicts given
  named, ever, verdicts

tallyVars == <<masters, negative, held, votes, reached, sets, agreed, pending, first_seq>>
loopVars  == <<landed, taken, told>>
histVars  == <<named, ever, verdicts>>
vars == <<split, peers, tallyVars, loopVars, histVars>>

-------------------------------------------------------------------------------
\* Helpers

Oldest(S) == CHOOSE s \in S : \A t \in S : s <= t
Newest(S) == CHOOSE s \in S : \A t \in S : t <= s

NoVotes == [m \in Validators |-> None]

\* max(ceil(0.8f * effective), ceil(0.6f * n)): the second product rounds up
\* past the exact one for some list sizes.
QuorumOf(n, effective) ==
  LET eighty == (4 * effective + 4) \div 5
      sixty  == (3 * n + 4) \div 5 + (IF n \in RoundsUp THEN 1 ELSE 0)
  IN IF eighty >= sixty THEN eighty ELSE sixty

Effective == Cardinality(masters \ negative)
NeededNow == QuorumOf(Cardinality(masters), Effective)

\* The validators counted for hash h in votes vs.
Counted(vs, h) == {m \in Validators : vs[m] = h} \ negative

\* Mutant: any set named is agreed.
AnyNamed(ss) == {c \in TxSets : Effective > 0 /\ Cardinality({m \in Validators : ss[m] = c} \ negative) > 0}

\* agreed_set, while the votes are held: what more than half the list accepted.
Majority(ss) ==
  {c \in TxSets : /\ Effective > 0
                  /\ 2 * Cardinality({m \in Validators : ss[m] = c} \ negative) > Effective}

Init ==
  /\ split \in Splits /\ peers \in Sources
  /\ masters = {} /\ negative = {}
  /\ held = {}
  /\ votes = [s \in Ledgers |-> NoVotes] /\ reached = [s \in Ledgers |-> {}]
  /\ sets = [s \in Ledgers |-> NoVotes] /\ agreed = [s \in Ledgers |-> None]
  /\ pending = [s \in Ledgers |-> None] /\ first_seq = None
  /\ landed = 0 /\ taken = FALSE /\ told = 0
  /\ named = [s \in Ledgers |-> [h \in Hashes |-> {}]]
  /\ ever = [s \in Ledgers |-> {}] /\ verdicts = {}

-------------------------------------------------------------------------------
(* Judging *)

\* Mutant: a ledger whose votes were let go is judged like any other.
VerdictNotLate(s, hash, newest) ==
  IF hash \in reached'[s] THEN "agree"
  ELSE IF reached'[s] # {} THEN "differ"
  ELSE IF newest >= s + GIVE_UP THEN "short"
  ELSE "wait"

\* Mutant: a ledger waits one longer.
VerdictOneMore(s, hash, newest) ==
  IF hash \in reached'[s] THEN "agree"
  ELSE IF reached'[s] # {} THEN "differ"
  ELSE IF held' # {} /\ s < Oldest(held') THEN "late"
  ELSE IF newest > s + GIVE_UP THEN "short"
  ELSE "wait"

\* judge_pending: what the tally, as it now is, says of ledger s.
Verdict(s, hash, newest) ==
  IF hash \in reached'[s] THEN "agree"
  ELSE IF reached'[s] # {} THEN "differ"
  ELSE IF held' # {} /\ s < Oldest(held') THEN "late"
  ELSE IF newest >= s + GIVE_UP THEN "short"
  ELSE "wait"

\* Each pending ledger is judged, or stays.
JudgePending(newest, asked) ==
  LET waits == {s \in Ledgers : asked[s] # None /\ Verdict(s, asked[s], newest) = "wait"}
      done  == {s \in Ledgers : asked[s] # None} \ waits
  IN /\ pending' = [s \in Ledgers |-> IF s \in waits THEN asked[s] ELSE None]
     /\ verdicts' = verdicts \cup {[seq |-> s, verdict |-> Verdict(s, asked[s], newest)] : s \in done}

NewestPending ==
  LET P == {s \in Ledgers : pending[s] # None} IN IF P = {} THEN 0 ELSE Newest(P)

\* There is a list, and the ledger is newer than the first one voted on.
Listening(s) == masters # {} /\ first_seq # None /\ s > first_seq

\* network_validated: .39 calls ledger s validated with its hash.
NetworkValidated(s) ==
  /\ UNCHANGED <<held, votes, reached, sets, agreed>>
  /\ JudgePending(s, IF Listening(s) THEN [pending EXCEPT ![s] = Net[s]] ELSE pending)

-------------------------------------------------------------------------------
(* The list and the validations *)

\* set_unl: the verified list, at the start and at each refresh that differs.
SetUnl ==
  /\ \E L \in Lists \ {masters} : masters' = L
  /\ UNCHANGED <<split, peers, negative, held, votes, reached, sets, agreed, pending, first_seq, loopVars, histVars>>

\* The validator may validate h for ledger s: a sound one names one hash.
MayName(m, s, h) ==
  m \notin Faulty => /\ split \/ h = Net[s]
                     /\ \A g \in Hashes \ {h} : m \notin named[s][g]

\* The set its validation names (sfConsensusHash), or none.
MayAccept(m, h) == IF m \in Faulty THEN TxSets \cup {None} ELSE {SetOf[h]}

TooOld(s) == held # {} /\ s + KEEP < Newest(held)

\* note_set, for a sequence the tally holds.
NoteSet(m, s, c, ss) == [ss EXCEPT ![s][m] = IF c = None THEN @ ELSE c]

\* Mutant: a vote counts for its sequence, whatever its hash.
TallyAnyHash(m, s, h) == {v \in Validators : v = m \/ votes[s][v] # None} \ negative

\* Mutant: the negative UNL's votes count.
TallyDisabled(m, s, h) == {v \in Validators : v = m \/ votes[s][v] = h}

\* The validators counted for h once m has voted for it.
TallyWith(m, s, h) == Counted([votes[s] EXCEPT ![m] = h], h)

\* The agreed set to keep for a sequence let go: one more than half the list
\* names, if there is one.
KeptSet(old) == IF Majority(sets[old]) = {} THEN {None} ELSE Majority(sets[old])

\* AGREED_KEEP: the oldest agreed sets go first.
Trimmed(ag) ==
  LET A == {s \in Ledgers : ag[s] # None}
  IN IF Cardinality(A) > AGREED_KEEP THEN [ag EXCEPT ![Oldest(A)] = None] ELSE ag

\* Mutant: the newest sequence goes.
LetGoNewest(all) == IF Cardinality(all) > KEEP THEN {Newest(all)} ELSE {}

\* Mutant: one more is held.
LetGoLate(all) == IF Cardinality(all) > KEEP + 1 THEN {Oldest(all)} ELSE {}

\* let_go: past KEEP the oldest sequence goes.
LetGo(all) == IF Cardinality(all) > KEEP THEN {Oldest(all)} ELSE {}

\* vote: it replaces the validator's earlier vote for the ledger; its hash may
\* reach the quorum; past KEEP the oldest sequence goes, its agreed set kept.
VoteFor(m, s, h) ==
  LET now  == {g \in {h} : /\ m \notin negative /\ NeededNow > 0
                           /\ Cardinality(TallyWith(m, s, h)) >= NeededNow}
      all  == held \cup {s}
      gone == LetGo(all)
  IN /\ held' = all \ gone
     /\ votes' = [q \in Ledgers |-> IF q \in gone THEN NoVotes
                                    ELSE IF q = s THEN [votes[s] EXCEPT ![m] = h] ELSE votes[q]]
     /\ reached' = [q \in Ledgers |-> IF q \in gone THEN {}
                                      ELSE IF q = s THEN reached[s] \cup now ELSE reached[q]]
     /\ ever' = [ever EXCEPT ![s] = @ \cup now]
     /\ IF gone = {} THEN agreed' = agreed
        ELSE \E a \in KeptSet(Oldest(all)) :
               agreed' = Trimmed([agreed EXCEPT ![Oldest(all)] = IF a = None THEN @ ELSE a])
     /\ \E c \in MayAccept(m, h) :
          sets' = [q \in Ledgers |-> IF q \in gone THEN NoVotes
                                     ELSE NoteSet(m, s, c, sets)[q]]

\* on_validation: a trusted full validation is counted, the pending ledgers
\* are judged, and its set is noted.
Vote ==
  /\ \E m \in masters, s \in Ledgers, h \in Hashes :
       /\ MayName(m, s, h) /\ ~TooOld(s)
       /\ VoteFor(m, s, h)
       /\ first_seq' = IF first_seq = None THEN s ELSE first_seq
       /\ named' = [named EXCEPT ![s][h] = @ \cup {m}]
  /\ JudgePending(NewestPending, pending)
  /\ UNCHANGED <<split, peers, masters, negative, loopVars>>

\* A validation too old to count still has its set noted, if its sequence is
\* held.
OldVote ==
  \E m \in masters, s \in held, h \in Hashes :
    /\ MayName(m, s, h) /\ TooOld(s)
    /\ \E c \in MayAccept(m, h) : sets' = NoteSet(m, s, c, sets)
    /\ named' = [named EXCEPT ![s][h] = @ \cup {m}]
  /\ UNCHANGED <<split, peers, masters, negative, held, votes, reached, agreed, pending, first_seq,
                 loopVars, ever, verdicts>>

-------------------------------------------------------------------------------
(* ws-sync *)

\* ws-sync fetched the next ledger's metadata: the tally counts under the
\* negative UNL of the newest ledger written and, from .39, judges.
Take ==
  /\ landed < MaxSeq /\ ~taken
  /\ taken' = TRUE
  /\ negative' = NegativeAt[landed]
  /\ IF peers THEN UNCHANGED <<held, votes, reached, sets, agreed, pending, verdicts>>
              ELSE NetworkValidated(landed + 1)
  /\ UNCHANGED <<split, peers, masters, first_seq, landed, told, named, ever>>

\* The ledger did not land; it will be driven again.
HeldBack ==
  /\ taken /\ taken' = FALSE
  /\ UNCHANGED <<split, peers, tallyVars, landed, told, histVars>>

\* The ledger was written and verified.
Land ==
  /\ taken /\ taken' = FALSE /\ landed' = landed + 1
  /\ UNCHANGED <<split, peers, tallyVars, told, histVars>>

\* From peers: the witness asked .39 for a landed ledger's hash, perhaps after
\* passing over some it could not reach .39 for.
WitnessAnswers ==
  /\ peers
  /\ \E s \in told + 1 .. landed : told' = s /\ NetworkValidated(s)
  /\ UNCHANGED <<split, peers, masters, negative, first_seq, landed, taken, named, ever>>

Next == SetUnl \/ Vote \/ OldVote \/ Take \/ HeldBack \/ Land \/ WitnessAnswers

Spec == Init /\ [][Next]_vars

-------------------------------------------------------------------------------
(* Properties *)

VerdictNames == {"agree", "differ", "short", "late"}

\* Every variable keeps its type; KEEP sequences of votes and AGREED_KEEP
\* agreed sets are held at most.
TypeOK ==
  /\ split \in BOOLEAN /\ peers \in BOOLEAN
  /\ masters \subseteq Validators /\ negative \subseteq Validators
  /\ held \subseteq Ledgers /\ Cardinality(held) <= KEEP
  /\ votes \in [Ledgers -> [Validators -> Hashes \cup {None}]]
  /\ reached \in [Ledgers -> SUBSET Hashes]
  /\ sets \in [Ledgers -> [Validators -> TxSets \cup {None}]]
  /\ agreed \in [Ledgers -> TxSets \cup {None}]
  /\ Cardinality({s \in Ledgers : agreed[s] # None}) <= AGREED_KEEP
  /\ pending \in [Ledgers -> Hashes \cup {None}]
  /\ first_seq \in Ledgers \cup {None}
  /\ landed \in 0 .. MaxSeq /\ taken \in BOOLEAN /\ told \in 0 .. MaxSeq
  /\ named \in [Ledgers -> [Hashes -> SUBSET Validators]]
  /\ ever \in [Ledgers -> SUBSET Hashes]
  /\ verdicts \subseteq [seq : Ledgers, verdict : VerdictNames]

\* No two hashes of one ledger ever reach the quorum, whatever votes arrive
\* in whatever order and however the negative UNL moves between them, while
\* the faulty are few and the list stays.
OneQuorumPerLedger ==
  \A s \in Ledgers : \A g, h \in ever[s] : g = h

\* The tally as its readers see it: quorums only grow, at most one a ledger,
\* and only the oldest sequence is let go.
View == INSTANCE QuorumView WITH Contested <- FALSE
ImplementsView == View!ViewSpec

\* A healthy network never differs: validators that name only what .39
\* validates never give a "differ" (own_validated.rs: "differ").
HealthyNeverDiffers == ~split => \A v \in verdicts : v.verdict # "differ"

\* A ledger whose hash reached the quorum here is never judged short, even
\* when its votes were let go before .39's word came.
ReachedIsNeverShort ==
  [][\A s \in Ledgers :
       [seq |-> s, verdict |-> "short"] \in verdicts' \ verdicts => Net[s] \notin ever[s]]_vars

\* The set our order is salted with is the set behind the ledger, as long as
\* its votes are held and after.
AgreedIsAccepted ==
  ~split => \A s \in Ledgers :
    /\ Majority(sets[s]) \subseteq {SetOf[Net[s]]}
    /\ agreed[s] \in {None, SetOf[Net[s]]}

\* A pending ledger waits no longer than GIVE_UP ledgers.
PendingIsRecent == \A s \in Ledgers : pending[s] # None => NewestPending < s + GIVE_UP
===============================================================================
