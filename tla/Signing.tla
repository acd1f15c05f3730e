------------------------------- MODULE Signing --------------------------------
(***************************************************************************)
(* Which ledgers the validator signs, on whose word, and in what order.    *)
(*                                                                         *)
(* The signing loop wakes on each event of the peer loop.  By default it   *)
(* signs the first hash a peer announces for a newer ledger.  With         *)
(* XRPL_SIGN_ON_QUORUM it asks the tally, on each validation, for the      *)
(* oldest recent ledger it may sign: the quorum's hash, or what .39 and    *)
(* our own engine both have.  With XRPL_SIGN_OWN it signs only a hash our  *)
(* own engine made, unless a breaker opens.  Meanwhile ws-sync lands       *)
(* ledgers, and for each one own_hash tells the tally, in two calls, that  *)
(* our hash is the network's and what our hash is.                         *)
(*                                                                         *)
(* The tally's quorums are those of QuorumView.  The gates before a        *)
(* signature (three matches in a row, the clock, observe mode) give any    *)
(* outcome in Gates; the breaker's clock, any outcome.                     *)
(***************************************************************************)
EXTENDS QuorumView, Sequences

CONSTANTS
  Net,                \* the hash ws-sync takes each ledger by
  Modes,              \* how a process may sign: "announce", "quorum", "own" or
                      \* "breaker", own with 5a's breaker (XRPL_OWN_BREAK)
  UseWitness,         \* XRPL_SIGN_ON_WITNESS
  ModeChanges,        \* a restart may find another of them in its environment
  Gates,              \* the outcomes of the gates
  LandsTo,            \* bound: the last ledger ws-sync lands
  MaxStarts,          \* bound: restarts
  GIVE_UP, CATCH_UP, STALL,
  None, Borrowed

ASSUME SigningConstants ==
  /\ MaxSeq \in Nat /\ Net \in [Ledgers -> Hashes]
  /\ Modes \subseteq {"announce", "quorum", "own", "breaker"}
  /\ {UseWitness, Contested, ModeChanges} \subseteq BOOLEAN /\ Gates \subseteq BOOLEAN
  /\ LandsTo \in 0 .. MaxSeq /\ MaxStarts \in Nat
  /\ {GIVE_UP, KEEP, CATCH_UP, STALL} \subseteq Nat
  /\ KEEP >= CATCH_UP + GIVE_UP
  /\ None \notin Hashes /\ Borrowed \notin Hashes \cup {None}

VARIABLES
  mode,               \* how this process signs
  witnessed,          \* ledgers whose hash .39 and our engine both have
  own,                \* our own hash of each ledger landed, or Borrowed
  landed,             \* the last ledger ws-sync landed
  judged,             \* our hash of it, until own_ledger has it, or None
  prev,               \* own_hash: the ledger before is ours to chain from
  last_validated_seq,
  \* history: the signatures made; our own hash of each ledger this process
  \* landed; the restarts
  signed, made, starts

viewVars == <<held, reached>>
landVars == <<landed, judged, prev, witnessed, own, made>>
signVars == <<last_validated_seq, signed>>
vars == <<viewVars, landVars, signVars, mode, starts>>

-------------------------------------------------------------------------------
\* Helpers

NothingYet == [s \in Ledgers |-> None]
Known(f) == {s \in Ledgers : f[s] # None}

SignsOwn == mode \in {"own", "breaker"}
MayBreak == mode = "breaker"

\* Mutant: it keeps every ledger.
KeptAll(f) == f

\* The map keeps its KEEP newest sequences.
Kept(f) == IF Cardinality(Known(f)) > KEEP THEN [f EXCEPT ![Oldest(Known(f))] = None] ELSE f

\* The one hash at quorum, or None.
QuorumOn(s) == IF Cardinality(reached[s]) = 1 THEN CHOOSE h \in reached[s] : TRUE ELSE None

Larger(a, b) == IF a >= b THEN a ELSE b

\* Mutant: the last ledger looked at does not bound the window.
WindowBack(after, newest) == newest - GIVE_UP + 1

\* window_from: the last GIVE_UP ledgers before the newest heard or, while
\* ws-sync trails by up to CATCH_UP, before the newest it landed.
WindowFrom(after, newest) ==
  LET behind == Known(own) # {} /\ Newest(Known(own)) < newest
      base   == IF behind THEN Larger(Newest(Known(own)), newest - CATCH_UP) ELSE newest
  IN Larger(after, base - GIVE_UP) + 1

Pass == [basis |-> "pass", hash |-> None]
Wait == [basis |-> "wait", hash |-> None]
On(basis, hash) == [basis |-> basis, hash |-> hash]

\* Mutant: the last one.
LastOf(stops) == IF stops = {} THEN None ELSE Newest(stops)

\* The first ledger the scan of the window stops at, or None.
FirstOf(stops) == IF stops = {} THEN None ELSE Oldest(stops)

Init ==
  /\ ViewInit /\ mode \in Modes
  /\ witnessed = NothingYet /\ own = NothingYet
  /\ landed = 0 /\ judged = None /\ prev = FALSE
  /\ last_validated_seq = 0 /\ signed = <<>> /\ made = NothingYet /\ starts = 0

-------------------------------------------------------------------------------
(* The tally hears, ws-sync lands *)

Hears == Heard /\ UNCHANGED <<landVars, signVars, mode, starts>>

\* ws-sync landed the next ledger and own_hash judged our hash of it: a hash
\* with no part borrowed (the parent's among them) that is the network's is
\* a witness.  Only a hash that was the network's is chained from.
Land ==
  /\ landed < LandsTo /\ judged = None
  /\ landed' = landed + 1
  /\ \E whole \in BOOLEAN, ours \in Hashes :
       /\ judged' = IF whole /\ prev THEN ours ELSE Borrowed
       /\ prev' = (ours = Net[landed'])
       /\ witnessed' = IF whole /\ prev /\ ours = Net[landed']
                         THEN Kept([witnessed EXCEPT ![landed'] = ours]) ELSE witnessed
  /\ made' = [made EXCEPT ![landed'] = judged']
  /\ UNCHANGED <<viewVars, signVars, own, mode, starts>>

\* Then own_ledger, a second call: our own hash of it, or that it is borrowed.
OwnLedger ==
  /\ judged # None
  /\ own' = Kept([own EXCEPT ![landed] = judged]) /\ judged' = None
  /\ UNCHANGED <<viewVars, signVars, landed, prev, witnessed, made, mode, starts>>

-------------------------------------------------------------------------------
(* The choice *)

HeardOrWitnessed == held \cup Known(witnessed)

\* Mutant: the witness is not held against a quorum here.
WitnessBlind(s, newest) ==
  IF QuorumOn(s) # None THEN On("Quorum", QuorumOn(s))
  ELSE IF UseWitness /\ witnessed[s] # None THEN On("Witness", witnessed[s])
  ELSE Pass

\* next_to_sign, for one ledger of the window.
QuorumChoice(s, newest) ==
  LET waiting == UseWitness /\ Known(own) # {} /\ newest <= Newest(Known(own)) + CATCH_UP
  IN IF QuorumOn(s) # None THEN On("Quorum", QuorumOn(s))
     ELSE IF UseWitness /\ witnessed[s] # None /\ reached[s] \subseteq {witnessed[s]}
       THEN On("Witness", witnessed[s])
     ELSE IF waiting /\ own[s] = None THEN Wait
     ELSE Pass

\* Mutant: a borrowed ledger is signed on the quorum's hash.
OwnOrQuorum(s, newest, breaker) ==
  IF own[s] = None THEN Wait ELSE IF QuorumOn(s) # None THEN On("Own", QuorumOn(s)) ELSE Pass

\* Mutant: a stall is waited for, breaker or not.
OwnNoStall(s, newest, breaker) ==
  IF own[s] = None THEN Wait
  ELSE IF own[s] # Borrowed /\ QuorumOn(s) = own[s] THEN On("Own", own[s])
  ELSE IF breaker /\ QuorumOn(s) # None THEN On("Quorum", QuorumOn(s)) ELSE Pass

\* next_own_to_sign, for one ledger of the window.
OwnChoice(s, newest, breaker) ==
  LET stalled  == Known(own) = {} \/ newest > Newest(Known(own)) + STALL
      fallback == IF breaker /\ QuorumOn(s) # None THEN On("Quorum", QuorumOn(s)) ELSE Pass
  IN CASE own[s] = None -> IF breaker /\ stalled THEN fallback ELSE Wait
       [] own[s] = Borrowed -> fallback
       [] own[s] \in Hashes ->
            IF QuorumOn(s) = own[s] THEN On("Own", own[s])
            ELSE IF reached[s] # {} THEN fallback
            ELSE IF witnessed[s] # own[s] THEN Pass
            ELSE IF UseWitness THEN On("Witness", own[s]) ELSE Wait

\* The newest sequence the choice looks at, and the window's first.
NewestSeen == LET S == HeardOrWitnessed \cup (IF SignsOwn THEN Known(own) ELSE {})
              IN IF S = {} THEN 0 ELSE Newest(S)

Choice(s, breaker) ==
  IF SignsOwn THEN OwnChoice(s, NewestSeen, breaker) ELSE QuorumChoice(s, NewestSeen)

From == WindowFrom(last_validated_seq, NewestSeen)

\* The ledger of the window the choice stops at, or None.
StopsAt(breaker) ==
  FirstOf({s \in Ledgers : From <= s /\ s <= NewestSeen /\ Choice(s, breaker) # Pass})

-------------------------------------------------------------------------------
(* The signing loop *)

\* The ledger is the last one looked at, signed or not.
Signs(s, hash, basis) ==
  /\ last_validated_seq' = s
  /\ \E open \in Gates :
       signed' = IF open THEN Append(signed, [seq |-> s, hash |-> hash, basis |-> basis, start |-> starts])
                           ELSE signed

\* A validation came in and the tally names a ledger to sign.
OnValidation ==
  /\ mode # "announce"
  /\ \E breaker \in {FALSE, MayBreak} :
       LET s == StopsAt(breaker)
       IN /\ s # None
          /\ Choice(s, breaker) # Wait
          /\ Signs(s, Choice(s, breaker).hash, Choice(s, breaker).basis)
  /\ UNCHANGED <<viewVars, landVars, mode, starts>>

\* A peer announces a newer ledger as accepted, with a hash or without.
OnAccepted ==
  /\ mode = "announce"
  /\ \E s \in Ledgers, h \in Hashes \cup {None} :
       /\ s > last_validated_seq
       /\ IF h = None THEN last_validated_seq' = s /\ UNCHANGED signed
                      ELSE Signs(s, h, "Verified")
  /\ UNCHANGED <<viewVars, landVars, mode, starts>>

\* The process is stopped and started: all but the store is forgotten.
Restart ==
  /\ starts < MaxStarts /\ starts' = starts + 1
  /\ held' = {} /\ reached' = [s \in Ledgers |-> {}]
  /\ witnessed' = NothingYet /\ own' = NothingYet /\ made' = NothingYet
  /\ judged' = None /\ prev' = FALSE /\ last_validated_seq' = 0
  /\ mode' \in IF ModeChanges THEN Modes ELSE {mode}
  /\ UNCHANGED <<landed, signed>>

Next == Hears \/ Land \/ OwnLedger \/ OnValidation \/ OnAccepted \/ Restart

Spec == Init /\ [][Next]_vars

\* A quorum comes in for every ledger, validations keep waking the loop, and
\* while nothing of ours is signed the breaker opens (time passes).  ws-sync
\* may stop landing at any ledger.
QuorumComes(s) == reached[s] = {} /\ (\E h \in Hashes : Hear(s, {h}))
                  /\ UNCHANGED <<landVars, signVars, mode, starts>>

BreakerOpens ==
  LET s == StopsAt(TRUE) IN
  /\ MayBreak /\ mode # "announce" /\ s # None /\ Choice(s, TRUE) # Wait
  /\ Signs(s, Choice(s, TRUE).hash, Choice(s, TRUE).basis)
  /\ UNCHANGED <<viewVars, landVars, mode, starts>>

Fairness ==
  /\ \A s \in Ledgers : WF_vars(QuorumComes(s))
  /\ WF_vars(OwnLedger) /\ WF_vars(OnValidation) /\ SF_vars(BreakerOpens)

FairSpec == Spec /\ Fairness

-------------------------------------------------------------------------------
(* Properties *)

Record == [seq : Ledgers, hash : Hashes, basis : {"Quorum", "Witness", "Own", "Verified"},
           start : 0 .. MaxStarts]

\* Every variable keeps its type; the maps keep KEEP ledgers.
TypeOK ==
  /\ mode \in Modes
  /\ held \subseteq Ledgers /\ reached \in [Ledgers -> SUBSET Hashes]
  /\ witnessed \in [Ledgers -> Hashes \cup {None}]
  /\ own \in [Ledgers -> Hashes \cup {None, Borrowed}]
  /\ made \in [Ledgers -> Hashes \cup {None, Borrowed}]
  /\ landed \in 0 .. LandsTo /\ judged \in Hashes \cup {None, Borrowed} /\ prev \in BOOLEAN
  /\ last_validated_seq \in 0 .. MaxSeq
  /\ signed \in Seq(Record) /\ starts \in 0 .. MaxStarts
  /\ \A S \in {held, Known(witnessed), Known(own)} : Cardinality(S) <= KEEP

\* "a validator cannot sign an older ledger after a newer one" (CATCH_UP), nor
\* the same twice: not in one process and, where our engine's hash is behind
\* both signatures, not across restarts.
SignsForward ==
  \A i, j \in 1 .. Len(signed) :
    /\ i < j
    /\ \/ signed[i].start = signed[j].start
       \/ {signed[i].basis, signed[j].basis} \subseteq {"Own", "Witness"}
    => signed[i].seq < signed[j].seq

\* Across restarts too, never an older ledger after a newer one.
NeverBackwards == \A i, j \in 1 .. Len(signed) : i < j => signed[i].seq <= signed[j].seq

NewSignature == Len(signed') > Len(signed)
Latest == signed'[Len(signed')]

\* "Never a hash another quorum here contradicts" (next_to_sign): whatever
\* reached the quorum for a ledger when it is signed is the hash signed.
NeverAgainstQuorum ==
  [][NewSignature => \/ Latest.basis = "Verified"
                     \/ reached[Latest.seq] \subseteq {Latest.hash}]_vars

\* A hash signed as our own, or as one .39 and our engine both have, is the
\* one our engine made of that ledger with no part borrowed; without the
\* breaker 5a signs no other.
OwnSignsItsOwn ==
  [][NewSignature =>
       /\ Latest.basis \in {"Own", "Witness"} => Latest.hash = made[Latest.seq]
       /\ Latest.basis = "Witness" => Latest.hash = Net[Latest.seq]
       /\ mode = "own" => Latest.basis # "Quorum"]_vars

\* Among the last GIVE_UP ledgers before the newest heard or, while ws-sync
\* trails by up to CATCH_UP, before the newest it landed.
InWindow(s) ==
  \/ s > NewestSeen - GIVE_UP
  \/ LET L == Known(own) IN
       L # {} /\ NewestSeen <= Newest(L) + CATCH_UP /\ s > Newest(L) - GIVE_UP

\* A ledger of the window that our engine made right, and no quorum here
\* contradicts, is not passed over for a newer one: not even between the two
\* calls that tell the tally of it.  (A stall passes over what is not landed.)
NeverPassesOver ==
  [][\A s \in last_validated_seq + 1 .. last_validated_seq' - 1 :
       mode = "announce" \/ ~InWindow(s) \/ made[s] # Net[s] \/ ~(reached[s] \subseteq {made[s]})
       \/ (mode = "quorum" /\ ~UseWitness) \/ (MayBreak /\ own[s] = None)]_vars

\* With the breaker the signing gets to the last ledgers, whether our engine
\* makes them, makes them wrong, or ws-sync stops: it waits for STALL at most.
SignsTheLast == (mode = "breaker") ~> (mode # "breaker" \/ last_validated_seq >= MaxSeq - STALL)

\* Its own hash where it should be, and never one the quorum's tally refutes (live_viewer.rs 5a).
SignsRight == NeverAgainstQuorum /\ OwnSignsItsOwn
===============================================================================
