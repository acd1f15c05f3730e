------------------------------- MODULE FlagLedgers -------------------------------
(***************************************************************************)
(* What every 256th ledger changes of the network itself: the Negative UNL,  *)
(* the amendments and the fees, by the pseudo transactions the validators    *)
(* agree on (tx/pseudo.rs) and the rotation of the Negative UNL before them;  *)
(* and what the node makes of it: the amendment guard's reading after a       *)
(* ledger was applied, and the votes signed on the ledger before a flag       *)
(* ledger (amendment_guard.rs, validation.rs).                                *)
(***************************************************************************)
EXTENDS Naturals, FiniteSets, Functions

CONSTANTS
  NegValidators,     \* validators the network may disable
  Amendments,
  Supported,         \* SUPPORTED_AMENDMENT_NAMES: those the node votes for
  EngineKnown,       \* ENGINE_KNOWN: those whose rules the engine has
  Fees,              \* what the fees may be
  FLAG,              \* 256 in the code
  PendingOnly,       \* XRPL_VOTE_PENDING_ONLY
  MaxFlagSeq,        \* bound
  NoOne, NoObject, NoReading

VARIABLES
  nseq,              \* the ledger being built, or the last one closed
  open,              \* it is being built
  nunl,              \* NegativeUNL: [list: validators -> FirstLedgerSequence, disable, enable], or NoObject
  amend,             \* Amendments: [enabled, majority: amendments -> CloseTime]
  fees,              \* FeeSettings
  guard,             \* ENABLED and LAST: [seq, enabled, unknown], or NoReading
  vote,              \* the last amendment vote signed: [seq, names]
  asked,             \* history: validators -> the ledger whose UNLModify asked to disable them
  since              \* history: amendments enabled -> the ledger that enabled them

flag_vars == <<nseq, open, nunl, amend, fees, guard, vote, asked, since>>

ASSUME FlagConstants ==
  /\ FLAG \in Nat \ {0} /\ MaxFlagSeq \in Nat
  /\ NoOne \notin NegValidators
  /\ NoReading \notin [seq : Nat, enabled : SUBSET Amendments, unknown : SUBSET Amendments]

IsFlag(s) == s > 0 /\ s % FLAG = 0
IsVoting(s) == IsFlag(s + 1)

Mapped(f, x, y) == [z \in DOMAIN f \cup {x} |-> IF z = x THEN y ELSE f[z]]

List(n) == IF n = NoObject THEN <<>> ELSE n.list
ToDisable(n) == IF n = NoObject THEN NoOne ELSE n.disable
ToReEnable(n) == IF n = NoObject THEN NoOne ELSE n.enable

FlagInit ==
  /\ nseq = 1 /\ open = FALSE
  /\ nunl = NoObject /\ amend = [enabled |-> {}, majority |-> <<>>] /\ fees \in Fees
  /\ guard = NoReading /\ vote = [seq |-> 0, names |-> {}]
  /\ asked = <<>> /\ since = <<>>

-----------------------------------------------------------------------------
(* rotate_negative_unl: before a flag ledger's transactions                  *)

StayedAll(n) == n.list

Stayed(n) == Restrict(n.list, DOMAIN n.list \ {n.enable})

Joined(n, s) == IF n.disable = NoOne THEN Stayed(n) ELSE Mapped(Stayed(n), n.disable, s)

Rotated(n, s) ==
  IF ToDisable(n) = NoOne /\ ToReEnable(n) = NoOne THEN n
  ELSE IF Joined(n, s) = <<>> THEN NoObject
  ELSE [list |-> Joined(n, s), disable |-> NoOne, enable |-> NoOne]

OpenNext ==
  /\ ~open /\ nseq < MaxFlagSeq
  /\ open' = TRUE /\ nseq' = nseq + 1
  /\ nunl' = IF IsFlag(nseq + 1) THEN Rotated(nunl, nseq + 1) ELSE nunl
  /\ asked' = IF IsFlag(nseq + 1) /\ ToReEnable(nunl) # NoOne THEN Restrict(asked, DOMAIN asked \ {nunl.enable}) ELSE asked
  /\ UNCHANGED <<amend, fees, guard, vote, since>>

-----------------------------------------------------------------------------
(* The pseudo transactions; one refused leaves all as it is                  *)

\* UNLModifyTransactor: the network sends it on flag ledgers; named is the ledger it says it is for.
UNLModify(v, disabling, named) ==
  /\ open /\ IsFlag(nseq) /\ named = nseq
  /\ IF disabling
     THEN /\ ToDisable(nunl) = NoOne /\ ToReEnable(nunl) # v /\ v \notin DOMAIN List(nunl)
          /\ nunl' = [list |-> List(nunl), disable |-> v, enable |-> ToReEnable(nunl)]
          /\ asked' = Mapped(asked, v, nseq)
     ELSE /\ ToReEnable(nunl) = NoOne /\ ToDisable(nunl) # v /\ v \in DOMAIN List(nunl)
          /\ nunl' = [nunl EXCEPT !.enable = v]
          /\ UNCHANGED asked
  /\ UNCHANGED <<nseq, open, amend, fees, guard, vote, since>>

\* SetFeeTransactor, of a transaction with the three new fields and none of the old.
SetFee(f) ==
  /\ open /\ IsFlag(nseq)
  /\ fees' = f
  /\ UNCHANGED <<nseq, open, nunl, amend, guard, vote, asked, since>>

\* EnableAmendmentTransactor: the majority got, lost, or neither, which enables it.
NotMajority(a) == Restrict(amend.majority, DOMAIN amend.majority \ {a})

EnableAmendment(a, got, lost) ==
  /\ open /\ IsFlag(nseq)
  /\ a \notin amend.enabled /\ ~(got /\ lost)
  /\ got => a \notin DOMAIN amend.majority
  /\ lost => a \in DOMAIN amend.majority
  /\ amend' = [enabled  |-> amend.enabled \cup (IF got \/ lost THEN {} ELSE {a}),
               majority |-> IF got THEN Mapped(NotMajority(a), a, nseq - 1) ELSE NotMajority(a)]
  /\ since' = IF got \/ lost THEN since ELSE Mapped(since, a, nseq)
  /\ UNCHANGED <<nseq, open, nunl, fees, guard, vote, asked>>

CloseLedger ==
  /\ open /\ open' = FALSE
  /\ UNCHANGED <<nseq, nunl, amend, fees, guard, vote, asked, since>>

-----------------------------------------------------------------------------
(* The node                                                                  *)

\* observe, after the native shadow applied the ledger; it misses ledgers while it has no mirror.
GuardReads ==
  /\ ~open
  /\ guard' = [seq |-> nseq, enabled |-> amend.enabled, unknown |-> amend.enabled \ EngineKnown]
  /\ UNCHANGED <<nseq, open, nunl, amend, fees, vote, asked, since>>

\* amendment_votes, of the ledger the loop signs.
AmendmentVotes ==
  IF PendingOnly /\ guard # NoReading THEN Supported \ guard.enabled ELSE Supported

SignsVote ==
  /\ ~open /\ IsVoting(nseq) /\ vote.seq < nseq
  /\ vote' = [seq |-> nseq, names |-> AmendmentVotes]
  /\ UNCHANGED <<nseq, open, nunl, amend, fees, guard, asked, since>>

UNLModifies == \E v \in NegValidators, d \in BOOLEAN, named \in {nseq, nseq + FLAG} : UNLModify(v, d, named)
EnableAmendments == \E a \in Amendments, got, lost \in BOOLEAN : EnableAmendment(a, got, lost)
SetFees == \E f \in Fees : SetFee(f)

FlagNext ==
  \/ OpenNext
  \/ UNLModifies
  \/ EnableAmendments
  \/ SetFees
  \/ CloseLedger
  \/ GuardReads
  \/ SignsVote

-----------------------------------------------------------------------------
(* Properties *)

\* What waits for the next flag ledger fits the list: who is to be disabled is not on it, who is
\* to be enabled again is, and they are two.  A validator joins the list at the flag ledger after
\* the one that asked for it, and bears that ledger's number; the object goes with its last entry.
NegativeUnlFits ==
  nunl # NoObject =>
  /\ nunl.disable \notin DOMAIN nunl.list
  /\ nunl.enable \in DOMAIN nunl.list \cup {NoOne}
  /\ nunl.disable = nunl.enable => nunl.disable = NoOne
  /\ \A v \in DOMAIN nunl.list : v \in DOMAIN asked /\ nunl.list[v] = asked[v] + FLAG
  /\ nunl.list # <<>> \/ nunl.disable # NoOne

\* An amendment that is enabled stays so and has no majority pending; a majority keeps the time it
\* was got at until it is lost.
AmendmentsOnlyAdded ==
  /\ amend.enabled \subseteq amend'.enabled
  /\ \A a \in DOMAIN amend.majority \cap DOMAIN amend'.majority : amend.majority[a] = amend'.majority[a]
NoMajorityOfEnabled == amend.enabled \cap DOMAIN amend.majority = {}

\* A vote leaves out no amendment the node supports that is still to be enabled, however old the
\* guard's reading is; what it names too many was enabled after that reading.
VoteIsWhole ==
  vote.seq = nseq /\ ~open =>
  /\ Supported \ amend.enabled \subseteq vote.names
  /\ PendingOnly /\ guard # NoReading =>
       \A a \in vote.names \cap amend.enabled : since[a] > guard.seq \/ guard.seq = nseq

\* The guard's alarm for a rule the engine has not got is never withdrawn by a later reading.
AlarmStays == guard # NoReading /\ guard.unknown # {} => guard' # NoReading /\ guard'.unknown # {}

\* The five of them: NegativeUnlFits, AmendmentsOnlyAdded, NoMajorityOfEnabled, VoteIsWhole, AlarmStays.
FlagLedgersOK ==
  /\ [](NegativeUnlFits /\ NoMajorityOfEnabled /\ VoteIsWhole)
  /\ [][AmendmentsOnlyAdded /\ AlarmStays]_flag_vars
===============================================================================
