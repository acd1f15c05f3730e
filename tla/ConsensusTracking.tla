--------------------------- MODULE ConsensusTracking ---------------------------
(***************************************************************************)
(* The consensus tracker: transactions collected while a ledger is open, a   *)
(* position taken at its close, moved towards the trusted validators' with  *)
(* rising thresholds, and accepted (consensus_engine.rs, consensus/*.rs),   *)
(* and the votes beside it: close time, fees, amendments.                  *)
(***************************************************************************)
EXTENDS Integers, FiniteSets, FiniteSetsExt

CONSTANTS
  Proposers, Trusted,  \* validators heard, and those of the list
  Txs,
  MaxRounds, MaxChanges,
  SettleRound,         \* the round by which the proposals have settled
  Times,               \* close times a validator may propose
  NoProposal

ASSUME TrustedFinite == IsFiniteSet(Trusted)
ASSUME NoProposalIsNone == \A set \in SUBSET Txs : NoProposal # set

VARIABLES
  phase, con_round,
  pool,       \* transactions collected
  our_set, agreed,
  proposals,  \* validator -> the set it proposes
  stable, changes,
  close_votes \* validator -> the close time it proposes

consensus_vars == <<phase, con_round, pool, our_set, agreed, proposals, stable, changes, close_votes>>

TrustedCount == Cardinality(Trusted)

\* Mutant: the threshold keeps rising to all of the list.
ThresholdRises(r) == 40 + 15 * r

\* In percent of the trusted list, by round.
Threshold(r) == IF r <= 3 THEN 40 + 10 * r ELSE IF r <= 8 THEN 80 ELSE 95

Backers(tx) == {v \in Trusted : proposals[v] # NoProposal /\ tx \in proposals[v]}

\* Mutant: a validator that is not trusted counts.
AgreeingOfAll(set) == {v \in Proposers : proposals[v] = set}

Agreeing(set) == {v \in Trusted : proposals[v] = set}

\* update_position, of a position in a round: our own set is no vote.
Updated(ours, r) ==
  {tx \in Txs : /\ tx \in ours \union UNION {proposals[v] : v \in {w \in Trusted : proposals[w] # NoProposal}}
                /\ 100 * Cardinality(Backers(tx)) >= Threshold(r) * TrustedCount}

IsConsensusReached(set, quiet) ==
  quiet >= 2 /\ TrustedCount > 0 /\ 100 * Cardinality(Agreeing(set)) >= 80 * TrustedCount

ConsensusInit ==
  /\ phase = "open" /\ con_round = 0 /\ pool = {} /\ our_set = {} /\ agreed = {}
  /\ proposals = [v \in Proposers |-> NoProposal] /\ stable = 0 /\ changes = 0
  /\ close_votes = [v \in Proposers |-> 0]

OnTransaction(tx) ==
  /\ phase = "open" /\ pool' = pool \union {tx}
  /\ UNCHANGED <<phase, con_round, our_set, agreed, proposals, stable, changes, close_votes>>

OnCloseTrigger ==
  /\ phase = "open"
  /\ our_set' = pool /\ phase' = "establish" /\ con_round' = 1 /\ stable' = 0
  /\ UNCHANGED <<pool, agreed, proposals, changes, close_votes>>

\* A proposal, in any phase; the newest of a validator replaces the one before.
OnPeerProposal(v, set, t) ==
  /\ changes < MaxChanges /\ con_round <= SettleRound
  /\ proposals' = [proposals EXCEPT ![v] = set] /\ changes' = changes + 1
  /\ close_votes' = [close_votes EXCEPT ![v] = t]
  /\ UNCHANGED <<phase, con_round, pool, our_set, agreed, stable>>

\* A round of converge: the position moves, and when it stayed the same twice and the quorum
\* proposes it, it is accepted.
Converge ==
  /\ phase = "establish" /\ con_round <= MaxRounds
  /\ our_set' = IF TrustedCount = 0 THEN our_set ELSE Updated(our_set, con_round)
  /\ stable' = IF our_set' = our_set THEN stable + 1 ELSE 0
  /\ con_round' = con_round + 1
  /\ IF IsConsensusReached(our_set', stable')
     THEN phase' = "accept" /\ agreed' = our_set'
     ELSE UNCHANGED <<phase, agreed>>
  /\ UNCHANGED <<pool, proposals, changes, close_votes>>

NextRound ==
  /\ phase = "accept"
  /\ pool' = pool \ agreed /\ agreed' = {} /\ our_set' = {}
  /\ proposals' = [v \in Proposers |-> NoProposal]
  /\ phase' = "open" /\ con_round' = 0 /\ stable' = 0
  /\ UNCHANGED <<changes, close_votes>>

ConsensusNext ==
  \/ \E tx \in Txs : OnTransaction(tx)
  \/ OnCloseTrigger \/ Converge \/ NextRound
  \/ \E v \in Proposers, set \in SUBSET Txs, t \in Times : OnPeerProposal(v, set, t)

ConsensusSpec == ConsensusInit /\ [][ConsensusNext]_consensus_vars

-----------------------------------------------------------------------------
(* Close time *)

\* In seconds, by round.
Resolution(r) == IF r <= 1 THEN 30 ELSE IF r = 2 THEN 20 ELSE IF r = 3 THEN 10 ELSE 1

Rounded(t, res) == ((t + res \div 2) \div res) * res

\* The count of each rounded time, our own among them; the list's size is what they are held
\* against.  Of equal counts any may come out first.
CloseCounts(ours, r) ==
  LET voters == {v \in Trusted : close_votes[v] # 0}
      votes == {Rounded(close_votes[v], Resolution(r)) : v \in voters} \union {Rounded(ours, Resolution(r))}
  IN [t \in votes |-> Cardinality({v \in voters : Rounded(close_votes[v], Resolution(r)) = t})
                        + IF t = Rounded(ours, Resolution(r)) THEN 1 ELSE 0]

\* Mutant: our own time, whatever the others say.
OursAlways(ours, r) == {Rounded(ours, Resolution(r))}

NegotiatedTimes(ours, r) ==
  LET counts == CloseCounts(ours, r)
      modes == {t \in DOMAIN counts : \A u \in DOMAIN counts : counts[u] <= counts[t]}
      total == Max({TrustedCount, 1})
  IN {IF 2 * counts[t] >= total THEN t ELSE Rounded(ours, Resolution(r)) : t \in modes}

-----------------------------------------------------------------------------
(* Properties *)

\* What a tracker accepts is what every other that heard the same proposals moves to in its next
\* round, up to the eighth, whatever its own position: no two accept different sets on the same
\* proposals.  Past the eighth the threshold of 95% may take out of a position what four in five
\* accepted (threshold.rs is_consensus_reached, update_position).
OthersFollow ==
  [][phase = "establish" /\ phase' = "accept"
       => \A ours \in SUBSET Txs, r \in 1 .. 8 : Updated(ours, r) = agreed']_consensus_vars

\* Proposals that settle on one set before the last threshold applies are accepted: the position
\* comes to theirs, whatever it was, and stays.
Settled(set) == phase = "establish" /\ con_round <= SettleRound /\ changes = MaxChanges
                /\ 100 * Cardinality(Agreeing(set)) >= 80 * TrustedCount
SettledIsAccepted == (\E set \in SUBSET Txs : Settled(set)) ~> phase = "accept"

\* Two trackers that heard the same proposals negotiate the same close time, whatever their own
\* clocks say, when those of the list that round to it are more than half of the list and one, our
\* own vote.  With just half of these the count may tie with our own time's, and the order of a
\* HashMap decides (close_time.rs:48-59): nothing is claimed then.
SameCloseTime ==
  \A r \in 1 .. 4 : \A t \in {Rounded(u, Resolution(r)) : u \in Times} :
    2 * Cardinality({v \in Trusted : close_votes[v] # 0 /\ Rounded(close_votes[v], Resolution(r)) = t}) > TrustedCount + 1
      => \A ours \in Times : NegotiatedTimes(ours, r) = {t}

ConsensusFairness == WF_consensus_vars(Converge)

\* Two of the tracker's promises together: on the same proposals one set and one close time
\* (threshold.rs, close_time.rs).
RoundsSound == []SameCloseTime /\ OthersFollow
=================================================================================
