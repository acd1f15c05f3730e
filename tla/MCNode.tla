-------------------------------- MODULE MCNode --------------------------------
(***************************************************************************)
(* Small instances of the parts beside the ledger loop: the seed download    *)
(* and backfill of a cold start, the published lists, the consensus          *)
(* tracking, the mempool, the record of consensus rounds, the count of days  *)
(* signed.  `part` names the one a behaviour is about; the others keep their *)
(* first state.                                                              *)
(***************************************************************************)
EXTENDS BulkSync, UnlLists, ConsensusTracking, Mempool,
  ConsensusRecord, SignedDays

CONSTANTS A, B, v1, v2, v3, v4

MCLastKey(w) == 2 * (w + 1)

\* One entry stays, one changes at ledger 3, one is gone at 2, one is new at 2.
MCVersion(k, s) ==
  CASE k = 1 -> 1
    [] k = 2 -> IF s >= 3 THEN 3 ELSE 1
    [] k = 3 -> IF s >= 2 THEN 0 ELSE 1
    [] k = 4 -> IF s >= 2 THEN 2 ELSE 0

MCSources == <<A, B>>

MCFee(t) == (t + 1) \div 2
MCLastSeq(t) == IF t = 2 THEN 1 ELSE 0
MCSound(t) == TRUE

\* Two validators, and a list that has one of them only: the other's place on it is the first's.
MCRoundMsgs == {[kind |-> "p", by |-> 1, ok |-> TRUE], [kind |-> "v", by |-> 2, ok |-> TRUE], [kind |-> "v", by |-> 1, ok |-> TRUE]}
MCRecordLists == {<<2>>, <<1, 2>>}

VARIABLE part

book_parts == <<record_vars, day_vars>>
node_parts == <<bulk_vars, unl_vars, consensus_vars, pool_vars>>
node_vars == <<part, node_parts, book_parts>>

MCInit ==
  /\ part \in {"start", "lists", "rounds", "pool", "record", "days"}
  /\ BulkInit /\ UnlInit /\ ConsensusInit /\ PoolInit
  /\ RecordInit
  /\ DaysInit /\ (part # "days" => source)

MCNext ==
  \/ part = "start" /\ BulkNext /\ UNCHANGED <<part, unl_vars, consensus_vars, pool_vars, book_parts>>
  \/ part = "lists" /\ UnlNext /\ UNCHANGED <<part, bulk_vars, consensus_vars, pool_vars, book_parts>>
  \/ part = "rounds" /\ ConsensusNext /\ UNCHANGED <<part, bulk_vars, unl_vars, pool_vars, book_parts>>
  \/ part = "pool" /\ PoolNext /\ UNCHANGED <<part, bulk_vars, unl_vars, consensus_vars, book_parts>>
  \/ part = "record" /\ RecordNext /\ UNCHANGED <<part, node_parts, day_vars>>
  \/ part = "days" /\ DaysNext /\ UNCHANGED <<part, node_parts, record_vars>>

\* BulkFairness and ConsensusFairness, each in its own part's behaviours.
MCSpec ==
  /\ MCInit /\ [][MCNext]_node_vars
  /\ WF_bulk_vars(part = "start" /\ BulkStep)
  /\ WF_consensus_vars(part = "rounds" /\ Converge)

\* What must get done: a start that had a ledger to go on from reaches ws-sync, and proposals that
\* settled are accepted (BulkSync, ConsensusTracking).
NodeGetsThere == StartReachesSync /\ SettledIsAccepted

\* BulkSync without liveness, for the run of MarkedIsVerified.
MarksSpec == MCInit /\ part = "start" /\ [][MCNext]_node_vars
===============================================================================
