---------------------------- MODULE VerifiedChain ----------------------------
(***************************************************************************)
(* What the validator's ledger store promises the rest of the node: it     *)
(* stands on one ledger of the network's chain, moves to the next one only *)
(* by verifying it, counts its unbroken run of verified ledgers (the run   *)
(* that opens the signing gate), and after a restart either stands on the  *)
(* very ledger it left or begins again from a fresh download.              *)
(*                                                                         *)
(* WsSync implements this specification.                                   *)
(***************************************************************************)
EXTENDS Naturals

CONSTANT MaxSeq         \* bound: the last ledger of the modelled chain

VARIABLES
  head,                 \* the ledger the store holds and has verified
  run,                  \* verified ledgers since the last counted mismatch
  node                  \* "down", or running since a "cold" or a "warm" start

chainVars == <<head, run, node>>

Running == node # "down"

ChainInit == head = 0 /\ run = 0 /\ node = "cold"

\* The next ledger landed and its root is the network's.
Verify ==
  /\ Running /\ head < MaxSeq
  /\ head' = head + 1 /\ run' = run + 1
  /\ UNCHANGED node

\* A ledger's bytes did not give the network's root: the run is over.
Reject ==
  /\ Running
  /\ run' = 0
  /\ UNCHANGED <<head, node>>

\* The process ended: stopped, killed or halted.
Leave ==
  /\ Running
  /\ node' = "down" /\ run' \in {run, 0}
  /\ UNCHANGED head

\* A warm start: the very ledger the store was left on.
Return ==
  /\ ~Running
  /\ node' = "warm" /\ run' = 0
  /\ UNCHANGED head

\* A cold start: a fresh download, of a ledger no older than the one left.
StartOver ==
  /\ ~Running
  /\ node' = "cold" /\ run' = 0
  /\ head' \in head .. MaxSeq

ChainNext == Verify \/ Reject \/ Leave \/ Return \/ StartOver

ChainSpec == ChainInit /\ [][ChainNext]_chainVars
==============================================================================
