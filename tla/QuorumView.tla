------------------------------ MODULE QuorumView ------------------------------
(***************************************************************************)
(* What the tally promises those that read it: the sequences it has heard  *)
(* of and, for each, the hashes that reached the quorum.  A quorum is      *)
(* never taken back while its sequence is held, and only the oldest        *)
(* sequence is let go.  Tally implements it; Signing is built on it.       *)
(***************************************************************************)
EXTENDS Integers, FiniteSets

CONSTANTS
  Hashes, MaxSeq,
  KEEP,               \* the sequences held
  Contested           \* may two hashes of one ledger reach the quorum

Ledgers == 1 .. MaxSeq

VARIABLES held, reached

Oldest(S) == CHOOSE s \in S : \A t \in S : s <= t
Newest(S) == CHOOSE s \in S : \A t \in S : t <= s

ViewInit == held = {} /\ reached = [s \in Ledgers |-> {}]

\* A validation for ledger s is counted; its hash may reach the quorum.
Hear(s, now) ==
  /\ Contested \/ Cardinality(reached[s] \cup now) <= 1
  /\ LET all  == held \cup {s}
         gone == IF Cardinality(all) > KEEP THEN {Oldest(all)} ELSE {}
     IN /\ held' = all \ gone
        /\ reached' = [q \in Ledgers |-> IF q \in gone THEN {}
                                         ELSE IF q = s THEN reached[s] \cup now ELSE reached[q]]

Heard == \E s \in Ledgers, now \in {{}} \cup {{h} : h \in Hashes} : Hear(s, now)

ViewSpec == ViewInit /\ [][Heard]_<<held, reached>>
===============================================================================
