------------------------------- MODULE MCTally --------------------------------
(* Small lists for Tally: three validators, one of them faulty, two hashes. *)
EXTENDS Tally

CONSTANTS v1, v2, v3, h1, h2, t1, t2, Disabled

MCLists == {Validators}

MCNet == [s \in 1 .. MaxSeq |-> h1]

MCSetOf == [h \in Hashes |-> IF h = h1 THEN t1 ELSE t2]

\* Ledger 0 disables some validators, the later ones none.
MCNegativeAt == [s \in 0 .. MaxSeq |-> IF s = 0 THEN Disabled ELSE {}]
===============================================================================
