------------------------------- MODULE MCSigning -------------------------------
(* Small instances of Signing: three ledgers, two hashes each. *)
EXTENDS Signing

CONSTANTS n, x

MCNet == [s \in 1 .. MaxSeq |-> n]
===============================================================================
