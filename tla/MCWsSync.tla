------------------------------- MODULE MCWsSync -------------------------------
(* Small chains for WsSync: an object is created, changed and deleted. *)
EXTENDS WsSync, TLC

CONSTANTS k1, k2, v1, v2

MCKeys == {k1, k2}
MCVals == {v1, v2}

MCChain ==
  [n \in 0 .. MaxSeq |->
     CASE n % 4 = 0 -> (k1 :> v1) @@ (k2 :> Absent)
       [] n % 4 = 1 -> (k1 :> v2) @@ (k2 :> v1)
       [] n % 4 = 2 -> (k1 :> Absent) @@ (k2 :> v1)
       [] OTHER     -> (k1 :> v1) @@ (k2 :> v1)]
===============================================================================
