---------------------------- MODULE MCNativeMirror ----------------------------
(***************************************************************************)
(* Small instances of the native engine's ledgers: the writer's mirror of   *)
(* the last one, and what a ledger is made with beside its transactions'     *)
(* effects: the order it is built in, a directory's pages, the changes of    *)
(* the flag ledgers, the tree and the buckets it is hashed with.  `part`     *)
(* names the one a behaviour is about; the others keep their first state.    *)
(*                                                                         *)
(* The mirror's chain: a and b are ordinary objects, s a system object; x    *)
(* encodes back as v, e does not encode, u does not decode.                  *)
(***************************************************************************)
EXTENDS NativeMirror, DirectoryPages, LedgerBuild, FlagLedgers, ShaMapTree, FlatHasher, Bitwise, TLC

CONSTANTS a, b, s, v, w, x, e, u, v1, v2, a1, a2

MCEncoded ==
  [y \in Vals \cup {Absent} |-> CASE y = x -> v [] y = e -> NoBytes [] OTHER -> y]

Ledger(va, vb, vs) == (a :> va) @@ (b :> vb) @@ (s :> vs)

\* The first ledgers hold what the codec cannot carry; ledgers 6, 7 and 8 each
\* create an object, so that our bytes can fail on three in a row.
MCChain ==
  [n \in 0 .. MaxSeq |->
     CASE n = 0 -> Ledger(v, x, v)
       [] n = 1 -> Ledger(e, x, v)
       [] n = 2 -> Ledger(v, Absent, w)
       [] n = 3 -> Ledger(Absent, v, v)
       [] n = 4 -> Ledger(w, u, v)
       [] n = 5 -> Ledger(Absent, Absent, v)
       [] n = 6 -> Ledger(w, Absent, v)
       [] n = 7 -> Ledger(Absent, v, v)
       [] OTHER -> Ledger(w, v, v)]

\* b is created and deleted within ledger 6.
MCNamed ==
  [n \in 1 .. MaxSeq |->
     ({k \in Keys : MCChain[n][k] # MCChain[n - 1][k]} \ {s}) \cup (IF n = 6 THEN {b} ELSE {})]

\* Seven accounts' transactions: chains of needs, tickets, a Batch, a pseudo transaction; the salts
\* differ between sets and their filed parts.
BySeq(n) == [ticket |-> FALSE, n |-> n]
ByTicket(n) == [ticket |-> TRUE, n |-> n]
MCAccount == <<1, 2, 4, 7, 3, 3, 0, 2, 3, 1>>
MCProxy == <<BySeq(1), BySeq(1), BySeq(1), BySeq(1), BySeq(2), BySeq(1), BySeq(0), ByTicket(0), BySeq(2), ByTicket(0)>>
MCNeeds == <<{2}, {3}, {4}, {}, {}, {}, {}, {7}, {}, {6}>>
MCLacking == <<"ter", "ter", "tec", "ter", "ter", "ter", "tec", "kept", "tec", "ter">>
MCInner == [t \in BuildTxs |-> IF t = 6 THEN {9} ELSE {}]
MCSaltOf(S) == (FoldSet(+, 6, S)) % 8
MCXor(m, n) == m ^^ n
MCSets == (SUBSET (1 .. 5) \cup SUBSET (4 .. 8) \cup SUBSET {3, 6, 7, 10} \cup {{2, 3, 4, 7, 8}}) \ {{}}

\* Keys of three binary nibbles: two that share all but the last, one that leaves them at the second,
\* one that leaves them at the first.
MCTreeKeys == {<<0, 0, 0>>, <<0, 0, 1>>, <<0, 1, 0>>, <<1, 0, 0>>}
MCStores == UNION {[S -> {1}] : S \in SUBSET MCTreeKeys}

VARIABLE part

ledger_parts == <<dir_vars, build_vars, flag_vars>>
tree_parts == <<map_vars, hasher_vars>>
all_parts == <<part, vars, ledger_parts, tree_parts>>

MCInit ==
  /\ part \in {"mirror", "directory", "build", "flags", "map", "hasher"}
  /\ Init
  /\ DirInit /\ (part # "directory" => book /\ old = 0)
  /\ BuildInit /\ (part # "build" => mode = "on")
  /\ FlagInit
  /\ MapInit /\ (part # "map" => hash_only)
  /\ HasherInit /\ (part # "hasher" => db = <<>>)

MCNext ==
  \/ part = "mirror" /\ Next /\ UNCHANGED <<part, ledger_parts, tree_parts>>
  \/ part = "directory" /\ DirNext /\ UNCHANGED <<part, vars, build_vars, flag_vars, tree_parts>>
  \/ part = "build" /\ BuildNext /\ UNCHANGED <<part, vars, dir_vars, flag_vars, tree_parts>>
  \/ part = "flags" /\ FlagNext /\ UNCHANGED <<part, vars, dir_vars, build_vars, tree_parts>>
  \/ part = "map" /\ MapNext /\ UNCHANGED <<part, vars, ledger_parts, hasher_vars>>
  \/ part = "hasher" /\ HasherNext /\ UNCHANGED <<part, vars, ledger_parts, map_vars>>

MCSpec == MCInit /\ [][MCNext]_all_parts

\* What holds of the ledger's structures, and of the ledger built of a set of transactions, each in its
\* part: DirectoryPages!DirectoryOK, ShaMapTree!MapOK, FlatHasher!HasherOK, LedgerBuild!BuildOK.
FormsSound ==
  /\ part = "directory" => DirectoryOK
  /\ part = "map" => MapOK
  /\ part = "hasher" => HasherOK
  /\ part = "build" => BuildOK
===============================================================================
