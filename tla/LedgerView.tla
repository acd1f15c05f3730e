------------------------------ MODULE LedgerView ------------------------------
(***************************************************************************)
(* A ledger as the transactors see it, and the helpers they share.          *)
(*                                                                          *)
(*   root   account -> [bal, seq, owners, tickets, txid, minted, burned,    *)
(*          first, minter, rate, flags]; minter and first are 0 if unset, a *)
(*          field that is only present or absent (RegularKey) is a flag     *)
(*   obj    key -> object; a key is <<type, ...>>                           *)
(*   dir    the pairs <<directory, key>>; an account's is <<"own", a>>      *)
(*   time   the close time of the ledger before;  lseq its sequence         *)
(*   bridged   history: what the transfers of bridges added to the XRP      *)
(*          there is, or took from it                                       *)
(*                                                                          *)
(* Amounts are whole numbers.  A directory is the set of its entries here;  *)
(* how it lays them on pages is in DirectoryPages.  A transaction is a      *)
(* record; an optional field it does not carry is not in its domain.        *)
(***************************************************************************)
EXTENDS Integers, FiniteSets, Sequences, TLC

CONSTANTS
  RESERVE_BASE, RESERVE_INC,   \* FeeSettings
  FEE                          \* what a transaction burns

ASSUME LedgerConstants == {RESERVE_BASE, RESERVE_INC, FEE} \subseteq Nat

Field(t, f, default) == IF f \in DOMAIN t THEN t[f] ELSE default
With(t, f) == f \in DOMAIN t

AtLeastZero(n) == IF n < 0 THEN 0 ELSE n
Lesser(a, b) == IF a <= b THEN a ELSE b

-------------------------------------------------------------------------------
(* Reading *)

HasRoot(L, a) == a \in DOMAIN L.root
Has(L, k) == k \in DOMAIN L.obj
Flag(L, a, f) == f \in L.root[a].flags
Own(a) == <<"own", a>>
Listed(L, a) == {k \in DOMAIN L.obj : <<Own(a), k>> \in L.dir}
Reserve(owners) == RESERVE_BASE + RESERVE_INC * owners

\* An inner transaction of a batch bears none; the account itself none when a delegate does.
FeeOf(t) == IF With(t, "inner") THEN 0 ELSE FEE
AccountFee(t) == IF With(t, "del") THEN 0 ELSE FeeOf(t)

\* Too little, before the fee, for the reserve of n more objects.
Short(L, t, n) == L.root[t.acct].bal + AccountFee(t) < Reserve(L.root[t.acct].owners + n)

\* An object of any kind is past its expiration: strictly.
Past(L, o) == With(o, "exp") /\ L.time > o.exp

-------------------------------------------------------------------------------
(* Writing *)

\* owner_count_add: nothing for an account that is gone, never below zero.
Owns(L, a, n) == IF HasRoot(L, a) THEN [L EXCEPT !.root[a].owners = AtLeastZero(@ + n)] ELSE L

Credit(L, a, n) == [L EXCEPT !.root[a].bal = @ + n]
SetFlags(L, a, on, off) == [L EXCEPT !.root[a].flags = (@ \cup on) \ off]

Put(L, k, o) == [L EXCEPT !.obj = (k :> o) @@ L.obj]
Drop(L, k) == [L EXCEPT !.obj = [x \in DOMAIN L.obj \ {k} |-> L.obj[x]]]
Enter(L, dirs, k) == [L EXCEPT !.dir = @ \cup {<<d, k>> : d \in dirs}]
Leave(L, dirs, k) == [L EXCEPT !.dir = @ \ {<<d, k>> : d \in dirs}]

\* A new object its owner pays the reserve of; and its end.
Created(L, a, k, o, dirs) == Owns(Enter(Put(L, k, o), dirs, k), a, 1)
Removed(L, a, k, dirs) == Owns(Leave(Drop(L, k), dirs, k), a, -1)

-------------------------------------------------------------------------------
(* Verdicts: "tes" applied; "tec" only the fee is taken; "rej" nothing       *)
(* happens (tem, tef, ter, tel); "expired" and "killed", tec with an effect. *)

Verdict(refused, claimed) == IF refused THEN "rej" ELSE IF claimed THEN "tec" ELSE "tes"

Result(r, L) == [r |-> r, l |-> L]
Applied(L) == Result("tes", L)
Claimed(L) == Result("tec", L)
Refused(L) == Result("rej", L)

\* A check, then an effect; the result of a first step, then that of a next.
Unless(claimed, L, after) == IF claimed THEN Claimed(L) ELSE Applied(after)
Then(first, next) == IF first.r = "tes" THEN next ELSE first
===============================================================================
