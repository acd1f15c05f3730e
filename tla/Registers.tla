------------------------------ MODULE Registers ------------------------------
(***************************************************************************)
(* What an account registers on the ledger: price oracles, a DID,           *)
(* permissioned domains, and the bridges to another chain with the claims   *)
(* on what was sent there.                                                  *)
(*                                                                          *)
(* The fields of a DID are a set of names; an oracle's prices are reduced   *)
(* to the pairs that have one; a bridge moves XRP and is named by its door. *)
(***************************************************************************)
EXTENDS Nfts

CONSTANTS PRICE_ORDER          \* the amendment fixPriceOracleOrder is on

ASSUME RegisterConstants == PRICE_ORDER \in BOOLEAN

\* add_owned_object, from the balance after the fee; delete_owned_object.
AddOwned(L, a, k, o) ==
  Unless(L.root[a].bal < Reserve(L.root[a].owners + 1), L, Created(L, a, k, o, {Own(a)}))

DeleteOwned(L, a, k) == IF Has(L, k) THEN Applied(Removed(L, a, k, {Own(a)})) ELSE Claimed(L)

-------------------------------------------------------------------------------
(* Price oracles *)

Oracle(a, doc) == <<"oracle", a, doc>>
Units(pairs) == IF Cardinality(pairs) > 5 THEN 2 ELSE 1
OraclePairs(L, k) == IF Has(L, k) THEN L.obj[k].pairs ELSE {}

\* merge_series: a pair named without a price goes.
MergeSeries(pairs, t) == (pairs \ t.drops) \cup t.prices

\* The reserve is judged from the balance before the fee; the update time must grow.
OracleSetPre(L, t) ==
  LET k == Oracle(t.acct, t.doc)
      old == OraclePairs(L, k)
      new == MergeSeries(old, t)
      more == Units(new) - (IF Has(L, k) THEN Units(old) ELSE 0)
      r == L.root[t.acct] IN
  Verdict(Cardinality(t.drops \cup t.prices) \notin 1 .. 10,
    \/ Has(L, k) /\ (t.at <= L.obj[k].at \/ ~(t.drops \subseteq old))
    \/ Cardinality(new) \notin 1 .. 10
    \/ r.bal < Reserve(AtLeastZero(r.owners + more)))

\* A new oracle keeps the pairs without a price too, unless the amendment merges them away.
OracleSetDo(L, t) ==
  LET k == Oracle(t.acct, t.doc)
      old == OraclePairs(L, k)
      new == IF Has(L, k) \/ PRICE_ORDER THEN MergeSeries(old, t) ELSE t.prices \cup t.drops
      o == [pairs |-> new, at |-> t.at] IN
  IF Has(L, k)
    THEN Unless(Cardinality(new) \notin 1 .. 10,
           L, Owns([L EXCEPT !.obj[k] = o], t.acct, Units(new) - Units(old)))
    ELSE IF ~t.full THEN Refused(L)
    ELSE Applied(Owns(Enter(Put(L, k, o), {Own(t.acct)}, k), t.acct, Units(new)))

OracleDeleteDo(L, t) ==
  LET k == Oracle(t.acct, t.doc) IN
  Unless(~Has(L, k), L, Owns(Leave(Drop(L, k), {Own(t.acct)}, k), t.acct, -Units(OraclePairs(L, k))))

-------------------------------------------------------------------------------
(* DID *)

Did(a) == <<"did", a>>

DIDSetPre(L, t) == Verdict(t.sets \cup t.empties = {}, FALSE)

DIDSetDo(L, t) ==
  LET k == Did(t.acct)
      left == IF Has(L, k) THEN (L.obj[k].fields \ t.empties) \cup t.sets ELSE t.sets IN
  IF left = {} THEN Claimed(L)
  ELSE IF Has(L, k) THEN Applied([L EXCEPT !.obj[k].fields = left])
  ELSE AddOwned(L, t.acct, k, [fields |-> left])

DIDDeleteDo(L, t) == DeleteOwned(L, t.acct, Did(t.acct))

-------------------------------------------------------------------------------
(* Permissioned domains *)

DomainSetPre(L, t) == Verdict(t.issuers = {}, \E i \in t.issuers : ~HasRoot(L, i))

DomainSetDo(L, t) ==
  IF ~With(t, "k") THEN AddOwned(L, t.acct, <<"domain", t.acct, TxSeq(t)>>, [own |-> t.acct, issuers |-> t.issuers])
  ELSE Unless(~Has(L, t.k) \/ L.obj[t.k].own # t.acct, L, [L EXCEPT !.obj[t.k].issuers = t.issuers])

DomainDeleteDo(L, t) ==
  IF ~Has(L, t.k) \/ L.obj[t.k].own # t.acct THEN Claimed(L) ELSE DeleteOwned(L, t.acct, t.k)

-------------------------------------------------------------------------------
(* Bridges.  A door's signer list of n entries names the signers 1 .. n.     *)

Bridge(door) == <<"bridge", door>>
ClaimId(door, n) == <<"claimid", door, n>>

\* transfer, of XRP: the sender's balance goes down to zero at most, the receiver's up by all of it,
\* if there is one; nothing compares the amount with the balance (offer.rs move_leg).
Move(L, from, to, n) ==
  LET spent == Adjust(L, from, -n)
      more == (IF HasRoot(L, to) THEN n ELSE 0) - Lesser(n, L.root[from].bal) IN
  IF from = to THEN L ELSE [Adjust(spent, to, n) EXCEPT !.bridged = @ + more]

CreateBridgeDo(L, t) ==
  LET k == Bridge(t.acct) IN
  IF t.acct # t.door THEN Refused(L)
  ELSE Unless(Has(L, k), L,
         Created(L, t.acct, k, [reward |-> t.reward, claims |-> 0, creates |-> 0], {Own(t.acct)}))

ModifyBridgeDo(L, t) ==
  Unless(~Has(L, Bridge(t.acct)), L, [L EXCEPT !.obj[Bridge(t.acct)].reward = t.reward])

CreateClaimIdDo(L, t) ==
  LET b == Bridge(t.door)
      n == L.obj[b].claims + 1
      r == L.root[t.acct]
      told == [L EXCEPT !.obj[b].claims = n] IN
  Unless(~Has(L, b) \/ t.reward # L.obj[b].reward \/ r.bal < Reserve(r.owners + 1),
    L, Created(told, t.acct, ClaimId(t.door, n),
               [own |-> t.acct, src |-> t.src, reward |-> t.reward, atts |-> <<>>], {Own(t.acct)}))

CommitDo(L, t) == Unless(~Has(L, Bridge(t.door)) \/ t.door = t.acct, L, Move(L, t.acct, t.door, t.n))

CreateCommitDo(L, t) ==
  LET b == Bridge(t.door) IN
  Unless(~Has(L, b) \/ t.reward # L.obj[b].reward,
    L, [Move(Move(L, t.acct, t.door, t.n), t.acct, t.door, t.reward) EXCEPT !.obj[b].creates = @ + 1])

\* quorum_rewards: the listed signers that attest this amount, way and, if it is asked, destination.
Agreeing(L, door, atts, n, way, dsts) ==
  {s \in DOMAIN atts : /\ s \in 1 .. L.obj[Signers(door)].n
                       /\ atts[s].n = n /\ atts[s].way = way /\ atts[s].dst \in dsts}
Quorum(L, door, ss) == Cardinality(ss) >= L.obj[Signers(door)].quorum

\* finalize_claim: the owner of the claim shares the reward out.
Finalized(L, k, door, dst, n, ss) ==
  LET o == L.obj[k]
      share == IF ss = {} THEN 0 ELSE o.reward \div Cardinality(ss)
      give(s, M) == Move(M, o.own, o.atts[s].pays, share) IN
  Removed(FoldSet(give, Move(L, door, dst, n), ss), o.own, k, {Own(o.own)})

AttestDo(L, t) ==
  LET k == ClaimId(t.door, t.claim)
      told == [L EXCEPT !.obj[k].atts = (t.signer :> [n |-> t.n, way |-> t.way, dst |-> t.dst, pays |-> t.pays]) @@ @]
      ss == Agreeing(told, t.door, told.obj[k].atts, t.n, t.way, {t.dst}) IN
  IF \/ ~Has(L, Bridge(t.door)) \/ ~Has(L, Signers(t.door)) \/ ~Has(L, k)
     \/ t.signer \notin 1 .. L.obj[Signers(t.door)].n
     \/ t.src # L.obj[k].src
    THEN Claimed(L)
    ELSE Applied(IF Quorum(L, t.door, ss) THEN Finalized(told, k, t.door, t.dst, t.n, ss) ELSE told)

\* The owner names the destination itself: what was attested of it does not count.
ClaimDo(L, t) ==
  LET k == ClaimId(t.door, t.claim)
      ways == {w \in {"locking", "issuing"} :
                 Quorum(L, t.door, Agreeing(L, t.door, L.obj[k].atts, t.n, w, DOMAIN L.root))}
      way == IF "locking" \in ways THEN "locking" ELSE "issuing" IN
  IF \/ ~Has(L, Bridge(t.door)) \/ ~Has(L, k) \/ L.obj[k].own # t.acct
     \/ ~Has(L, Signers(t.door)) \/ ways = {}
    THEN Claimed(L)
    ELSE Applied(Finalized(L, k, t.door, t.dst, t.n,
                           Agreeing(L, t.door, L.obj[k].atts, t.n, way, DOMAIN L.root)))

\* No attestation of an account to be created can be met: there are no such claims.
AttestCreateDo(L, t) == Claimed(L)
===============================================================================
