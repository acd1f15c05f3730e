-------------------------------- MODULE Custody --------------------------------
(***************************************************************************)
(* Value held in custody: escrows (of XRP, of an issuer's currency, of a    *)
(* multi-purpose token), checks and payment channels.                       *)
(*                                                                          *)
(* An escrow is [own, dst, asset, amt, rate, fin, cancel, cond] under       *)
(* <<"escrow", owner, sequence>>, a check [own, dst, asset, max, exp], a    *)
(* channel [own, dst, amt, bal, delay, cancel, exp].  A condition is met by *)
(* the fulfillment of the same name.                                        *)
(***************************************************************************)
EXTENDS Payments

OfEscrow(t) == <<"escrow", t.owner, t.off>>

\* The fields f of t that it carries, onto the record o.
Carry(o, t, f) == o @@ [g \in f \cap DOMAIN t |-> t[g]]

Pseudo(L, a) == HasFlag(L, a, "Pseudo")
TagMissing(L, t) == HasFlag(L, t.to, "DestTag") /\ ~With(t, "dtag")

\* A time a transaction or an object carries is strictly past.
After(L, o, f) == With(o, f) /\ L.time > o[f]

-------------------------------------------------------------------------------
(* EscrowCreate *)

\* An issuer's currency can be escrowed if it may be locked and the sender holds it freely.
LineShort(L, t) ==
  LET i == t.asset[2] IN
  \/ i = t.acct
  \/ /\ HasRoot(L, i)
     /\ \/ ~Flag(L, i, "Locking") \/ ~Has(L, Line(t.acct, i))
        \/ Frozen(L, t.acct, i) \/ Frozen(L, t.to, i)
        \/ Held(L, t.acct, i) <= 0 \/ Held(L, t.acct, i) < t.n

TokenShort(L, t) ==
  LET k == t.asset IN
  \/ Issuer(k) = t.acct \/ ~Has(L, k)
  \/ "CanEscrow" \notin L.obj[k].flags \/ ~Has(L, MPToken(k, t.acct))
  \/ MPTUnauthorized(L, k, t.acct, FALSE) \/ MPTUnauthorized(L, k, t.to, FALSE)
  \/ AnyFrozen(L, k, {t.acct, t.to}) \/ ~CanTransfer(L, k, t.acct, t.to)
  \/ Amount(L, k, t.acct) < t.n

EscrowCreatePre(L, t) ==
  LET r == L.root[t.acct]
      left == AtLeastZero(r.bal - AccountFee(t))
      reserve == Reserve(AtLeastZero(r.owners - Spent(t)) + 1)
      xrp == t.asset[1] = "xrp" IN
  Verdict(
    \/ t.n = 0
    \/ ~With(t, "fin") /\ ~With(t, "cancel")
    \/ With(t, "fin") /\ With(t, "cancel") /\ t.cancel <= t.fin
    \/ ~With(t, "fin") /\ ~With(t, "cond"),
    \/ ~HasRoot(L, t.to) \/ Pseudo(L, t.to) \/ TagMissing(L, t)
    \/ t.asset[1] = "iou" /\ LineShort(L, t)
    \/ t.asset[1] = "mpt" /\ TokenShort(L, t)
    \/ After(L, t, "cancel") \/ After(L, t, "fin")
    \/ left < reserve + (IF xrp THEN t.n ELSE 0))

\* The escrow of an issuer's currency is listed with the issuer too.
EscrowDirs(own, dst, asset) == {Own(own), Own(dst)} \cup (IF asset[1] = "iou" THEN {Own(asset[2])} ELSE {})

RateOf(L, asset) ==
  CASE asset[1] = "xrp" -> 2
    [] asset[1] = "iou" -> IF HasRoot(L, asset[2]) THEN L.root[asset[2]].rate ELSE 2
    [] asset[1] = "mpt" -> L.obj[asset].rate

EscrowCreateDo(L, t) ==
  LET a == t.acct
      k == <<"escrow", a, TxSeq(t)>>
      o == Carry([own |-> a, dst |-> t.to, asset |-> t.asset, amt |-> t.n, rate |-> RateOf(L, t.asset)],
                 t, {"fin", "cancel", "cond"})
      made == Created(L, a, k, o, EscrowDirs(a, t.to, t.asset)) IN
  CASE t.asset[1] = "xrp" -> Unless(L.root[a].bal < t.n, L, Credit(made, a, -t.n))
    [] t.asset[1] = "iou" -> Applied(LineAdjust(made, a, t.asset[2], t.n, FALSE))
    [] t.asset[1] = "mpt" -> Unless(Amount(L, t.asset, a) < t.n, L, Locks(made, t.asset, a, t.n))

-------------------------------------------------------------------------------
(* EscrowFinish *)

\* Mutant: the directories of the other parties keep the key.
TeardownOwnOnly(L, k, o) == Removed(L, o.own, k, {Own(o.own)})

\* The escrow goes, and with it its entry in every directory.
Teardown(L, k, o) == Removed(L, o.own, k, EscrowDirs(o.own, o.dst, o.asset))

EscrowFinishPre(L, t) ==
  LET o == L.obj[OfEscrow(t)] IN
  Verdict(With(t, "cond") # With(t, "fulfil"),
    \/ ~CredsValid(L, t, t.acct) \/ ~Has(L, OfEscrow(t))
    \/ /\ o.asset[1] = "mpt" /\ o.dst # Issuer(o.asset)
       /\ MPTUnauthorized(L, o.asset, o.dst, FALSE) \/ AnyFrozen(L, o.asset, {o.dst}))

\* The condition named must be the escrow's, and met.
ConditionMet(o, t) ==
  IF With(t, "cond") THEN With(o, "cond") /\ o.cond = t.cond /\ t.fulfil = t.cond ELSE ~With(o, "cond")

\* The rate kept, or the issuer's of today if that is less; an issuer's currency that has no
\* rate any more keeps the old one.
FinishRate(L, o) ==
  LET now == RateOf(L, o.asset) IN
  IF o.asset[1] = "iou" /\ now = 2 THEN o.rate ELSE Lesser(o.rate, now)

\* What the receiver gets, if neither end is the issuer.
NetFor(L, o, dst) ==
  LET kept == FinishRate(L, o) IN
  IF o.asset[2] \in {o.own, dst} THEN o.amt
  ELSE IF o.asset[1] = "iou" THEN (2 * o.amt) \div kept ELSE NetOf(o.amt, kept)

Poor(L, a, t, n) == L.root[a].bal + AccountFee(t) < Reserve(L.root[a].owners + n)

\* A holder may be given a line by the finish, but only one it asked for itself.
FinishLine(L, k, o, t, net) ==
  LET i == o.asset[2]
      d == o.dst
      recycled == IF CLEANUP /\ d = o.own THEN 1 ELSE 0
      line == L.obj[Line(d, i)] IN
  Unless(
    IF d = i THEN FALSE
    ELSE IF ~Has(L, Line(d, i))
      THEN d # t.acct \/ Unauthorized(L, d, i) \/ Poor(L, d, t, 1 - recycled)
      ELSE d # t.acct /\ Held(L, d, i) + net >= 0 /\ Held(L, d, i) + net > line.lim[Side(d, i)],
    L, Teardown(LineAdjust(L, d, i, net, TRUE), k, o))

\* mpt_unlock_plan, and the movement it plans.
Unlocked(L, o, to, t, net) ==
  LET k == o.asset
      lacks == to # Issuer(k) /\ ~Has(L, MPToken(k, to)) IN
  IF ~Has(L, k) \/ (lacks /\ (to # t.acct \/ Poor(L, to, t, 1))) THEN Claimed(L)
  ELSE Applied(Unlocks(IF lacks THEN Created(L, to, MPToken(k, to), NewToken, {Own(to)}) ELSE L, k, o.own, to, net, o.amt))

FinishToken(k, o, moved) == Then(moved, Applied(Teardown(moved.l, k, o)))

EscrowFinishDo(L, t) ==
  LET k == OfEscrow(t)
      o == L.obj[k] IN
  IF ~Has(L, k) \/ After(L, o, "cancel") \/ (With(o, "fin") /\ ~After(L, o, "fin")) THEN Claimed(L)
  ELSE IF ~ConditionMet(o, t) \/ ~HasRoot(L, o.dst) THEN Claimed(L)
  ELSE Then(DepositCheck(L, t, t.acct, o.dst),
       CASE o.asset[1] = "xrp" -> Applied(Teardown(Credit(L, o.dst, o.amt), k, o))
         [] o.asset[1] = "iou" -> FinishLine(L, k, o, t, NetFor(L, o, o.dst))
         [] o.asset[1] = "mpt" -> FinishToken(k, o, Unlocked(L, o, o.dst, t, NetFor(L, o, o.dst))))

-------------------------------------------------------------------------------
(* EscrowCancel: back to the owner, without a fee *)

EscrowCancelPre(L, t) ==
  LET o == L.obj[OfEscrow(t)] IN
  Verdict(FALSE, \/ ~Has(L, OfEscrow(t))
                 \/ o.asset[1] = "mpt" /\ MPTUnauthorized(L, o.asset, o.own, FALSE))

CancelToken(L, k, o, moved) ==
  IF moved.r = "tes" THEN Applied(Teardown(Owns(moved.l, o.own, 1), k, o)) ELSE Claimed(L)

EscrowCancelDo(L, t) ==
  LET k == OfEscrow(t)
      o == L.obj[k]
      lineless == o.own = t.acct /\ ~Has(L, Line(o.own, o.asset[2])) IN
  IF ~Has(L, k) \/ ~After(L, o, "cancel") THEN Claimed(L)
  ELSE CASE o.asset[1] = "xrp" -> Applied(Teardown(Credit(L, o.own, o.amt), k, o))
         [] o.asset[1] = "iou" ->
              Unless(o.own # o.asset[2] /\ lineless /\ Poor(L, o.own, t, IF CLEANUP THEN 0 ELSE 1),
                L, Teardown(LineAdjust(L, o.own, o.asset[2], o.amt, TRUE), k, o))
         [] o.asset[1] = "mpt" ->
              CancelToken(L, k, o, Unlocked(Owns(L, o.own, -1), o, o.own, t, o.amt))

-------------------------------------------------------------------------------
(* Checks.  A check or a channel to oneself is not among the inputs.         *)

\* At its expiration already: later than the strict rule of the other objects.
CheckOver(L, o) == With(o, "exp") /\ o.exp # 0 /\ L.time >= o.exp

\* The receiver's own freeze on its line counts too.
CheckFrozen(L, t) ==
  LET i == t.asset[2] IN
  \/ HasFlag(L, i, "GlobalFreeze")
  \/ i # t.acct /\ Frozen(L, t.acct, i)
  \/ /\ i # t.to /\ Has(L, Line(t.to, i))
     /\ Marked(L.obj[Line(t.to, i)], Side(t.to, i), "Freeze")

CheckCreatePre(L, t) ==
  Verdict(FALSE,
    \/ ~HasRoot(L, t.to) \/ {"NoCheckIn", "Pseudo"} \cap L.root[t.to].flags # {}
    \/ TagMissing(L, t) \/ CheckOver(L, t)
    \/ t.asset[1] = "iou" /\ CheckFrozen(L, t))

CheckCreateDo(L, t) ==
  Unless(Short(L, t, 1), L,
    Created(L, t.acct, <<"check", t.acct, TxSeq(t)>>,
            Carry([own |-> t.acct, dst |-> t.to, asset |-> t.asset, max |-> t.n], t, {"exp"}),
            {Own(t.acct), Own(t.to)}))

\* Cashed or cancelled.
DropCheck(L, k) == Removed(L, L.obj[k].own, k, {Own(L.obj[k].own), Own(L.obj[k].dst)})

CheckCashPre(L, t) == Verdict(With(t, "n") = With(t, "min"), FALSE)

\* The reserve of the check itself, which ends, may be spent.
Liquid(L, a) == AtLeastZero(L.root[a].bal - Reserve(L.root[a].owners)) + RESERVE_INC

CashXRP(L, k, t, value) ==
  LET o == L.obj[k]
      most == Lesser(o.max, Liquid(L, o.own))
      n == IF With(t, "min") /\ most > value THEN most ELSE value IN
  Unless(n > Liquid(L, o.own), L, DropCheck(Credit(Credit(L, o.own, -n), t.acct, n), k))

\* The casher's limit is lifted for the movement, and set back.
Lifted(L, a, i, n) ==
  IF i = a THEN L ELSE [L EXCEPT !.obj[Line(a, i)].lim[Side(a, i)] = n + AtLeastZero(Held(L, a, i))]
SetBack(L, a, i, before) ==
  IF i = a \/ ~Has(L, Line(a, i)) THEN L ELSE [L EXCEPT !.obj[Line(a, i)].lim = before.obj[Line(a, i)].lim]

Moves(L, src, i, dst, n, most, least) == Direct(L, src, i, dst, Delivery(L, src, i, dst, n, most), least)
Cashed(L, made, k, a, i, moved) ==
  IF moved.r = "tes" THEN Applied(DropCheck(SetBack(moved.l, a, i, made), k)) ELSE Claimed(L)

CashOn(L, made, k, t, value) ==
  LET o == L.obj[k]
      i == o.asset[2] IN
  Cashed(L, made, k, t.acct, i,
    Moves(Lifted(made, t.acct, i, o.max), o.own, i, t.acct, IF With(t, "min") THEN o.max ELSE value, o.max, value))

\* A line the casher lacks is made first.
CashLine(L, k, t, value) ==
  LET i == L.obj[k].asset[2]
      lacks == i # t.acct /\ ~Has(L, Line(t.acct, i)) IN
  IF lacks /\ Short(L, t, 1) THEN Claimed(L)
  ELSE CashOn(L, IF lacks THEN LineAdjust(L, t.acct, i, 0, TRUE) ELSE L, k, t, value)

CheckCashDo(L, t) ==
  LET o == L.obj[t.k]
      i == o.asset[2]
      value == IF With(t, "n") THEN t.n ELSE t.min IN
  IF ~Has(L, t.k) \/ o.dst # t.acct \/ CheckOver(L, o) \/ value > o.max THEN Claimed(L)
  ELSE IF o.asset[1] = "xrp" THEN IF value > Liquid(L, o.own) THEN Claimed(L) ELSE CashXRP(L, t.k, t, value)
  ELSE IF o.own # i /\ (Frozen(L, o.own, i) \/ value > AtLeastZero(Held(L, o.own, i))) THEN Claimed(L)
  ELSE IF i # t.acct /\ (Unauthorized(L, t.acct, i) \/ Frozen(L, t.acct, i)) THEN Claimed(L)
  ELSE CashLine(L, t.k, t, value)

CheckCancelDo(L, t) ==
  LET o == L.obj[t.k]
      over == With(o, "exp") /\ L.time >= o.exp IN
  Unless(~Has(L, t.k) \/ (~over /\ t.acct \notin {o.own, o.dst}), L, DropCheck(L, t.k))

-------------------------------------------------------------------------------
(* Payment channels *)

ChannelCreatePre(L, t) ==
  LET r == L.root[t.acct] IN
  Verdict(t.n = 0,
    \/ r.bal < Reserve(r.owners + 1) + t.n
    \/ ~HasRoot(L, t.to) \/ {"NoChanIn", "Pseudo"} \cap L.root[t.to].flags # {}
    \/ TagMissing(L, t))

ChannelCreateDo(L, t) ==
  LET a == t.acct
      o == Carry([own |-> a, dst |-> t.to, amt |-> t.n, bal |-> 0, delay |-> t.delay], t, {"cancel"}) IN
  Unless(L.root[a].bal < t.n \/ After(L, t, "cancel"), L,
    Created(Credit(L, a, -t.n), a, <<"chan", a, t.to, TxSeq(t)>>, o, {Own(a), Own(t.to)}))

\* Mutant: the whole amount goes back, the part already paid out too.
CloseChannelWhole(L, k) ==
  LET o == L.obj[k] IN
  Removed(Credit(L, o.own, o.amt), o.own, k, {Own(o.own), Own(o.dst)})

\* close_channel: what was not paid out goes back.
CloseChannel(L, k) ==
  LET o == L.obj[k] IN
  Removed(Credit(L, o.own, AtLeastZero(o.amt - o.bal)), o.own, k, {Own(o.own), Own(o.dst)})

ChannelOver(L, k) == After(L, L.obj[k], "cancel") \/ After(L, L.obj[k], "exp")

\* The end of the delay the receiver is granted.
Settles(L, o) == L.time + o.delay
Without(o, f) == [g \in DOMAIN o \ {f} |-> o[g]]

ChannelClaimPre(L, t) ==
  Verdict(\/ With(t, "n") /\ With(t, "bal") /\ t.bal > t.n
          \/ t.renew /\ t.close
          \/ t.sig /\ ~With(t, "bal"),
          ~CredsValid(L, t, t.acct))

\* The claim's new balance is more than was paid, and no more than there is.
ClaimRefused(o, t) ==
  \/ t.acct = o.dst /\ ~t.sig
  \/ t.bal > o.amt \/ t.bal <= o.bal

Claimant(L, k, t) ==
  LET o == L.obj[k] IN
  Credit([L EXCEPT !.obj[k].bal = t.bal], o.dst, t.bal - o.bal)

\* Renewing takes the expiration away; closing sets it, or ends the channel.
Renewed(L, k, t) == IF t.renew THEN [L EXCEPT !.obj[k] = Without(@, "exp")] ELSE L

Closing(L, k, t) ==
  LET o == L.obj[k] IN
  IF ~t.close THEN L
  ELSE IF o.dst = t.acct \/ o.bal = o.amt THEN CloseChannel(L, k)
  ELSE IF With(o, "exp") /\ o.exp <= Settles(L, o) THEN L
  ELSE [L EXCEPT !.obj[k] = [exp |-> Settles(L, o)] @@ @]

ChannelClaimDo(L, t) ==
  LET o == L.obj[t.k] IN
  IF ~Has(L, t.k) THEN Claimed(L)
  ELSE IF ChannelOver(L, t.k) THEN Applied(CloseChannel(L, t.k))
  ELSE IF t.acct \notin {o.own, o.dst} THEN Claimed(L)
  ELSE IF With(t, "bal") /\ (ClaimRefused(o, t) \/ ~HasRoot(L, o.dst)) THEN Claimed(L)
  ELSE Then(IF With(t, "bal") THEN DepositCheck(L, t, t.acct, o.dst) ELSE Applied(L),
         Unless(t.renew /\ t.acct # o.own,
           L, Closing(Renewed(IF With(t, "bal") THEN Claimant(L, t.k, t) ELSE L, t.k, t), t.k, t)))

ChannelFundPre(L, t) == Verdict(t.n = 0, FALSE)

ChannelFundDo(L, t) ==
  LET o == L.obj[t.k]
      r == L.root[t.acct]
      floor == IF With(o, "exp") THEN Lesser(o.exp, Settles(L, o)) ELSE Settles(L, o)
      set == IF With(t, "exp") THEN [L EXCEPT !.obj[t.k] = [exp |-> t.exp] @@ @] ELSE L IN
  IF ~Has(L, t.k) THEN Claimed(L)
  ELSE IF ChannelOver(L, t.k) THEN Applied(CloseChannel(L, t.k))
  ELSE Unless(\/ o.own # t.acct \/ (With(t, "exp") /\ t.exp < floor)
              \/ r.bal < Reserve(r.owners) + t.n \/ ~HasRoot(L, o.dst),
         L, Credit([set EXCEPT !.obj[t.k].amt = @ + t.n], t.acct, -t.n))
===============================================================================
