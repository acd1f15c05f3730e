------------------------------- MODULE Payments -------------------------------
(***************************************************************************)
(* Payment without paths: of XRP, of an issuer's currency straight through  *)
(* the issuer, of a multi-purpose token.  Rates are in halves, 2 is none.   *)
(* XRPL_FLOW_ENGINE is not set: the flow engine's port takes no part.       *)
(***************************************************************************)
EXTENDS Tokens

\* Asset kinds: <<"xrp">>, <<"iou", issuer>>, <<"mpt", issuer, sequence>>.
PaymentPre(L, t) ==
  LET xrp == t.asset[1] = "xrp"
      r == L.root[t.acct] IN
  Verdict(
    \/ t.n = 0 \/ t.to = t.acct
    \/ xrp /\ (With(t, "max") \/ Partly(t))
    \/ With(t, "min") /\ (~Partly(t) \/ t.min \notin 1 .. t.n),
    \/ ~CredsValid(L, t, t.acct)
    \/ ~HasRoot(L, t.to) /\ (~xrp \/ t.n < RESERVE_BASE)
    \/ HasFlag(L, t.to, "DestTag") /\ ~With(t, "dtag")
    \/ xrp /\ r.bal < t.n + Reserve(AtLeastZero(r.owners - Spent(t))))

-------------------------------------------------------------------------------
(* Straight through the issuer: apply_iou_direct_out *)

\* The issuer's own lines to both ends refuse to pass the payment on.
NoRipple(L, src, issuer, dst) ==
  \/ ~Has(L, Line(src, issuer)) \/ ~Has(L, Line(issuer, dst))
  \/ /\ Marked(L.obj[Line(src, issuer)], Side(issuer, src), "NoRipple")
     /\ Marked(L.obj[Line(issuer, dst)], Side(issuer, dst), "NoRipple")

HopFrozen(L, src, dst) ==
  \/ HasFlag(L, dst, "GlobalFreeze")
  \/ /\ Has(L, Line(src, dst))
     /\ \/ Marked(L.obj[Line(src, dst)], Side(dst, src), "Freeze")
        \/ \E s \in {"low", "high"} : Marked(L.obj[Line(src, dst)], s, "DeepFreeze")

\* What dst still trusts src for.
Room(L, src, dst) ==
  IF Has(L, Line(src, dst)) THEN AtLeastZero(L.obj[Line(src, dst)].lim[Side(dst, src)] - AtLeastZero(-Held(L, src, dst)))
  ELSE 0

Spendable(L, src, issuer, dst) ==
  LET held == AtLeastZero(Held(L, src, issuer)) IN
  IF dst # issuer /\ Frozen(L, src, issuer) THEN 0
  ELSE IF held > 0 THEN held
  ELSE IF dst # issuer /\ HopFrozen(L, src, issuer) THEN 0 ELSE Room(L, src, issuer)

\* dest_receivable
Receivable(L, dst, issuer) ==
  LET held == Held(L, dst, issuer) IN
  IF held = 0 /\ Unauthorized(L, dst, issuer) THEN 0
  ELSE IF held < 0 THEN -held
  ELSE AtLeastZero(L.obj[Line(dst, issuer)].lim[Side(dst, issuer)] - held)

Least(S) == CHOOSE n \in S : \A o \in S : n <= o

Spends(avail, cap, target, rate) == Least({avail, cap, (target * rate + 1) \div 2})
Gets(spend, target, rate) == [spend |-> spend, get |-> Lesser((2 * spend) \div rate, target)]

\* What a payment of at most n takes from src, and what dst gets of it.
Delivery(L, src, issuer, dst, n, cap) ==
  LET rate == IF issuer \in {src, dst} THEN 2 ELSE L.root[issuer].rate
      target == IF dst = issuer THEN n ELSE Lesser(n, Receivable(L, dst, issuer))
      avail == IF src = issuer THEN n ELSE Spendable(L, src, issuer, dst) IN
  Gets(Spends(avail, cap, target, rate), target, rate)

\* The delivery d, which is nothing if it is less than it must be.
Direct(L, src, issuer, dst, d, least) ==
  IF \/ dst # issuer /\ ~Has(L, Line(dst, issuer))
     \/ issuer \notin {src, dst} /\ (NoRipple(L, src, issuer, dst) \/ HopFrozen(L, issuer, dst))
    THEN Claimed(L)
    ELSE Unless(d.get = 0 \/ d.get < least,
           L, LineAdjust(LineAdjust(L, src, issuer, d.spend, FALSE), dst, issuer, d.get, TRUE))

-------------------------------------------------------------------------------
(* do_apply *)

NewRoot(L, n) ==
  [bal |-> n, seq |-> L.lseq + 1, owners |-> 0, tickets |-> 0, txid |-> 0,
   minted |-> 0, burned |-> 0, first |-> 0, minter |-> 0, rate |-> 2, flags |-> {}]

PayXRP(L, t) ==
  LET spent == Credit(L, t.acct, -t.n) IN
  Unless(\/ L.root[t.acct].bal < t.n
         \/ ~HasRoot(L, t.to) /\ t.n < RESERVE_BASE,
    L,
    IF HasRoot(L, t.to) THEN SetFlags(Credit(spent, t.to, t.n), t.to, {}, {"PasswordSpent"})
    ELSE [spent EXCEPT !.root = (t.to :> NewRoot(L, t.n)) @@ @])

PayIOU(L, t) ==
  LET i == t.asset[2] IN
  Direct(L, t.acct, i, t.to, Delivery(L, t.acct, i, t.to, t.n, Field(t, "max", t.n)), IF Partly(t) THEN 0 ELSE t.n)

\* A little XRP may go to a poor account without its permission.
Gated(L, t) ==
  HasRoot(L, t.to) /\ (t.asset[1] # "xrp" \/ t.n > RESERVE_BASE \/ L.root[t.to].bal > RESERVE_BASE)

PaymentDo(L, t) ==
  IF HasFlag(L, t.to, "Pseudo") THEN Claimed(L)
  ELSE IF t.asset[1] = "mpt" THEN PayMPT(L, t)
  ELSE Then(IF Gated(L, t) THEN DepositCheck(L, t, t.acct, t.to) ELSE Applied(L),
            IF t.asset[1] = "xrp" THEN PayXRP(L, t) ELSE PayIOU(L, t))
===============================================================================
