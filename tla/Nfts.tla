--------------------------------- MODULE Nfts ---------------------------------
(***************************************************************************)
(* The NFToken transactions (tx/nftoken.rs): mint, burn, the offers to sell *)
(* and to buy, their acceptance, with a broker or without, and their end.   *)
(*                                                                          *)
(* An offer is <<"nftoffer", owner, sequence>> -> [own, id, sell, asset,    *)
(* amt, book] with dst and exp if it has them; book is the directory of the *)
(* token's offers it is in.  A token's fee is in halves (one is 50%, the    *)
(* most there is).  A token has fewer offers than a burn deletes at once.   *)
(***************************************************************************)
EXTENDS NftPages

Book(id, sell) == <<IF sell THEN "sells" ELSE "buys", id>>

\* Not strictly past, unlike the other objects.
Ended(L, o) == With(o, "exp") /\ L.time >= o.exp

HalfEven(n) == IF n % 2 = 0 \/ (n \div 2) % 2 = 0 THEN n \div 2 ELSE n \div 2 + 1

IsOffer(L, k) == Has(L, k) /\ k[1] = "nftoffer"

\* delete_offer, for a set of them.
DropOffers(L, ks) ==
  [L EXCEPT !.obj  = [k \in DOMAIN L.obj \ ks |-> L.obj[k]],
            !.dir  = @ \ UNION {{<<Own(L.obj[k].own), k>>, <<L.obj[k].book, k>>} : k \in ks},
            !.root = [a \in DOMAIN L.root |->
                       [L.root[a] EXCEPT !.owners = AtLeastZero(@ - Cardinality({k \in ks : L.obj[k].own = a}))]]]

-------------------------------------------------------------------------------
(* An offer is made *)

\* What an account can pay of an asset.
Available(L, a, asset) ==
  IF asset[1] = "xrp" THEN AtLeastZero(L.root[a].bal - Reserve(L.root[a].owners))
  ELSE IF Frozen(L, a, asset[2]) THEN 0 ELSE AtLeastZero(Held(L, a, asset[2]))

NoOffersIn(L, a) == ~HasRoot(L, a) \/ Flag(L, a, "NoNFTIn")

\* token_offer_create_preclaim: flags and fee are the token's, to be minted or there.
TokenOfferRefused(L, t, issuer, flags, fee, sell) ==
  LET iou == t.asset[1] = "iou"
      i == t.asset[2] IN
  \/ /\ iou /\ "lines" \notin flags /\ fee # 0
     /\ ~HasRoot(L, issuer) \/ (issuer # i /\ ~Has(L, Line(issuer, i))) \/ Frozen(L, issuer, i)
  \/ iou /\ t.acct = i /\ ~CLEANUP /\ HasFlag(L, i, "GlobalFreeze")
  \/ iou /\ (Frozen(L, t.acct, i) \/ ~HasRoot(L, i) \/ Unauthorized(L, t.acct, i))
  \/ ~sell /\ ~(iou /\ t.acct = i) /\ Available(L, t.acct, t.asset) = 0
  \/ With(t, "dst") /\ NoOffersIn(L, t.dst)
  \/ ~sell /\ NoOffersIn(L, t.owner)

\* token_offer_create_apply
OfferMade(L, t, id, sell) ==
  Created(L, t.acct, <<"nftoffer", t.acct, TxSeq(t)>>,
    Carry([own |-> t.acct, id |-> id, sell |-> sell, asset |-> t.asset, amt |-> t.n, book |-> Book(id, sell)],
          t, {"dst", "exp"}),
    {Own(t.acct), Book(id, sell)})

\* Owners that grew must be paid for from the balance before the fee.
UnlessPoor(before, t, after) ==
  LET r == after.root[t.acct] IN
  Unless(r.owners > before.root[t.acct].owners /\ r.bal + AccountFee(t) < Reserve(r.owners), before, after)

OfferCreatePre(L, t) ==
  Verdict(\/ With(t, "dst") /\ t.dst = t.acct
          \/ t.selling = With(t, "owner") \/ (~t.selling /\ t.owner = t.acct),
          \/ Ended(L, t)
          \/ ~HasToken(L, IF t.selling THEN t.acct ELSE t.owner, t.id)
          \/ TokenOfferRefused(L, t, TokIssuer(t.id), TokFlags(t.id), TokFee(t.id), t.selling))

OfferCreateDo(L, t) == UnlessPoor(L, t, OfferMade(L, t, t.id, t.selling))

-------------------------------------------------------------------------------
(* NFTokenMint, for oneself or for an issuer that names the minter *)

MintPre(L, t) ==
  LET issuer == Field(t, "issuer", t.acct) IN
  Verdict(FALSE,
    \/ issuer # t.acct /\ (~HasRoot(L, issuer) \/ L.root[issuer].minter # t.acct)
    \/ With(t, "n") /\ (Ended(L, t) \/ TokenOfferRefused(L, t, issuer, t.flags, t.fee, TRUE)))

\* An issuer's first token takes the sequence of the transaction that mints it, when that is its own.
FirstSeq(L, t, issuer) ==
  LET r == L.root[issuer] IN
  IF r.first # 0 THEN r.first ELSE IF With(t, "issuer") \/ With(t, "ticket") THEN r.seq ELSE r.seq - 1

\* A page more is paid for.
PaidFor(put, a) == IF put.made THEN Owns(put.l, a, 1) ELSE put.l

Counted(L, issuer, first) == [L EXCEPT !.root[issuer] = [@ EXCEPT !.minted = @ + 1, !.first = first]]

MintDo(L, t) ==
  LET issuer == Field(t, "issuer", t.acct)
      first == FirstSeq(L, t, issuer)
      id == <<"nft", t.flags, t.fee, issuer, t.x, first + L.root[issuer].minted>>
      told == Counted(PaidFor(PageInsert(L, t.acct, id), t.acct), issuer, first) IN
  UnlessPoor(L, t, IF With(t, "n") THEN OfferMade(told, t, id, TRUE) ELSE told)

-------------------------------------------------------------------------------
(* NFTokenBurn *)

BurnPre(L, t) ==
  LET issuer == TokIssuer(t.id) IN
  Verdict(FALSE,
    /\ t.owner # t.acct
    /\ \/ "burnable" \notin TokFlags(t.id)
       \/ issuer # t.acct /\ HasRoot(L, issuer) /\ L.root[issuer].minter # t.acct)

\* burn_token_offers
OffersOf(L, id) == {k \in DOMAIN L.obj : {<<Book(id, TRUE), k>>, <<Book(id, FALSE), k>>} \cap L.dir # {}}

DropOffersOf(L, id) == DropOffers(L, OffersOf(L, id))

\* Pages less are not paid for any more.
Relieved(cut, a) == Owns(cut.l, a, -cut.gone)

BurnCounted(L, issuer) == IF HasRoot(L, issuer) THEN [L EXCEPT !.root[issuer].burned = @ + 1] ELSE L

BurnDo(L, t) ==
  IF ~HasToken(L, t.owner, t.id) THEN Claimed(L)
  ELSE Applied(DropOffersOf(BurnCounted(Relieved(PageRemove(L, t.owner, t.id), t.owner), TokIssuer(t.id)), t.id))

-------------------------------------------------------------------------------
(* NFTokenAcceptOffer *)

\* nft_funds_short
FundsShort(L, a, o) ==
  /\ ~(o.asset[1] = "iou" /\ a = o.asset[2])
  /\ Available(L, a, o.asset) < o.amt

\* An end of the deal may not hold the currency.
MayNotHold(L, a, asset) == asset[1] = "iou" /\ (~HasRoot(L, asset[2]) \/ Unauthorized(L, a, asset[2]))
DeepFrozen(L, a, asset) ==
  /\ asset[1] = "iou" /\ a # asset[2] /\ Has(L, Line(a, asset[2]))
  /\ \E s \in {"low", "high"} : Marked(L.obj[Line(a, asset[2])], s, "DeepFreeze")
Barred(L, a, asset) == MayNotHold(L, a, asset) \/ DeepFrozen(L, a, asset)

\* The two offers a broker brings together, and what it keeps.
BrokerRefused(L, t, s, b) ==
  LET fee == Field(t, "cut", 0) IN
  \/ b.id # s.id \/ b.asset # s.asset \/ b.own = s.own \/ s.amt > b.amt
  \/ \E o \in {s, b} : With(o, "dst") /\ o.dst # t.acct
  \/ fee > 0 /\ (fee >= b.amt \/ s.amt > b.amt - fee \/ Barred(L, t.acct, b.asset))

BuyRefused(L, t, b, alone) ==
  \/ b.sell \/ b.own = t.acct
  \/ alone /\ (~HasToken(L, t.acct, b.id) \/ (With(b, "dst") /\ b.dst # t.acct))
  \/ FundsShort(L, b.own, b) \/ MayNotHold(L, b.own, b.asset)
  \/ alone /\ Barred(L, t.acct, b.asset)

SellRefused(L, t, s, alone) ==
  \/ ~s.sell \/ s.own = t.acct \/ ~HasToken(L, s.own, s.id)
  \/ alone /\ ((With(s, "dst") /\ s.dst # t.acct) \/ FundsShort(L, t.acct, s) \/ MayNotHold(L, t.acct, s.asset))
  \/ Barred(L, s.own, s.asset)

\* The issuer, who gets a share, must be able to.
RoyaltyRefused(L, o) ==
  LET minter == TokIssuer(o.id) IN
  /\ TokFee(o.id) # 0 /\ o.asset[1] = "iou"
  /\ \/ "lines" \notin TokFlags(o.id) /\ minter # o.asset[2] /\ ~Has(L, Line(minter, o.asset[2]))
     \/ Barred(L, minter, o.asset)

AcceptPre(L, t) ==
  LET named == {f \in {"buy", "sell"} : With(t, f)}
      both == named = {"buy", "sell"} IN
  Verdict(named = {} \/ (With(t, "cut") /\ (~both \/ t.cut = 0)),
    \/ \E f \in named : ~IsOffer(L, t[f])
    \/ both /\ BrokerRefused(L, t, L.obj[t.sell], L.obj[t.buy])
    \/ With(t, "buy") /\ BuyRefused(L, t, L.obj[t.buy], ~both)
    \/ With(t, "sell") /\ SellRefused(L, t, L.obj[t.sell], ~both)
    \/ RoyaltyRefused(L, L.obj[IF With(t, "buy") THEN t.buy ELSE t.sell]))

\* adjust_xrp never goes below zero.
Adjust(L, a, n) == IF HasRoot(L, a) THEN [L EXCEPT !.root[a].bal = AtLeastZero(@ + n)] ELSE L

\* The issuer's share of what the seller is paid.
Royalty(id, buyer, seller, n) ==
  IF TokFee(id) > 0 /\ TokIssuer(id) \notin {buyer, seller} THEN HalfEven(n * TokFee(id)) ELSE 0

\* pay_settle_seller
Settled(L, id, buyer, seller, n) ==
  LET cut == Royalty(id, buyer, seller, n) IN Adjust(Adjust(L, seller, n - cut), TokIssuer(id), cut)

\* The buyer pays the rate on top of what one is sent.
Send(L, buyer, to, i, n) ==
  LET gross == IF i \in {buyer, to} THEN n ELSE (n * L.root[i].rate + 1) \div 2 IN
  IF n = 0 \/ to = buyer THEN L ELSE LineAdjust(LineAdjust(L, buyer, i, gross, FALSE), to, i, n, TRUE)

\* Payment for a token: the broker's part first, then the issuer's share, then the seller.
Paid(L, t, o, buyer, seller) ==
  LET fee == Field(t, "cut", 0)
      share == Royalty(o.id, buyer, seller, o.amt - fee)
      i == o.asset[2] IN
  IF o.asset[1] = "xrp"
    THEN Settled(Adjust(Adjust(L, buyer, -o.amt), t.acct, fee), o.id, buyer, seller, o.amt - fee)
    ELSE Send(Send(Send(L, buyer, t.acct, i, fee), buyer, TokIssuer(o.id), i, share),
              buyer, seller, i, o.amt - fee - share)

\* transfer_token: the buyer must have the reserve of a page more, from its balance as it is now.
Received(L, put, held, buyer) ==
  Unless(put.made /\ held.root[buyer].bal < Reserve(held.root[buyer].owners), L, held)
Handed(L, put, buyer) == Received(L, put, PaidFor(put, buyer), buyer)

Transferred(L, seller, buyer, id) ==
  IF ~HasToken(L, seller, id) THEN Claimed(L)
  ELSE Handed(L, PageInsert(Relieved(PageRemove(L, seller, id), seller), buyer, id), buyer)

AcceptDo(L, t) ==
  LET named == {t[f] : f \in {g \in {"buy", "sell"} : With(t, g)}}
      over == {k \in named : IsOffer(L, k) /\ Ended(L, L.obj[k])}
      o == L.obj[IF With(t, "buy") THEN t.buy ELSE t.sell]
      seller == IF With(t, "sell") THEN L.obj[t.sell].own ELSE t.acct
      buyer == IF With(t, "buy") THEN L.obj[t.buy].own ELSE t.acct
      dealt == DropOffers(L, named) IN
  IF over # {} THEN Result("expired", DropOffers(L, over))
  ELSE IF \E k \in named : ~IsOffer(L, k) THEN Claimed(L)
  ELSE Transferred(Paid(dealt, t, o, buyer, seller), seller, buyer, o.id)

-------------------------------------------------------------------------------
(* NFTokenCancelOffer, NFTokenModify *)

\* The owner, the one it is meant for, and anyone once it is past its time.
OfferCancelPre(L, t) ==
  Verdict(FALSE,
    \E k \in t.keys : /\ Has(L, k)
                      /\ \/ k[1] # "nftoffer"
                         \/ /\ ~Ended(L, L.obj[k])
                            /\ t.acct \notin {L.obj[k].own, Field(L.obj[k], "dst", L.obj[k].own)})

OfferCancelDo(L, t) == Applied(DropOffers(L, {k \in t.keys : IsOffer(L, k)}))

\* Only the URI, which is left out, is changed.
ModifyPre(L, t) ==
  LET issuer == TokIssuer(t.id) IN
  Verdict(FALSE,
    \/ ~HasToken(L, t.owner, t.id) \/ "mutable" \notin TokFlags(t.id)
    \/ issuer # t.acct /\ HasRoot(L, issuer) /\ L.root[issuer].minter # t.acct)

ModifyDo(L, t) == Applied(L)
===============================================================================
