-------------------------------- MODULE Tokens --------------------------------
(***************************************************************************)
(* Issued value: trust lines (TrustSet, the adjustment of a line by every   *)
(* movement on it, Clawback) and multi-purpose tokens (the MPTokenIssuance  *)
(* transactions, MPTokenAuthorize, the movements and the escrow's lock).    *)
(*                                                                          *)
(* A line is <<"line", low, high>>, of one currency: bal is the low side's  *)
(* view, lim and q (a quality other than one) are by side, flags holds      *)
(* <<side, mark>>.  An issuance is <<"mpt", issuer, sequence>> with what is *)
(* out, what escrows lock, and its rate in halves (2 is none); a holding is *)
(* <<"mptoken", issuance, holder>>.                                         *)
(***************************************************************************)
EXTENDS AccountTxs

CONSTANTS CLEANUP              \* the amendment fixCleanup3_4_0 is on

ASSUME TokenConstants == CLEANUP \in BOOLEAN

\* The sequence an object made by a transaction is named by.
TxSeq(t) == IF With(t, "ticket") THEN t.ticket ELSE t.seq
Spent(t) == IF With(t, "ticket") THEN 1 ELSE 0

\* A partial payment may deliver less than asked.
Partly(t) == Field(t, "partial", FALSE)

HasFlag(L, a, f) == HasRoot(L, a) /\ Flag(L, a, f)

-------------------------------------------------------------------------------
(* Trust lines *)

Line(a, b) == IF a < b THEN <<"line", a, b>> ELSE <<"line", b, a>>
Side(a, b) == IF a < b THEN "low" ELSE "high"
Across(s) == IF s = "low" THEN "high" ELSE "low"
Marked(o, s, mark) == <<s, mark>> \in o.flags

Holds(o, s) == IF s = "low" THEN o.bal ELSE -o.bal
Held(L, a, issuer) == IF Has(L, Line(a, issuer)) THEN Holds(L.obj[Line(a, issuer)], Side(a, issuer)) ELSE 0

FreshLine == [bal |-> 0, lim |-> [low |-> 0, high |-> 0], q |-> [low |-> 0, high |-> 0], flags |-> {}]

\* The line a receiver is given by the payment itself.
LineFor(L, a, issuer, n) ==
  LET s == Side(a, issuer) IN
  [FreshLine EXCEPT !.bal = IF s = "low" THEN n ELSE -n,
     !.flags = {<<s, "Reserve">>}
               \cup (IF HasFlag(L, a, "DefaultRipple") THEN {} ELSE {<<s, "NoRipple">>})
               \cup (IF HasFlag(L, issuer, "DefaultRipple") THEN {} ELSE {<<Across(s), "NoRipple">>})]

\* A side that spends its last of the issue, and asked for nothing, no longer pays for the line.
LetsGo(L, o, s, a) ==
  /\ Marked(o, s, "Reserve") /\ ~Marked(o, s, "Freeze")
  /\ Marked(o, s, "NoRipple") # HasFlag(L, a, "DefaultRipple")
  /\ o.lim[s] = 0 /\ o.q[s] = 0

\* The line k, on whose side s a holds n.
HoldsNow(L, k, s, n) == [L EXCEPT !.obj[k].bal = IF s = "low" THEN n ELSE -n]

\* The side s of a has spent its last.
Emptied(L, k, s, a) ==
  IF ~LetsGo(L, L.obj[k], s, a) THEN HoldsNow(L, k, s, 0)
  ELSE IF Marked(L.obj[k], Across(s), "Reserve")
    THEN Owns([HoldsNow(L, k, s, 0) EXCEPT !.obj[k].flags = @ \ {<<s, "Reserve">>}], a, -1)
    ELSE Removed(L, a, k, {Own(k[2]), Own(k[3])})

\* line_adjust: a's holding of the issuer's currency moves by n.
LineAdjust(L, a, issuer, n, receiving) ==
  LET k == Line(a, issuer)
      s == Side(a, issuer) IN
  IF a = issuer THEN L
  ELSE IF ~Has(L, k) THEN IF receiving THEN Created(L, a, k, LineFor(L, a, issuer, n), {Own(a), Own(issuer)}) ELSE L
  ELSE IF receiving THEN HoldsNow(L, k, s, Held(L, a, issuer) + n)
  ELSE IF Held(L, a, issuer) = n /\ n > 0 THEN Emptied(L, k, s, a)
  ELSE HoldsNow(L, k, s, Held(L, a, issuer) - n)

\* The issuer's side of the line, or the issuer altogether, is frozen.
Frozen(L, a, issuer) ==
  /\ a # issuer
  /\ \/ HasFlag(L, issuer, "GlobalFreeze")
     \/ Has(L, Line(a, issuer)) /\ Marked(L.obj[Line(a, issuer)], Side(issuer, a), "Freeze")

\* require_auth_ter, weakly: a line the issuer has not authorized does not hold its currency.
Unauthorized(L, a, issuer) ==
  /\ a # issuer /\ HasFlag(L, issuer, "RequireAuth")
  /\ ~Has(L, Line(a, issuer)) \/ ~Marked(L.obj[Line(a, issuer)], Side(issuer, a), "Auth")

-------------------------------------------------------------------------------
(* TrustSet *)

\* A pair of flags of the transaction, set and clear: both or none change nothing.
Marks(on, t, set, clear, mark) ==
  IF set \in t.flags /\ clear \notin t.flags THEN on \cup {mark}
  ELSE IF clear \in t.flags /\ set \notin t.flags THEN on \ {mark} ELSE on

\* The line as the transaction sets it, before the reserves.
LineSet(o, s, t) ==
  LET auth == IF "SetfAuth" \in t.flags THEN o.flags \cup {<<s, "Auth">>} ELSE o.flags
      ripple == Marks(auth, t, "SetNoRipple", "ClearNoRipple", <<s, "NoRipple">>)
      freeze == Marks(ripple, t, "SetFreeze", "ClearFreeze", <<s, "Freeze">>) IN
  [o EXCEPT !.lim[s] = t.lim, !.q[s] = Field(t, "q", @),
            !.flags = Marks(freeze, t, "SetDeepFreeze", "ClearDeepFreeze", <<s, "DeepFreeze">>)]

\* Whether a side has a stake in the line, which it then pays for.
Interest(L, o, s, a) ==
  \/ o.lim[s] > 0 \/ Holds(o, s) > 0 \/ o.q[s] # 0
  \/ Marked(o, s, "NoRipple") = HasFlag(L, a, "DefaultRipple")
  \/ Marked(o, s, "Freeze")

LineOr(L, k) == IF Has(L, k) THEN L.obj[k] ELSE FreshLine

\* o is the line as it will be.
TrustSetJudged(L, t, o) ==
  LET r == L.root[t.acct]
      k == Line(t.acct, t.to)
      s == Side(t.acct, t.to)
      owners == AtLeastZero(r.owners - Spent(t))
      short == owners >= 2 /\ r.bal < Reserve(owners + 1) IN
  Verdict(
    t.to = t.acct \/ ("SetfAuth" \in t.flags /\ "RequireAuth" \notin r.flags),
    \/ ~HasRoot(L, t.to)
    \/ ~Has(L, k) /\ t.lim = 0 /\ Field(t, "q", 0) = 0 /\ "SetfAuth" \notin t.flags
    \/ ~Has(L, k) /\ {"NoTrustIn", "Pseudo"} \cap L.root[t.to].flags # {}
    \/ {"SetFreeze", "SetDeepFreeze"} \cap t.flags # {}
       /\ ("NoFreeze" \in r.flags \/ {"ClearFreeze", "ClearDeepFreeze"} \cap t.flags # {})
    \/ Marked(o, s, "DeepFreeze") /\ ~Marked(o, s, "Freeze")
    \/ Has(L, k) /\ "SetNoRipple" \in t.flags /\ "ClearNoRipple" \notin t.flags /\ Holds(o, s) < 0
    \/ short /\ (~Has(L, k) \/ (Interest(L, o, s, t.acct) /\ ~Marked(o, s, "Reserve"))))

TrustSetPre(L, t) == TrustSetJudged(L, t, LineSet(LineOr(L, Line(t.acct, t.to)), Side(t.acct, t.to), t))

\* Both sides' reserves follow their interest; a line nobody wants goes.
Resettle(L, k, o) ==
  LET ends == [low |-> k[2], high |-> k[3]]
      wants == {s \in {"low", "high"} : Interest(L, o, s, ends[s])}
      pays == {s \in {"low", "high"} : Marked(o, s, "Reserve")}
      paid == [a \in DOMAIN L.root |->
                 LET s == Side(a, k[2] + k[3] - a) IN
                 IF a \notin {k[2], k[3]} \/ (s \in wants) = (s \in pays) THEN L.root[a]
                 ELSE [L.root[a] EXCEPT !.owners = IF s \in wants THEN @ + 1 ELSE AtLeastZero(@ - 1)]]
      told == [L EXCEPT !.root = paid] IN
  IF wants = {} /\ o.bal = 0
    THEN Leave(Drop(told, k), {Own(k[2]), Own(k[3])}, k)
    ELSE [told EXCEPT !.obj[k] = [o EXCEPT !.flags = {m \in @ : m[2] # "Reserve"} \cup (wants \X {"Reserve"})]]

\* The line a TrustSet makes: its maker pays for it; deep freeze is judged by its set flag alone.
LineMade(L, t) ==
  LET s == Side(t.acct, t.to)
      set == LineSet(FreshLine, s, t)
      deep == IF "SetDeepFreeze" \in t.flags THEN {<<s, "DeepFreeze">>} ELSE {} IN
  [set EXCEPT !.flags = @ \cup deep \cup {<<s, "Reserve">>}
                        \cup (IF HasFlag(L, t.to, "DefaultRipple") THEN {} ELSE {<<Across(s), "NoRipple">>})]

TrustSetDo(L, t) ==
  LET k == Line(t.acct, t.to) IN
  Applied(IF Has(L, k) THEN Resettle(L, k, LineSet(L.obj[k], Side(t.acct, t.to), t))
          ELSE Created(L, t.acct, k, LineMade(L, t), {Own(t.acct), Own(t.to)}))

-------------------------------------------------------------------------------
(* Multi-purpose tokens *)

Issuance(a, n) == <<"mpt", a, n>>
MPToken(k, a) == <<"mptoken", k, a>>
Issuer(k) == k[2]
Amount(L, k, a) == IF Has(L, MPToken(k, a)) THEN L.obj[MPToken(k, a)].amt ELSE 0
NewToken == [amt |-> 0, locked |-> 0, flags |-> {}]

\* require_auth and require_auth_weak: weakly, only an issuance that asks for it matters.
MPTUnauthorized(L, k, a, strong) ==
  /\ a # Issuer(k)
  /\ strong \/ "RequireAuth" \in L.obj[k].flags
  /\ \/ ~Has(L, MPToken(k, a))
     \/ "RequireAuth" \in L.obj[k].flags /\ "Authorized" \notin L.obj[MPToken(k, a)].flags

AnyFrozen(L, k, accts) ==
  \/ "Locked" \in L.obj[k].flags
  \/ \E a \in accts : Has(L, MPToken(k, a)) /\ "Locked" \in L.obj[MPToken(k, a)].flags

CanTransfer(L, k, from, to) == "CanTransfer" \in L.obj[k].flags \/ Issuer(k) \in {from, to}

IssuanceCreatePre(L, t) == Verdict(t.rate > 2 /\ "CanTransfer" \notin t.flags, FALSE)

IssuanceCreateDo(L, t) ==
  Unless(Short(L, t, 1), L,
    Created(L, t.acct, Issuance(t.acct, TxSeq(t)),
            [out |-> 0, locked |-> 0, max |-> t.max, rate |-> t.rate, flags |-> t.flags], {Own(t.acct)}))

IssuanceDestroyDo(L, t) ==
  Unless(~Has(L, t.k) \/ Issuer(t.k) # t.acct \/ L.obj[t.k].out # 0 \/ L.obj[t.k].locked # 0,
    L, Removed(L, t.acct, t.k, {Own(t.acct)}))

\* A holder opens a holding, or gives up an empty one.
OptIn(L, t) ==
  LET k == MPToken(t.k, t.acct)
      owners == L.root[t.acct].owners IN
  Unless(\/ ~Has(L, t.k) \/ Issuer(t.k) = t.acct \/ Has(L, k)
         \/ owners >= 2 /\ Short(L, t, 1),
    L, Created(L, t.acct, k, NewToken, {Own(t.acct)}))

OptOut(L, t) ==
  LET k == MPToken(t.k, t.acct) IN
  Unless(\/ ~Has(L, k) \/ L.obj[k].amt # 0 \/ L.obj[k].locked # 0
         \/ CLEANUP /\ Has(L, t.k) /\ "Locked" \in L.obj[k].flags,
    L, Removed(L, t.acct, k, {Own(t.acct)}))

\* The issuer authorizes a holder, or takes it back.
AuthorizeHolder(L, t) ==
  LET k == MPToken(t.k, t.holder) IN
  Unless(\/ ~HasRoot(L, t.holder) \/ ~Has(L, t.k) \/ Issuer(t.k) # t.acct
         \/ "RequireAuth" \notin L.obj[t.k].flags
         \/ ~Has(L, k) \/ Flag(L, t.holder, "Pseudo"),
    L, [L EXCEPT !.obj[k].flags = IF t.undo THEN @ \ {"Authorized"} ELSE @ \cup {"Authorized"}])

AuthorizeDo(L, t) ==
  IF With(t, "holder") THEN AuthorizeHolder(L, t) ELSE IF t.undo THEN OptOut(L, t) ELSE OptIn(L, t)

\* MPTokenIssuanceSet: locks or unlocks the issuance, or one holding of it.
IssuanceSetDo(L, t) ==
  LET k == IF With(t, "holder") THEN MPToken(t.k, t.holder) ELSE t.k IN
  Unless(\/ ~Has(L, t.k) \/ "CanLock" \notin L.obj[t.k].flags \/ Issuer(t.k) # t.acct
         \/ With(t, "holder") /\ ~HasRoot(L, t.holder)
         \/ ~Has(L, k),
    L, [L EXCEPT !.obj[k].flags = IF t.undo THEN @ \ {"Locked"} ELSE @ \cup {"Locked"}])

\* direct_send_no_fee: the issuer's side is what is out.
Sent(L, k, from, to, n) ==
  LET spent == IF from = Issuer(k) THEN [L EXCEPT !.obj[k].out = @ + n]
               ELSE [L EXCEPT !.obj[MPToken(k, from)].amt = @ - n] IN
  IF to = Issuer(k) THEN [spent EXCEPT !.obj[k].out = @ - n]
  ELSE [spent EXCEPT !.obj[MPToken(k, to)].amt = @ + n]

\* lock_escrow
Locks(L, k, a, n) ==
  LET m == MPToken(k, a) IN
  [L EXCEPT !.obj[m].amt = @ - n, !.obj[m].locked = @ + n, !.obj[k].locked = @ + n]

\* unlock_escrow: the receiver gets the net, and the difference is no longer out.
Unlocks(L, k, from, to, net, gross) ==
  LET freed == [L EXCEPT !.obj[k].locked = @ - gross, !.obj[MPToken(k, from)].locked = @ - gross,
                         !.obj[k].out = @ - (gross - net)] IN
  IF to = Issuer(k) THEN [freed EXCEPT !.obj[k].out = @ - net]
  ELSE [freed EXCEPT !.obj[MPToken(k, to)].amt = @ + net]

-------------------------------------------------------------------------------
(* Rates, in halves *)

\* mpt_multiply_rate rounds to the nearest (half to even); mpt_divide_rate to the nearest.
TimesRate(n, rate) ==
  LET twice == n * rate IN
  IF twice % 2 = 0 THEN twice \div 2 ELSE IF (twice \div 2) % 2 = 0 THEN twice \div 2 ELSE twice \div 2 + 1
OverRate(n, rate) == (2 * n + rate \div 2) \div rate

\* What an escrow delivers of n at a rate: rounded down since CLEANUP, up before.
NetOf(n, rate) == IF CLEANUP THEN (2 * n) \div rate ELSE (2 * n + rate - 1) \div rate

-------------------------------------------------------------------------------
(* Payment of a multi-purpose token *)

Between(t) == Issuer(t.asset) \notin {t.acct, t.to}

\* n is delivered, less than asked for or not, and debit taken for it.
MoveMPT(L, t, n, debit, less) ==
  LET k == t.asset IN
  Unless(\/ Between(t) /\ AnyFrozen(L, k, {t.acct, t.to})
         \/ ~less /\ debit > Field(t, "max", t.n)
         \/ n < Field(t, "min", 0)
         \/ t.acct = Issuer(k) /\ L.obj[k].out + n > L.obj[k].max
         \/ t.acct # Issuer(k) /\ Amount(L, k, t.acct) < debit,
    L, IF Between(t) THEN Sent(Sent(L, k, Issuer(k), t.to, n), k, t.acct, Issuer(k), debit)
       ELSE Sent(L, k, t.acct, t.to, n))

\* apply_mpt_payment.  max is SendMax, or the amount; min is DeliverMin, or nothing.
PayMPT(L, t) ==
  LET k == t.asset
      max == Field(t, "max", t.n)
      rate == IF Between(t) THEN L.obj[k].rate ELSE 2
      less == Partly(t) /\ TimesRate(t.n, rate) > max
      deliver == IF less THEN OverRate(max, rate) ELSE t.n IN
  IF ~Has(L, k) THEN Claimed(L)
  ELSE IF \/ MPTUnauthorized(L, k, t.acct, TRUE) \/ MPTUnauthorized(L, k, t.to, TRUE)
          \/ ~CanTransfer(L, k, t.acct, t.to) THEN Claimed(L)
  ELSE Then(DepositCheck(L, t, t.acct, t.to), MoveMPT(L, t, deliver, TimesRate(deliver, rate), less))

-------------------------------------------------------------------------------
(* Clawback *)

ClawbackPre(L, t) == Verdict(t.n = 0 \/ (With(t, "k") /\ t.holder = t.acct), FALSE)

ClawMPT(L, t) ==
  LET had == Amount(L, t.k, t.holder) IN
  Unless(\/ ~Has(L, t.k) \/ "CanClawback" \notin L.obj[t.k].flags \/ Issuer(t.k) # t.acct \/ had = 0,
    L, Sent(L, t.k, t.holder, t.acct, Lesser(had, t.n)))

ClawLine(L, t) ==
  LET had == Held(L, t.holder, t.acct) IN
  Unless(\/ ~Flag(L, t.acct, "Clawback") \/ Flag(L, t.acct, "NoFreeze")
         \/ ~Has(L, Line(t.acct, t.holder)) \/ had <= 0,
    L, LineAdjust(L, t.holder, t.acct, Lesser(had, t.n), FALSE))

ClawbackDo(L, t) ==
  IF ~HasRoot(L, t.holder) THEN Refused(L)
  ELSE IF Flag(L, t.holder, "Pseudo") THEN Claimed(L)
  ELSE IF With(t, "k") THEN ClawMPT(L, t) ELSE ClawLine(L, t)
===============================================================================
