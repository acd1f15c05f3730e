------------------------------ MODULE Transactor ------------------------------
(***************************************************************************)
(* What every transaction goes through (apply_core, and apply_on_sandbox    *)
(* for those of a batch): its preflight and preclaim on the ledger as it    *)
(* is, the fee and the number it uses up, its do_apply, and what of that    *)
(* is kept.  A batch is a transaction whose do_apply sends others through.  *)
(*                                                                          *)
(* Left out: signatures, network fees above the one unit, and the granular  *)
(* permissions of AccountSet and MPTokenIssuanceSet.                        *)
(***************************************************************************)
EXTENDS Registers, Passes

-------------------------------------------------------------------------------
(* Delegates *)

Holding(L, t) == Holds(L.obj[Line(t.acct, t.to)], Side(t.acct, t.to))

\* Only an issue to a holder, or a holder's return of it.
MintsOrBurns(L, t, perms) ==
  LET mint == "PaymentMint" \in perms
      burn == "PaymentBurn" \in perms
      issue == mint /\ L.obj[Line(t.acct, t.to)].lim[Side(t.to, t.acct)] > 0 IN
  CASE t.asset[1] = "xrp" -> FALSE
    [] t.asset[1] = "mpt" -> (mint /\ Issuer(t.asset) = t.acct) \/ (burn /\ Issuer(t.asset) = t.to)
    [] t.asset[1] = "iou" -> /\ t.asset[2] \in {t.acct, t.to} /\ Has(L, Line(t.acct, t.to))
                             /\ IF Holding(L, t) > 0 THEN burn /\ (~CLEANUP \/ t.n <= Holding(L, t) \/ issue)
                                ELSE issue

\* Only the marks of the permissions, on a line that is there, its limit as it is.
MarksOnly(L, t, perms) ==
  /\ t.flags \subseteq UNION {CASE p = "TrustlineAuthorize" -> {"SetfAuth"}
                                [] p = "TrustlineFreeze"    -> {"SetFreeze"}
                                [] p = "TrustlineUnfreeze"  -> {"ClearFreeze"}
                                [] OTHER                    -> {} : p \in perms}
  /\ Has(L, Line(t.acct, t.to)) /\ t.lim = L.obj[Line(t.acct, t.to)].lim[Side(t.acct, t.to)]

\* check_delegate_permission: the transaction's type, or the part of it that is granted.
MayDelegate(L, t) ==
  With(t, "del") =>
    /\ Has(L, Delegate(t.acct, t.del))
    /\ LET perms == L.obj[Delegate(t.acct, t.del)].perms IN
       \/ t.type \in perms
       \/ t.type = "Payment"  /\ {"PaymentMint", "PaymentBurn"} \cap perms # {} /\ MintsOrBurns(L, t, perms)
       \/ t.type = "TrustSet" /\ {"TrustlineAuthorize", "TrustlineFreeze", "TrustlineUnfreeze"} \cap perms # {}
                              /\ MarksOnly(L, t, perms)

-------------------------------------------------------------------------------
(* Before: preclaim_common and check_fee *)

Payer(t) == IF With(t, "del") THEN t.del ELSE t.acct

\* A transaction's hash, by what no other that applies can have too.
HashOf(t) == 1000 * t.acct + TxSeq(t)

Armed(L, a) == Flag(L, a, "TxnID")

InTurn(L, t) ==
  /\ HasRoot(L, t.acct)
  /\ IF With(t, "ticket") THEN Has(L, Ticket(t.acct, t.ticket)) ELSE t.seq = L.root[t.acct].seq
  /\ With(t, "prior") => t.prior = L.root[t.acct].txid
  /\ With(t, "last") => L.lseq + 1 <= t.last

-------------------------------------------------------------------------------
(* The fee and the number: apply_common *)

Common(L, t) ==
  LET paid == [L EXCEPT !.root[Payer(t)].bal = AtLeastZero(@ - FeeOf(t))]
      k == Ticket(t.acct, t.ticket) IN
  IF With(t, "ticket")
    THEN [Removed(paid, t.acct, k, {Own(t.acct)}) EXCEPT !.root[t.acct].tickets = AtLeastZero(@ - 1)]
    ELSE [paid EXCEPT !.root[t.acct].seq = @ + 1]

\* An account that asked for it before keeps the hash of its last transaction.
Stamp(L, t, armed) ==
  IF armed /\ HasRoot(L, t.acct) /\ Armed(L, t.acct) THEN [L EXCEPT !.root[t.acct].txid = HashOf(t)] ELSE L

-------------------------------------------------------------------------------
(* After: settle_expired.  Of what an expiry does, the deletion of credentials *)
(* and offers stays, with its directories and owner counts.                    *)

Expired(L, after) ==
  LET gone == {k \in DOMAIN L.obj \ DOMAIN after.obj : k[1] \in {"cred", "nftoffer"}} IN
  [L EXCEPT !.obj  = [k \in DOMAIN @ \ gone |-> @[k]],
            !.dir  = after.dir,
            !.root = [a \in DOMAIN @ |->
                       IF HasRoot(after, a) /\ [after.root[a] EXCEPT !.owners = L.root[a].owners] = L.root[a]
                         THEN after.root[a] ELSE @[a]]]

-------------------------------------------------------------------------------
(* The transactors *)

Pre(L, t) ==
  CASE t.type = "AccountSet"          -> AccountSetPre(L, t)
    [] t.type = "AccountDelete"       -> AccountDeletePre(L, t)
    [] t.type = "SignerListSet"       -> SignerListSetPre(L, t)
    [] t.type = "TicketCreate"        -> TicketCreatePre(L, t)
    [] t.type = "DepositPreauth"      -> DepositPreauthPre(L, t)
    [] t.type = "CredentialDelete"    -> CredentialDeletePre(L, t)
    [] t.type = "DelegateSet"         -> DelegateSetPre(L, t)
    [] t.type = "TrustSet"            -> TrustSetPre(L, t)
    [] t.type = "Clawback"            -> ClawbackPre(L, t)
    [] t.type = "IssuanceCreate"      -> IssuanceCreatePre(L, t)
    [] t.type = "Payment"             -> PaymentPre(L, t)
    [] t.type = "EscrowCreate"        -> EscrowCreatePre(L, t)
    [] t.type = "EscrowFinish"        -> EscrowFinishPre(L, t)
    [] t.type = "EscrowCancel"        -> EscrowCancelPre(L, t)
    [] t.type = "CheckCreate"         -> CheckCreatePre(L, t)
    [] t.type = "CheckCash"           -> CheckCashPre(L, t)
    [] t.type = "ChannelCreate"       -> ChannelCreatePre(L, t)
    [] t.type = "ChannelClaim"        -> ChannelClaimPre(L, t)
    [] t.type = "ChannelFund"         -> ChannelFundPre(L, t)
    [] t.type = "NFTokenMint"         -> MintPre(L, t)
    [] t.type = "NFTokenBurn"         -> BurnPre(L, t)
    [] t.type = "NFTokenCreateOffer"  -> OfferCreatePre(L, t)
    [] t.type = "NFTokenAcceptOffer"  -> AcceptPre(L, t)
    [] t.type = "NFTokenCancelOffer"  -> OfferCancelPre(L, t)
    [] t.type = "NFTokenModify"       -> ModifyPre(L, t)
    [] t.type = "LedgerStateFix"      -> StateFixPre(L, t)
    [] t.type = "OracleSet"           -> OracleSetPre(L, t)
    [] t.type = "DIDSet"              -> DIDSetPre(L, t)
    [] t.type = "DomainSet"           -> DomainSetPre(L, t)
    [] OTHER                          -> "tes"

Do(L, t) ==
  CASE t.type = "AccountSet"          -> AccountSetDo(L, t)
    [] t.type = "AccountDelete"       -> AccountDeleteDo(L, t)
    [] t.type = "SetRegularKey"       -> SetRegularKeyDo(L, t)
    [] t.type = "SignerListSet"       -> SignerListSetDo(L, t)
    [] t.type = "TicketCreate"        -> TicketCreateDo(L, t)
    [] t.type = "DepositPreauth"      -> DepositPreauthDo(L, t)
    [] t.type = "CredentialCreate"    -> CredentialCreateDo(L, t)
    [] t.type = "CredentialAccept"    -> CredentialAcceptDo(L, t)
    [] t.type = "CredentialDelete"    -> CredentialDeleteDo(L, t)
    [] t.type = "DelegateSet"         -> DelegateSetDo(L, t)
    [] t.type = "TrustSet"            -> TrustSetDo(L, t)
    [] t.type = "Clawback"            -> ClawbackDo(L, t)
    [] t.type = "IssuanceCreate"      -> IssuanceCreateDo(L, t)
    [] t.type = "IssuanceDestroy"     -> IssuanceDestroyDo(L, t)
    [] t.type = "IssuanceSet"         -> IssuanceSetDo(L, t)
    [] t.type = "MPTokenAuthorize"    -> AuthorizeDo(L, t)
    [] t.type = "Payment"             -> PaymentDo(L, t)
    [] t.type = "EscrowCreate"        -> EscrowCreateDo(L, t)
    [] t.type = "EscrowFinish"        -> EscrowFinishDo(L, t)
    [] t.type = "EscrowCancel"        -> EscrowCancelDo(L, t)
    [] t.type = "CheckCreate"         -> CheckCreateDo(L, t)
    [] t.type = "CheckCash"           -> CheckCashDo(L, t)
    [] t.type = "CheckCancel"         -> CheckCancelDo(L, t)
    [] t.type = "ChannelCreate"       -> ChannelCreateDo(L, t)
    [] t.type = "ChannelClaim"        -> ChannelClaimDo(L, t)
    [] t.type = "ChannelFund"         -> ChannelFundDo(L, t)
    [] t.type = "NFTokenMint"         -> MintDo(L, t)
    [] t.type = "NFTokenBurn"         -> BurnDo(L, t)
    [] t.type = "NFTokenCreateOffer"  -> OfferCreateDo(L, t)
    [] t.type = "NFTokenAcceptOffer"  -> AcceptDo(L, t)
    [] t.type = "NFTokenCancelOffer"  -> OfferCancelDo(L, t)
    [] t.type = "NFTokenModify"       -> ModifyDo(L, t)
    [] t.type = "LedgerStateFix"      -> StateFixDo(L, t)
    [] t.type = "OracleSet"           -> OracleSetDo(L, t)
    [] t.type = "OracleDelete"        -> OracleDeleteDo(L, t)
    [] t.type = "DIDSet"              -> DIDSetDo(L, t)
    [] t.type = "DIDDelete"           -> DIDDeleteDo(L, t)
    [] t.type = "DomainSet"           -> DomainSetDo(L, t)
    [] t.type = "DomainDelete"        -> DomainDeleteDo(L, t)
    [] t.type = "CreateBridge"        -> CreateBridgeDo(L, t)
    [] t.type = "ModifyBridge"        -> ModifyBridgeDo(L, t)
    [] t.type = "CreateClaimId"       -> CreateClaimIdDo(L, t)
    [] t.type = "Commit"              -> CommitDo(L, t)
    [] t.type = "CreateCommit"        -> CreateCommitDo(L, t)
    [] t.type = "Attest"              -> AttestDo(L, t)
    [] t.type = "Claim"               -> ClaimDo(L, t)
    [] t.type = "AttestCreate"        -> AttestCreateDo(L, t)

-------------------------------------------------------------------------------
(* One transaction that is not a batch *)

\* do_apply d on the ledger after the fee, and what of it stays.
Kept(L, paid, d, stamped) ==
  CASE d.r = "tes"     -> Applied(stamped)
    [] d.r = "tec"     -> Claimed(paid)
    [] d.r = "expired" -> Result("tec", Expired(paid, d.l))
    [] d.r = "killed"  -> Result("tec", d.l)
    [] d.r = "rej"     -> Refused(L)

\* The verdict v of preflight and preclaim, the fee, then do_apply d on the ledger after it.
Judged(L, t, paid, v, d) ==
  IF v = "rej" THEN Refused(L)
  ELSE IF FeeOf(t) > L.root[Payer(t)].bal
    THEN IF L.root[Payer(t)].bal = 0 THEN Refused(L) ELSE Claimed(paid)
  ELSE IF v = "tec" THEN Claimed(paid)
  ELSE Kept(L, paid, d, Stamp(d.l, t, Armed(paid, t.acct)))

Attempt(L, t, v, d) ==
  IF ~InTurn(L, t) \/ ~MayDelegate(L, t) \/ ~HasRoot(L, Payer(t)) THEN Refused(L)
  ELSE Judged(L, t, Common(L, t), v, d)

\* Of a transaction of any type, as a batch sends it through.
Performed(L, t) == Attempt(L, t, Pre(L, t), Do(Common(L, t), t))

-------------------------------------------------------------------------------
(* Batch *)

Authorizer(t) == Payer(t)

BatchPre(t) ==
  LET n == Len(t.inners)
      number(u) == <<u.acct, TxSeq(u)>> IN
  Verdict(
    \/ n \notin 2 .. 8
    \/ \E i, j \in 1 .. n : i # j /\ \/ t.inners[i] = t.inners[j]
                                     \/ /\ t.mode \in {"AllOrNothing", "UntilFailure"}
                                        /\ number(t.inners[i]) = number(t.inners[j])
    \/ t.signers # {Authorizer(t.inners[i]) : i \in 1 .. n} \ {t.acct},
    FALSE)

\* After an inner transaction with result a, in a batch begun on L.
AfterInner(L, mode, a) ==
  [l |-> IF a.r # "tes" /\ mode = "AllOrNothing" THEN L ELSE a.l,
   over |-> IF a.r = "tes" THEN mode = "OnlyOne" ELSE mode \in {"AllOrNothing", "UntilFailure"}]

\* Mutant: of all or nothing, what went before the failure stays.
BatchDoKeeps(L, t) ==
  LET step(v, i) == IF v.over THEN v ELSE AfterInner(v.l, t.mode, Performed(v.l, t.inners[i])) IN
  Repeat(step, [l |-> L, over |-> FALSE], Len(t.inners)).l

BatchDo(L, t) ==
  LET step(v, i) == IF v.over THEN v ELSE AfterInner(L, t.mode, Performed(v.l, t.inners[i])) IN
  Repeat(step, [l |-> L, over |-> FALSE], Len(t.inners)).l

Stamped(L, t) == Stamp(L, t, Armed(L, t.acct))

\* The hash is kept before the inner transactions, which may belong to the same account.
BatchOutcome(L, t) ==
  IF ~InTurn(L, t) \/ BatchPre(t) = "rej" \/ ~MayDelegate(L, t) THEN Refused(L)
  ELSE IF FeeOf(t) > L.root[Payer(t)].bal
    THEN IF L.root[Payer(t)].bal = 0 THEN Refused(L) ELSE Claimed(Common(L, t))
  ELSE Applied(BatchDo(Stamped(Common(L, t), t), t))

\* What of the fee was there to be charged.
FeeCharged(L, t) == Lesser(FeeOf(t), L.root[Payer(t)].bal)
===============================================================================
