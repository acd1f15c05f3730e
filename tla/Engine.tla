-------------------------------- MODULE Engine --------------------------------
(***************************************************************************)
(* The native engine applying transactions to one ledger after another: one *)
(* action per transaction type, which puts one of the inputs through the    *)
(* pipeline of Transactor, and the close of a ledger, after which its       *)
(* sequence and the time move on.                                           *)
(*                                                                          *)
(* The inputs come by part: a part is a starting ledger and the             *)
(* transactions about one subject, so that each subject is looked at from   *)
(* all sides.  coins is the header's total, floor the sequence an account   *)
(* had when it was deleted, ids the tokens that ever were, torn the accounts *)
(* that once lost their last page of tokens and kept another, outlived those *)
(* that were deleted with a page left.                                      *)
(***************************************************************************)
EXTENDS Transactor

CONSTANTS
  Start,      \* part -> ledger
  Inputs,     \* part -> type -> the transactions sent
  MaxTxs,     \* part -> how many are applied (bound)
  MaxSlips,   \* of those, how many only for their fee (bound)
  MaxCloses   \* part -> how many ledgers close (bound)

VARIABLES part, led, coins, floor, ids, torn, outlived, txs, slips, closes

vars == <<part, led, coins, floor, ids, torn, outlived, txs, slips, closes>>

\* Tokens on an account's pages.
Tokens(L) == UNION {L.obj[k].toks : k \in {p \in DOMAIN L.obj : p[1] = "page"}}
LastPage(L, a) == Bounds(L, a) = {} \/ LAST \in Bounds(L, a)

XrpHeld(o, k) ==
  CASE k[1] = "escrow" -> IF o.asset[1] = "xrp" THEN o.amt ELSE 0
    [] k[1] = "chan"   -> o.amt - o.bal
    [] OTHER           -> 0

XrpTotal(L) == MapThenSumSet(LAMBDA a : L.root[a].bal, DOMAIN L.root)
               + MapThenSumSet(LAMBDA k : XrpHeld(L.obj[k], k), DOMAIN L.obj)

Init ==
  /\ part \in DOMAIN Start
  /\ led = Start[part] /\ coins = XrpTotal(led)
  /\ floor = <<>> /\ ids = Tokens(led) /\ torn = {} /\ outlived = {}
  /\ txs = 0 /\ slips = 0 /\ closes = 0

-------------------------------------------------------------------------------
(* A sender fills its sequence in, for a later one of a batch with what it   *)
(* will be then.                                                             *)

Numbered(L, t) ==
  IF With(t, "ticket") \/ With(t, "seq") THEN t
  ELSE [seq |-> (IF HasRoot(L, t.acct) THEN L.root[t.acct].seq ELSE 0) + Field(t, "skip", 0)] @@ t

Filled(L, t) ==
  IF With(t, "inners") THEN [Numbered(L, t) EXCEPT !.inners = [i \in DOMAIN @ |-> Numbered(L, @[i])]]
  ELSE Numbered(L, t)

\* What the inputs of a type come to now.
Submitted(type) ==
  {Filled(led, t) : t \in IF type \in DOMAIN Inputs[part] /\ txs < MaxTxs[part] THEN Inputs[part][type] ELSE {}}

\* The transaction t comes to o.
Comes(t, o) ==
  /\ o.r # "rej"
  /\ o.r = "tec" => slips < MaxSlips
  /\ led' = o.l
  /\ coins' = coins - FeeCharged(led, t)
  /\ floor' = [a \in DOMAIN floor \cup (DOMAIN led.root \ DOMAIN o.l.root) |->
                IF HasRoot(led, a) /\ ~HasRoot(o.l, a) THEN led.root[a].seq ELSE floor[a]]
  /\ ids' = ids \cup Tokens(o.l)
  /\ torn' = torn \cup {a \in DOMAIN o.l.root : ~LastPage(o.l, a)}
  /\ outlived' = outlived \cup {a \in DOMAIN led.root \ DOMAIN o.l.root : Bounds(o.l, a) # {}}
  /\ txs' = txs + 1
  /\ slips' = IF o.r = "tec" THEN slips + 1 ELSE slips
  /\ UNCHANGED <<part, closes>>

Apply(t, result) == \E o \in {result} : Comes(t, o)

\* Its verdict before the fee, and what it does after.
Takes(t, verdict, done) == Apply(t, Attempt(led, t, verdict, done))
Charged(t) == Common(led, t)

AccountSetTx == \E t \in Submitted("AccountSet") : Takes(t, AccountSetPre(led, t), AccountSetDo(Charged(t), t))
AccountDeleteTx == \E t \in Submitted("AccountDelete") : Takes(t, AccountDeletePre(led, t), AccountDeleteDo(Charged(t), t))
SetRegularKeyTx == \E t \in Submitted("SetRegularKey") : Takes(t, "tes", SetRegularKeyDo(Charged(t), t))
SignerListSetTx == \E t \in Submitted("SignerListSet") : Takes(t, SignerListSetPre(led, t), SignerListSetDo(Charged(t), t))
TicketCreateTx == \E t \in Submitted("TicketCreate") : Takes(t, TicketCreatePre(led, t), TicketCreateDo(Charged(t), t))
DepositPreauthTx == \E t \in Submitted("DepositPreauth") : Takes(t, DepositPreauthPre(led, t), DepositPreauthDo(Charged(t), t))
CredentialCreateTx == \E t \in Submitted("CredentialCreate") : Takes(t, "tes", CredentialCreateDo(Charged(t), t))
CredentialAcceptTx == \E t \in Submitted("CredentialAccept") : Takes(t, "tes", CredentialAcceptDo(Charged(t), t))
CredentialDeleteTx == \E t \in Submitted("CredentialDelete") : Takes(t, CredentialDeletePre(led, t), CredentialDeleteDo(Charged(t), t))
DelegateSetTx == \E t \in Submitted("DelegateSet") : Takes(t, DelegateSetPre(led, t), DelegateSetDo(Charged(t), t))
TrustSetTx == \E t \in Submitted("TrustSet") : Takes(t, TrustSetPre(led, t), TrustSetDo(Charged(t), t))
ClawbackTx == \E t \in Submitted("Clawback") : Takes(t, ClawbackPre(led, t), ClawbackDo(Charged(t), t))
IssuanceCreateTx == \E t \in Submitted("IssuanceCreate") : Takes(t, IssuanceCreatePre(led, t), IssuanceCreateDo(Charged(t), t))
IssuanceDestroyTx == \E t \in Submitted("IssuanceDestroy") : Takes(t, "tes", IssuanceDestroyDo(Charged(t), t))
IssuanceSetTx == \E t \in Submitted("IssuanceSet") : Takes(t, "tes", IssuanceSetDo(Charged(t), t))
MPTokenAuthorizeTx == \E t \in Submitted("MPTokenAuthorize") : Takes(t, "tes", AuthorizeDo(Charged(t), t))
PaymentTx == \E t \in Submitted("Payment") : Takes(t, PaymentPre(led, t), PaymentDo(Charged(t), t))
EscrowCreateTx == \E t \in Submitted("EscrowCreate") : Takes(t, EscrowCreatePre(led, t), EscrowCreateDo(Charged(t), t))
EscrowFinishTx == \E t \in Submitted("EscrowFinish") : Takes(t, EscrowFinishPre(led, t), EscrowFinishDo(Charged(t), t))
EscrowCancelTx == \E t \in Submitted("EscrowCancel") : Takes(t, EscrowCancelPre(led, t), EscrowCancelDo(Charged(t), t))
CheckCreateTx == \E t \in Submitted("CheckCreate") : Takes(t, CheckCreatePre(led, t), CheckCreateDo(Charged(t), t))
CheckCashTx == \E t \in Submitted("CheckCash") : Takes(t, CheckCashPre(led, t), CheckCashDo(Charged(t), t))
CheckCancelTx == \E t \in Submitted("CheckCancel") : Takes(t, "tes", CheckCancelDo(Charged(t), t))
ChannelCreateTx == \E t \in Submitted("ChannelCreate") : Takes(t, ChannelCreatePre(led, t), ChannelCreateDo(Charged(t), t))
ChannelClaimTx == \E t \in Submitted("ChannelClaim") : Takes(t, ChannelClaimPre(led, t), ChannelClaimDo(Charged(t), t))
ChannelFundTx == \E t \in Submitted("ChannelFund") : Takes(t, ChannelFundPre(led, t), ChannelFundDo(Charged(t), t))
NFTokenMintTx == \E t \in Submitted("NFTokenMint") : Takes(t, MintPre(led, t), MintDo(Charged(t), t))
NFTokenBurnTx == \E t \in Submitted("NFTokenBurn") : Takes(t, BurnPre(led, t), BurnDo(Charged(t), t))
NFTokenCreateOfferTx == \E t \in Submitted("NFTokenCreateOffer") : Takes(t, OfferCreatePre(led, t), OfferCreateDo(Charged(t), t))
NFTokenAcceptOfferTx == \E t \in Submitted("NFTokenAcceptOffer") : Takes(t, AcceptPre(led, t), AcceptDo(Charged(t), t))
NFTokenCancelOfferTx == \E t \in Submitted("NFTokenCancelOffer") : Takes(t, OfferCancelPre(led, t), OfferCancelDo(Charged(t), t))
NFTokenModifyTx == \E t \in Submitted("NFTokenModify") : Takes(t, ModifyPre(led, t), ModifyDo(Charged(t), t))
LedgerStateFixTx == \E t \in Submitted("LedgerStateFix") : Takes(t, StateFixPre(led, t), StateFixDo(Charged(t), t))
OracleSetTx == \E t \in Submitted("OracleSet") : Takes(t, OracleSetPre(led, t), OracleSetDo(Charged(t), t))
OracleDeleteTx == \E t \in Submitted("OracleDelete") : Takes(t, "tes", OracleDeleteDo(Charged(t), t))
DIDSetTx == \E t \in Submitted("DIDSet") : Takes(t, DIDSetPre(led, t), DIDSetDo(Charged(t), t))
DIDDeleteTx == \E t \in Submitted("DIDDelete") : Takes(t, "tes", DIDDeleteDo(Charged(t), t))
DomainSetTx == \E t \in Submitted("DomainSet") : Takes(t, DomainSetPre(led, t), DomainSetDo(Charged(t), t))
DomainDeleteTx == \E t \in Submitted("DomainDelete") : Takes(t, "tes", DomainDeleteDo(Charged(t), t))
CreateBridgeTx == \E t \in Submitted("CreateBridge") : Takes(t, "tes", CreateBridgeDo(Charged(t), t))
ModifyBridgeTx == \E t \in Submitted("ModifyBridge") : Takes(t, "tes", ModifyBridgeDo(Charged(t), t))
CreateClaimIdTx == \E t \in Submitted("CreateClaimId") : Takes(t, "tes", CreateClaimIdDo(Charged(t), t))
CommitTx == \E t \in Submitted("Commit") : Takes(t, "tes", CommitDo(Charged(t), t))
CreateCommitTx == \E t \in Submitted("CreateCommit") : Takes(t, "tes", CreateCommitDo(Charged(t), t))
AttestTx == \E t \in Submitted("Attest") : Takes(t, "tes", AttestDo(Charged(t), t))
ClaimTx == \E t \in Submitted("Claim") : Takes(t, "tes", ClaimDo(Charged(t), t))
AttestCreateTx == \E t \in Submitted("AttestCreate") : Takes(t, "tes", AttestCreateDo(Charged(t), t))
BatchTx == \E t \in Submitted("Batch") : Apply(t, BatchOutcome(led, t))

CloseLedger ==
  /\ closes < MaxCloses[part]
  /\ led' = [led EXCEPT !.lseq = @ + 1, !.time = @ + 1]
  /\ closes' = closes + 1
  /\ UNCHANGED <<part, coins, floor, ids, torn, outlived, txs, slips>>

Next ==
  \/ AccountSetTx
  \/ AccountDeleteTx
  \/ SetRegularKeyTx
  \/ SignerListSetTx
  \/ TicketCreateTx
  \/ DepositPreauthTx
  \/ CredentialCreateTx
  \/ CredentialAcceptTx
  \/ CredentialDeleteTx
  \/ DelegateSetTx
  \/ TrustSetTx
  \/ ClawbackTx
  \/ IssuanceCreateTx
  \/ IssuanceDestroyTx
  \/ IssuanceSetTx
  \/ MPTokenAuthorizeTx
  \/ PaymentTx
  \/ EscrowCreateTx
  \/ EscrowFinishTx
  \/ EscrowCancelTx
  \/ CheckCreateTx
  \/ CheckCashTx
  \/ CheckCancelTx
  \/ ChannelCreateTx
  \/ ChannelClaimTx
  \/ ChannelFundTx
  \/ NFTokenMintTx
  \/ NFTokenBurnTx
  \/ NFTokenCreateOfferTx
  \/ NFTokenAcceptOfferTx
  \/ NFTokenCancelOfferTx
  \/ NFTokenModifyTx
  \/ LedgerStateFixTx
  \/ OracleSetTx
  \/ OracleDeleteTx
  \/ DIDSetTx
  \/ DIDDeleteTx
  \/ DomainSetTx
  \/ DomainDeleteTx
  \/ CreateBridgeTx
  \/ ModifyBridgeTx
  \/ CreateClaimIdTx
  \/ CommitTx
  \/ CreateCommitTx
  \/ AttestTx
  \/ ClaimTx
  \/ AttestCreateTx
  \/ BatchTx
  \/ CloseLedger

Spec == Init /\ [][Next]_vars

-------------------------------------------------------------------------------
(* Properties *)

\* The XRP of the accounts, of the escrows and of the channels is what the header says there is:
\* what left one was received by another or is the fee, in every transaction of every type but the
\* bridges', with all its refusals half way.  A bridge's transfer credits in full what it debits as
\* far as the balance goes, and debits what no account receives (xchain.rs transfer): the header's
\* total is then off by just those differences, which led.bridged sums up.
XrpConserved == XrpTotal(led) = coins + led.bridged

\* Who pays how much of the reserve for an object.
Paying(L, k) ==
  LET o == L.obj[k] IN
  CASE k[1] = "line"    -> {k[IF m[1] = "low" THEN 2 ELSE 3] : m \in {f \in o.flags : f[2] = "Reserve"}}
    [] k[1] = "cred"    -> {ChargedFor(k, o)}
    [] k[1] = "mptoken" -> {k[3]}
    [] k[1] = "claimid" -> {o.own}
    [] OTHER            -> {k[2]}

UnitsPaid(L, k) ==
  CASE k[1] = "signers" -> ListUnits(L.obj[k])
    [] k[1] = "oracle"  -> Units(L.obj[k].pairs)
    [] OTHER            -> 1

\* The directories an object is in.
Entered(L, k) ==
  LET o == L.obj[k] IN
  CASE k[1] \in {"cred", "delegate", "line"} -> {Own(k[2]), Own(k[3])}
    [] k[1] = "escrow"                       -> EscrowDirs(o.own, o.dst, o.asset)
    [] k[1] \in {"check", "chan"}            -> {Own(o.own), Own(o.dst)}
    [] k[1] = "nftoffer"                     -> {Own(o.own), o.book}
    [] k[1] = "mptoken"                      -> {Own(k[3])}
    [] k[1] = "claimid"                      -> {Own(o.own)}
    [] k[1] = "page"                         -> {}
    [] OTHER                                 -> {Own(k[2])}

\* Every object is paid for by who should pay for it and is in just the directories it belongs
\* to, and an account pays for nothing else and has no stray entry, nor one without an account:
\* whatever made, changed hands of, expired, cascaded or tore down the object.  The pages of tokens
\* of an account are the exception once it was deleted with some left, which takes that its last
\* page had gone before (account.rs:405-413): they stay, without their account or unpaid for by the
\* one made again at its address.
ObjectsAccounted ==
  /\ outlived \subseteq torn
  /\ \A a \in DOMAIN led.root :
       /\ LET due == MapThenSumSet(LAMBDA k : IF a \in Paying(led, k) THEN UnitsPaid(led, k) ELSE 0, DOMAIN led.obj)
          IN led.root[a].owners = due \/ (a \in outlived /\ led.root[a].owners < due)
       /\ led.root[a].tickets = Cardinality({k \in DOMAIN led.obj : k[1] = "ticket" /\ k[2] = a})
  /\ led.dir = UNION {Entered(led, k) \X {k} : k \in DOMAIN led.obj}
  /\ \A k \in DOMAIN led.obj :
       Paying(led, k) \subseteq DOMAIN led.root \cup (IF k[1] = "page" THEN outlived ELSE {})

\* The tokens of one issuance: out is what its holders have and escrows lock.
Holders(L, k) == {m \in DOMAIN L.obj : m[1] = "mptoken" /\ m[2] = k}
EscrowsOf(L, k) == {e \in DOMAIN L.obj : e[1] = "escrow" /\ L.obj[e].asset = k}

\* The chain of an account's pages: all of them, linked both ways, each token on the
\* page its place in the order calls for unless the chain was torn, and no page too full or empty.
PagesSound(L, o) ==
  LET bs == Chain(L, o) IN
  /\ \A b \in bs :
       LET p == L.obj[Page(o, b)] IN
       /\ Cardinality(p.toks) \in 1 .. PAGE_MAX
       /\ p.prev # 0 => p.prev \in bs /\ L.obj[Page(o, p.prev)].next = b
       /\ o \in torn \/ \A t \in p.toks : Low(t) < b /\ \A c \in bs : c < b => c <= Low(t)
  /\ LAST \in bs => L.obj[Page(o, LAST)].next = 0
  /\ o \in torn \/ bs = Bounds(L, o)

\* The books of the issued tokens balance: of a multi-purpose token, what is out is what the
\* holders have, free or locked, and what is locked is what escrows hold, by holder and in all; of
\* non-fungible ones, those minted and not burned are on one page each, and can be found there.
TokensAccounted ==
  /\ \A k \in {i \in DOMAIN led.obj : i[1] = "mpt"} :
       /\ led.obj[k].out = MapThenSumSet(LAMBDA m : led.obj[m].amt + led.obj[m].locked, Holders(led, k))
       /\ led.obj[k].locked = MapThenSumSet(LAMBDA e : led.obj[e].amt, EscrowsOf(led, k))
       /\ \A m \in Holders(led, k) :
            led.obj[m].locked = MapThenSumSet(LAMBDA e : led.obj[e].amt,
                                              {e \in EscrowsOf(led, k) : led.obj[e].own = m[3]})
  /\ \A m \in {i \in DOMAIN led.obj : i[1] = "mptoken"} : led.obj[m].amt >= 0 /\ led.obj[m].locked >= 0
  /\ \A a \in DOMAIN led.root :
       /\ led.root[a].minted - led.root[a].burned = Cardinality({t \in Tokens(led) : TokIssuer(t) = a})
       /\ PagesSound(led, a)
  /\ \A p, q \in {k \in DOMAIN led.obj : k[1] = "page"} : p # q => led.obj[p].toks \cap led.obj[q].toks = {}

\* What is held is accounted for, by whom and where: objects by their payers, tokens by their holders
\* (offer.rs owner counts, directory.rs, mpt.rs, nftpage.rs).
HoldingsAccounted == ObjectsAccounted /\ TokensAccounted

\* The numbers an account may still use.
Usable(L, a, n) == HasRoot(L, a) /\ (n >= L.root[a].seq \/ Has(L, Ticket(a, n)))

\* It has used one up.
Acted(a) ==
  /\ HasRoot(led, a)
  /\ \/ a \notin DOMAIN led'.root
     \/ led'.root[a].seq > led.root[a].seq
     \/ \E k \in DOMAIN led.obj : k[1] = "ticket" /\ k[2] = a /\ k \notin DOMAIN led'.obj

\* A number once used is not usable again, not by an account that was deleted and is there again.
NumbersSpent ==
  \A a \in DOMAIN led'.root :
    IF HasRoot(led, a)
      THEN /\ led'.root[a].seq >= led.root[a].seq
           /\ \A k \in DOMAIN led'.obj \ DOMAIN led.obj : k[1] = "ticket" /\ k[2] = a => k[3] >= led.root[a].seq
      ELSE a \in DOMAIN floor => led'.root[a].seq > floor[a]

\* The fee is paid for a number.
FeesForNumbers == coins' # coins => \E a \in DOMAIN led.root : Acted(a)

\* An account, or one it lets act for it or acts for, signed; or an object of its own was used.
Consented(a) ==
  \/ Acted(a)
  \/ \E b \in DOMAIN led.root : Has(led, Delegate(b, a)) /\ Acted(b)
  \/ \E k \in DOMAIN led.obj \ DOMAIN led'.obj :
       k[1] \in {"check", "nftoffer", "claimid"} /\ led.obj[k].own = a

\* Nobody loses XRP, or tokens its issuer does not claw back, without having agreed to it.
LossesConsented ==
  /\ \A a \in DOMAIN led.root \cap DOMAIN led'.root :
       led'.root[a].bal < led.root[a].bal => Consented(a) \/ \E b \in DOMAIN led.root : Has(led, Bridge(a)) /\ Acted(b)
  /\ \A k \in DOMAIN led.obj \cap DOMAIN led'.obj :
       k[1] = "mptoken" /\ led'.obj[k].amt < led.obj[k].amt => Consented(k[3]) \/ Acted(Issuer(k[2]))
  /\ \A a, i \in DOMAIN led.root :
       a # i /\ Held(led, a, i) > 0 /\ Held(led', a, i) < Held(led, a, i) => Consented(a) \/ Acted(i)

\* What an account owes grows only by its own doing.
IssuesConsented ==
  \A a, i \in DOMAIN led.root :
    a # i /\ Held(led', a, i) > 0 /\ Held(led', a, i) > Held(led, a, i) =>
      Consented(i) \/ \E b \in DOMAIN led.root \ {a} : Held(led', b, i) < Held(led, b, i)
                   \/ \E k \in DOMAIN led.obj \ DOMAIN led'.obj : k[1] = "escrow" /\ led.obj[k].asset = <<"iou", i>>

\* Every account that disables its master key, or loses another, has one left that can sign.
KeyLeft ==
  \A a \in DOMAIN led'.root :
    Flag(led', a, "DisableMaster") => Flag(led', a, "RegularKey") \/ Has(led', Signers(a))

\* A token minted is not one there was before, even if its issuer was deleted and is there again.
TokensFresh == Cardinality(Tokens(led') \ Tokens(led)) = Cardinality(ids' \ ids)

\* An all-or-nothing batch uses the numbers of all its transactions or of none.
BatchesWhole ==
  "Batch" \in DOMAIN Inputs[part] =>
    \A t \in Inputs[part]["Batch"] :
      t.mode = "AllOrNothing" =>
        \A u \in {Filled(led, t)} : \A after \in {BatchOutcome(led, u).l} :
          \/ after = led
          \/ \A i \in DOMAIN u.inners : ~Usable(after, u.inners[i].acct, TxSeq(u.inners[i]))
          \/ after = Stamp(Common(led, u), u, Armed(led, u.acct))

\* An account stays in the hands of its keys: no number works twice, nobody loses what it has or
\* owes more without its doing, somebody can always sign for it, its tokens are not forged, and
\* its batches are whole.
AccountsKeepControl ==
  [][/\ NumbersSpent /\ FeesForNumbers /\ LossesConsented /\ IssuesConsented
     /\ KeyLeft /\ TokensFresh /\ BatchesWhole]_vars
===============================================================================
