------------------------------- MODULE MCEngine -------------------------------
(***************************************************************************)
(* The engine on a few accounts: what is sent is chosen, part by part, so   *)
(* that objects are made, used by the wrong one and by the right one, fail  *)
(* for want of funds and reserve, expire, and outlive their makers.         *)
(* Bounds of the inputs: a domain's id names a domain, an oracle's time is  *)
(* the close's.                                                             *)
(***************************************************************************)
EXTENDS Engine

Root(bal) == NewRoot([lseq |-> 4], bal)

\* Accounts 1 .. n, each with a balance.
Funded(bals) ==
  [root |-> [a \in 1 .. Len(bals) |-> Root(bals[a])], obj |-> <<>>, dir |-> {}, time |-> 10, lseq |-> 10,
   bridged |-> 0]

\* A ledger some transactions led to.
After2(L, ts) ==
  LET step(M, i) == Performed(M, Filled(M, ts[i])).l IN Repeat(step, L, Len(ts))

By(type, a) == [type |-> type, acct |-> a]
XRP == <<"xrp">>
IOU == <<"iou", 1>>
MPT == <<"mpt", 1, 5>>
Send2(a, b, n, asset) == [to |-> b, n |-> n, asset |-> asset] @@ By("Payment", a)
Pay(a, b, n) == Send2(a, b, n, XRP)
Ticketed(t, n) == [ticket |-> n] @@ t
For(a, d, t) == [del |-> d] @@ t
Until(t, n) == [exp |-> n] @@ t
Set(a, f) == [set |-> f, master |-> TRUE] @@ By("AccountSet", a)
Clear(a, f) == [clear |-> f, master |-> TRUE] @@ By("AccountSet", a)
Signed(t) == [t EXCEPT !.master = FALSE]
Trust(a, b, lim, flags) == [to |-> b, lim |-> lim, flags |-> flags] @@ By("TrustSet", a)
Delegating(a, b, perms) == [to |-> b, perms |-> perms] @@ By("DelegateSet", a)

-------------------------------------------------------------------------------
Keys == [
  AccountSet    |-> {Set(1, "DisableMaster"), Signed(Set(1, "DisableMaster")), Signed(Clear(1, "DisableMaster")),
                     Set(1, "TxnID"), Clear(1, "TxnID")},
  SetRegularKey |-> {[key |-> k, master |-> m] @@ By("SetRegularKey", 1) : k \in BOOLEAN, m \in BOOLEAN},
  SignerListSet |-> {[quorum |-> q, entries |-> n] @@ By("SignerListSet", 1) : q \in 0 .. 2, n \in {0, 2}},
  Payment       |-> {[prior |-> 1005] @@ Pay(1, 2, 1), [last |-> 11] @@ Pay(1, 2, 17)}]

Lives == [
  TicketCreate   |-> {[count |-> n] @@ By("TicketCreate", 1) : n \in {1, 3}},
  Payment        |-> {Pay(2, 1, 3), Pay(2, 1, 1), Ticketed(Pay(1, 2, 2), 6), Ticketed(Pay(1, 2, 2), 7),
                      Pay(1, 3, 2), [skip |-> 1] @@ Pay(1, 2, 1), For(1, 2, Pay(1, 3, 2))},
  AccountDelete  |-> {[to |-> 2] @@ By("AccountDelete", 1), Ticketed([to |-> 2] @@ By("AccountDelete", 1), 6)},
  DelegateSet    |-> {Delegating(1, 2, p) : p \in {{}, {"Payment"}}},
  DepositPreauth |-> {[to |-> 1, grant |-> TRUE] @@ By("DepositPreauth", 2)}]

Deposits == [
  AccountSet       |-> {Set(1, "DepositAuth")},
  CredentialCreate |-> {[to |-> 3] @@ By("CredentialCreate", 2), Until([to |-> 3] @@ By("CredentialCreate", 2), 10)},
  CredentialAccept |-> {[issuer |-> 2] @@ By("CredentialAccept", 3)},
  CredentialDelete |-> {[subject |-> 3, issuer |-> 2] @@ By("CredentialDelete", a) : a \in 1 .. 3},
  DepositPreauth   |-> {[issuers |-> {2}, grant |-> g] @@ By("DepositPreauth", 1) : g \in BOOLEAN},
  Payment          |-> {[creds |-> {Cred(3, 2)}] @@ Pay(3, 1, 4), Pay(3, 1, 2)},
  AccountDelete    |-> {[to |-> 1, creds |-> {Cred(3, 2)}] @@ By("AccountDelete", 3), [to |-> 1] @@ By("AccountDelete", 2)}]

Lines == [
  TrustSet   |-> {Trust(2, 1, 5, {}), Trust(2, 1, 0, {}), Trust(3, 1, 5, {"SetNoRipple"}), Trust(1, 2, 0, {"SetFreeze"}),
                  Trust(1, 2, 0, {"ClearFreeze"}), Trust(1, 2, 0, {"SetfAuth"}), For(1, 3, Trust(1, 2, 0, {"SetFreeze"}))},
  AccountSet |-> {[rate |-> 3] @@ Set(1, "none")},
  Payment    |-> {Send2(1, 2, 4, IOU), Send2(2, 1, 4, IOU), [max |-> 3] @@ Send2(2, 3, 2, IOU),
                  [partial |-> TRUE] @@ Send2(2, 3, 4, IOU), Send2(3, 1, 2, IOU)},
  Clawback   |-> {[holder |-> 2, n |-> 3] @@ By("Clawback", 1)}]

\* An issuer that may claw back and lets its lines ripple; an account of its own that freezes.
LinesBefore ==
  <<Set(1, "Clawback"), Set(1, "DefaultRipple"), Delegating(1, 3, {"TrustlineFreeze"}),
   Trust(3, 1, 5, {})>>

Issue(flags) ==
  [max |-> 9, rate |-> IF "CanTransfer" \in flags THEN 3 ELSE 2, flags |-> flags] @@ By("IssuanceCreate", 1)
Opt(a) == [k |-> MPT, undo |-> FALSE] @@ By("MPTokenAuthorize", a)
Undo(t) == [t EXCEPT !.undo = TRUE]
Lock(a) == [k |-> MPT, undo |-> FALSE] @@ By("IssuanceSet", a)

Multi == [
  IssuanceCreate   |-> {Issue({"RequireAuth"}), Issue({})},
  MPTokenAuthorize |-> {Opt(3), Undo(Opt(2)), Undo(Opt(3)), [holder |-> 3] @@ Opt(1), Undo([holder |-> 2] @@ Opt(1))},
  IssuanceSet      |-> {[holder |-> 2] @@ Lock(1), Undo([holder |-> 2] @@ Lock(1)), Lock(1)},
  Payment          |-> {Send2(1, 2, 8, MPT), [max |-> 6] @@ Send2(2, 3, 4, MPT),
                        [partial |-> TRUE] @@ Send2(2, 3, 5, MPT), Send2(2, 1, 3, MPT)},
  Clawback         |-> {[k |-> MPT, holder |-> 2, n |-> 4] @@ By("Clawback", 1)},
  IssuanceDestroy  |-> {[k |-> MPT] @@ By("IssuanceDestroy", 1)}]

AllMarks == {"CanTransfer", "CanLock", "CanClawback", "CanEscrow", "RequireAuth"}

MultiBefore ==
  <<Issue(AllMarks), Opt(2), [holder |-> 2] @@ Opt(1), Send2(1, 2, 6, MPT)>>

-------------------------------------------------------------------------------
Escrow(a, b, n, asset) == [to |-> b, n |-> n, asset |-> asset] @@ By("EscrowCreate", a)
FinishOf(a, own, off) == [owner |-> own, off |-> off] @@ By("EscrowFinish", a)
CancelOf(a, own, off) == [owner |-> own, off |-> off] @@ By("EscrowCancel", a)

Escrows == [
  EscrowCreate |-> {[fin |-> 10, cancel |-> 11] @@ Escrow(2, 3, 4, XRP),
                    [cancel |-> 11, cond |-> "c"] @@ Escrow(2, 3, 4, XRP), [fin |-> 10] @@ Escrow(2, 2, 9, XRP)},
  EscrowFinish |-> {FinishOf(3, 2, 5), FinishOf(2, 2, 6), [cond |-> "c", fulfil |-> "c"] @@ FinishOf(3, 2, 5),
                    [cond |-> "c", fulfil |-> "d"] @@ FinishOf(1, 2, 5)},
  EscrowCancel |-> {CancelOf(1, 2, 5), CancelOf(2, 2, 6)},
  AccountSet   |-> {Set(3, "DepositAuth")},
  AccountDelete |-> {[to |-> 1] @@ By("AccountDelete", 3)}]

LineEscrows == [
  EscrowCreate |-> {[fin |-> 10, cancel |-> 11] @@ Escrow(2, b, 3, IOU) : b \in {1, 3}},
  EscrowFinish |-> {FinishOf(3, 2, 7), FinishOf(2, 2, 7)},
  EscrowCancel |-> {CancelOf(2, 2, 7), CancelOf(1, 2, 7)},
  TrustSet     |-> {Trust(3, 1, 5, {}), Trust(3, 1, 1, {}), Trust(2, 1, 0, {}), Trust(1, 2, 0, {"SetFreeze"})},
  Payment      |-> {Send2(2, 1, 3, IOU)},
  AccountSet   |-> {[rate |-> 2] @@ Set(1, "none")}]

LineEscrowsBefore ==
  <<Set(1, "Locking"), Set(1, "DefaultRipple"), [rate |-> 3] @@ Set(1, "none"),
   Trust(2, 1, 9, {}), Send2(1, 2, 6, IOU), Set(2, "none")>>

MultiEscrows == [
  EscrowCreate     |-> {[fin |-> 10, cancel |-> 11] @@ Escrow(2, b, 3, MPT) : b \in {1, 3}},
  EscrowFinish     |-> {FinishOf(3, 2, 7), FinishOf(2, 2, 7)},
  EscrowCancel     |-> {CancelOf(2, 2, 7), CancelOf(1, 2, 7)},
  MPTokenAuthorize |-> {Opt(3), Undo(Opt(2))},
  Payment          |-> {Send2(2, 1, 3, MPT)},
  IssuanceSet      |-> {[holder |-> 3] @@ Lock(1)},
  Clawback         |-> {[k |-> MPT, holder |-> 2, n |-> 4] @@ By("Clawback", 1)},
  IssuanceDestroy  |-> {[k |-> MPT] @@ By("IssuanceDestroy", 1)}]

MultiEscrowsBefore ==
  <<Issue(AllMarks \ {"RequireAuth"}), Opt(2), Send2(1, 2, 6, MPT), Set(2, "none")>>

-------------------------------------------------------------------------------
CheckOf(a, b, n, asset) == [to |-> b, n |-> n, asset |-> asset] @@ By("CheckCreate", a)
TheCheck == <<"check", 2, 6>>
Cash(a) == [k |-> TheCheck] @@ By("CheckCash", a)

Checks == [
  CheckCreate |-> {CheckOf(2, 3, 4, IOU), Until(CheckOf(2, 3, 4, IOU), 11), CheckOf(2, 3, 18, XRP), CheckOf(2, 3, 5, XRP)},
  CheckCash   |-> {[n |-> 3] @@ Cash(3), [min |-> 3] @@ Cash(3), [min |-> 1] @@ Cash(3), [n |-> 5] @@ Cash(3)},
  CheckCancel |-> {[k |-> TheCheck] @@ By("CheckCancel", a) : a \in {1, 3}},
  Payment     |-> {Pay(2, 1, 9), Send2(2, 1, 4, IOU)},
  TrustSet    |-> {Trust(3, 1, 3, {}), Trust(1, 2, 0, {"SetFreeze"})},
  AccountSet  |-> {[rate |-> 3] @@ Set(1, "none")}]

ChecksBefore ==
  <<Set(1, "DefaultRipple"), Trust(2, 1, 9, {}), Send2(1, 2, 6, IOU)>>

TheChannel == <<"chan", 2, 3, 5>>
ClaimOn(a) == [k |-> TheChannel, renew |-> FALSE, close |-> FALSE, sig |-> FALSE] @@ By("ChannelClaim", a)
Drawn(t, n) == [bal |-> n] @@ [t EXCEPT !.sig = TRUE]
Closes(t) == [t EXCEPT !.close = TRUE]

Channels == [
  ChannelCreate |-> {[to |-> 3, n |-> 5, delay |-> 1] @@ By("ChannelCreate", 2),
                     [to |-> 3, n |-> 5, delay |-> 1, cancel |-> 11] @@ By("ChannelCreate", 2)},
  ChannelClaim  |-> {Drawn(ClaimOn(3), 3), Drawn(ClaimOn(3), 5), Closes(ClaimOn(2)), Closes(ClaimOn(3)),
                     Drawn(ClaimOn(2), 2), [ClaimOn(2) EXCEPT !.renew = TRUE], Closes(Drawn(ClaimOn(3), 4)), ClaimOn(1)},
  ChannelFund   |-> {[k |-> TheChannel, n |-> 2] @@ By("ChannelFund", 2),
                     Until([k |-> TheChannel, n |-> 2] @@ By("ChannelFund", 2), 11)},
  AccountDelete |-> {[to |-> 1] @@ By("AccountDelete", a) : a \in {2, 3}}]

-------------------------------------------------------------------------------
Mint(a, x) == [flags |-> {}, fee |-> 0, x |-> x] @@ By("NFTokenMint", a)
Nft(a, x, n) == <<"nft", {}, 0, a, x, n>>
Burn(a, owner, id) == [owner |-> owner, id |-> id] @@ By("NFTokenBurn", a)
Selling(a, id, n, asset) == [selling |-> TRUE, id |-> id, n |-> n, asset |-> asset] @@ By("NFTokenCreateOffer", a)
Buying(a, owner, id, n, asset) == [owner |-> owner] @@ [Selling(a, id, n, asset) EXCEPT !.selling = FALSE]
OfferKey(a, n) == <<"nftoffer", a, n>>
Sold(a, k) == [sell |-> k] @@ By("NFTokenAcceptOffer", a)
Bought(a, k) == [buy |-> k] @@ By("NFTokenAcceptOffer", a)
Brokered(a, s, b) == [buy |-> b] @@ Sold(a, s)

\* A token with a fee of half, minted by 1 and held by 2.
Art == <<"nft", {"burnable", "mutable"}, 1, 1, 0, 5>>
ArtBefore ==
  <<[flags |-> {"burnable", "mutable"}, fee |-> 1] @@ Mint(1, 0), Selling(1, Art, 0, XRP),
   Sold(2, OfferKey(1, 6)), Trust(2, 1, 9, {}), Trust(3, 1, 9, {}), Send2(1, 3, 6, IOU)>>

Deals == [
  NFTokenCreateOffer |-> {Selling(2, Art, 4, XRP), [dst |-> 1] @@ Selling(2, Art, 2, XRP), Selling(2, Art, 4, IOU),
                          Until(Buying(3, 2, Art, 6, XRP), 11), Buying(3, 2, Art, 4, IOU), Buying(1, 2, Art, 4, XRP)},
  NFTokenAcceptOffer |-> {Sold(3, OfferKey(2, 7)), Bought(2, OfferKey(3, 6)), Bought(2, OfferKey(1, 8)),
                          [cut |-> 2] @@ Brokered(1, OfferKey(2, 7), OfferKey(3, 6))},
  NFTokenCancelOffer |-> {[keys |-> {OfferKey(3, 6)}] @@ By("NFTokenCancelOffer", a) : a \in {1, 3}},
  NFTokenBurn        |-> {Burn(2, 2, Art), Burn(1, 2, Art)},
  NFTokenModify      |-> {[owner |-> 2, id |-> Art] @@ By("NFTokenModify", 1)},
  AccountDelete      |-> {[to |-> 1] @@ By("AccountDelete", 2)},
  Payment            |-> {Send2(3, 1, 6, IOU)}]

Minting == [
  NFTokenMint    |-> {Mint(1, x) : x \in {0, 2}} \cup {[issuer |-> 1] @@ Mint(2, 0), [n |-> 1, asset |-> XRP] @@ Mint(1, 1)},
  NFTokenBurn    |-> {Burn(1, 1, Nft(1, x, n)) : x \in {0, 2}, n \in 5 .. 8},
  AccountSet     |-> {[minter |-> 2] @@ Set(1, "Minter")},
  LedgerStateFix |-> {[owner |-> 1] @@ By("LedgerStateFix", 2)}]

-------------------------------------------------------------------------------
Prices(a, prices, drops, at) ==
  [doc |-> 1, prices |-> prices, drops |-> drops, at |-> at, full |-> TRUE] @@ By("OracleSet", a)
Describes(a, sets, empties) == [sets |-> sets, empties |-> empties] @@ By("DIDSet", a)
TheDomain == <<"domain", 1, 6>>

Registry == [
  OracleSet     |-> {Prices(1, 1 .. 5, {}, 1), Prices(1, {6}, {1}, 2), Prices(1, {6, 7}, {}, 3), Prices(1, {}, 1 .. 5, 4),
                     Prices(1, 1 .. 4, {9}, 1)},
  OracleDelete  |-> {[doc |-> 1] @@ By("OracleDelete", 1)},
  DIDSet        |-> {Describes(1, {"URI"}, {}), Describes(1, {}, {"URI"}), Describes(1, {"Data"}, {"URI"})},
  DIDDelete     |-> {By("DIDDelete", 1)},
  DomainSet     |-> {[issuers |-> {2}] @@ By("DomainSet", 1), [issuers |-> {1}, k |-> TheDomain] @@ By("DomainSet", 1)},
  DomainDelete  |-> {[k |-> TheDomain] @@ By("DomainDelete", a) : a \in {1, 2}},
  Payment       |-> {Pay(1, 2, 6)},
  AccountDelete |-> {[to |-> 2] @@ By("AccountDelete", 1)}]

Over(type, a) == [door |-> 1] @@ By(type, a)
Attests(a, signer, dst, n) ==
  [claim |-> 1, signer |-> signer, src |-> "s", n |-> n, way |-> "locking", dst |-> dst, pays |-> a] @@ Over("Attest", a)

Crossing == [
  CreateBridge  |-> {[reward |-> 3] @@ Over("CreateBridge", 1)},
  ModifyBridge  |-> {[reward |-> 2] @@ Over("ModifyBridge", 1)},
  CreateClaimId |-> {[reward |-> 3, src |-> "s"] @@ Over("CreateClaimId", 2)},
  Commit        |-> {[n |-> n] @@ Over("Commit", 3) : n \in {3, 45}},
  CreateCommit  |-> {[n |-> 3, reward |-> 2] @@ Over("CreateCommit", 3)},
  Attest        |-> {Attests(3, s, 2, 4) : s \in 1 .. 3} \cup {Attests(2, 2, 3, 4)},
  Claim         |-> {[claim |-> 1, n |-> 4, dst |-> a] @@ Over("Claim", 2) : a \in {3, 4}},
  AttestCreate  |-> {Over("AttestCreate", 3)},
  SignerListSet |-> {[quorum |-> 1, entries |-> 2] @@ By("SignerListSet", 1)}]

CrossingBefore ==
  <<[quorum |-> 2, entries |-> 2] @@ By("SignerListSet", 1)>>

-------------------------------------------------------------------------------
Inner(t) == [inner |-> TRUE] @@ t
Next1(t) == [skip |-> 1] @@ Inner(t)
Next2(t) == [skip |-> 2] @@ Inner(t)
Modes == {"AllOrNothing", "OnlyOne", "UntilFailure", "Independent"}
BatchOf(m, signers, inners) == [mode |-> m, signers |-> signers, inners |-> inners] @@ By("Batch", 1)

Batches == [
  Batch         |-> {BatchOf(m, {2}, <<Next1(Pay(1, 2, 4)), Inner(Pay(2, 1, n))>>) : m \in Modes, n \in {2, 30}}
                    \cup {BatchOf(m, {2}, <<Inner(Ticketed(Pay(2, 1, 15), 6)), Next1(Pay(1, 3, 9)), Next2(Pay(1, 2, 30))>>) : m \in Modes}
                    \cup {BatchOf("AllOrNothing", {}, <<Next1([count |-> 2] @@ By("TicketCreate", 1)), Next2(Pay(1, 2, 3))>>),
                          BatchOf("Independent", {2}, <<Next1(Pay(1, 2, 1)), Inner([to |-> 1] @@ By("AccountDelete", 2))>>)},
  TicketCreate  |-> {[count |-> 2] @@ By("TicketCreate", 2)},
  Payment       |-> {Pay(2, 1, 12), Ticketed(Pay(2, 1, 2), 6)},
  DelegateSet   |-> {Delegating(2, 1, {"Payment"})},
  AccountSet    |-> {Set(1, "TxnID")}]

-------------------------------------------------------------------------------
\* A holder of another's tokens, on two pages, that may lose the last of them and leave.
Leaving == [
  NFTokenBurn   |-> {Burn(2, 2, Nft(1, 2, n)) : n \in 7 .. 8} \cup {Burn(2, 2, Nft(1, 0, 9))},
  AccountDelete |-> {[to |-> 1] @@ By("AccountDelete", 2)},
  Payment       |-> {Pay(1, 2, 5)},
  NFTokenMint   |-> {[issuer |-> 1] @@ Mint(2, 1)},
  LedgerStateFix |-> {[owner |-> 2] @@ By("LedgerStateFix", 1)}]

LeavingBefore ==
  <<[minter |-> 2] @@ Set(1, "Minter")>>
  \o [i \in 1 .. 4 |-> [issuer |-> 1] @@ Mint(2, IF i \in 2 .. 3 THEN 2 ELSE 0)]

-------------------------------------------------------------------------------
\* What was done before; everybody begins with 20, but for those who should be short or rich.
Befores == [lines |-> LinesBefore, multi |-> MultiBefore, lineescrows |-> LineEscrowsBefore,
            multiescrows |-> MultiEscrowsBefore, checks |-> ChecksBefore, deals |-> ArtBefore, crossing |-> CrossingBefore,
            leaving |-> LeavingBefore]

Balances(p) ==
  CASE p = "lines"    -> <<20, 9, 20>>
    [] p = "crossing" -> <<6, 20, 40>>
    [] p \in {"keys", "lives", "minting", "registry", "batches", "leaving"} -> <<20, 20>>
    [] OTHER          -> <<20, 20, 20>>

MCInputs == [keys |-> Keys, lives |-> Lives, deposits |-> Deposits, lines |-> Lines, multi |-> Multi,
             escrows |-> Escrows, lineescrows |-> LineEscrows, multiescrows |-> MultiEscrows, checks |-> Checks,
             channels |-> Channels, deals |-> Deals, minting |-> Minting, registry |-> Registry,
             crossing |-> Crossing, batches |-> Batches, leaving |-> Leaving]
Subjects == {"keys", "lives", "deposits", "lines", "multi", "escrows", "lineescrows", "multiescrows", "checks",
             "channels", "deals", "minting", "registry", "crossing", "batches", "leaving"}
\* The accounts are four ledgers old, or old enough to leave.
Old(p) == [Funded(Balances(p)) EXCEPT !.lseq = IF p = "leaving" THEN 20 ELSE @]
MCStart == [p \in Subjects |-> After2(Old(p), Field(Befores, p, <<>>))]
MCMaxTxs == [p \in Subjects |-> IF p \in {"keys", "lines", "deposits", "escrows", "multiescrows", "minting", "crossing", "leaving"} THEN 6 ELSE 5]
MCMaxCloses == [p \in Subjects |-> IF p \in {"keys", "lines", "multi", "minting", "crossing", "batches", "leaving"} THEN 0 ELSE 2]
===============================================================================
