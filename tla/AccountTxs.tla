------------------------------ MODULE AccountTxs ------------------------------
(***************************************************************************)
(* The transactions of an account's own settings and objects: AccountSet,   *)
(* AccountDelete, SetRegularKey, SignerListSet, TicketCreate,               *)
(* DepositPreauth, the credentials, DelegateSet.                            *)
(*                                                                          *)
(* XPre is a transactor's preflight and preclaim, XDo its do_apply on the   *)
(* ledger after the fee and the sequence.  Left out: AccountSet's fields    *)
(* that are only stored, and its older tf flags.                            *)
(***************************************************************************)
EXTENDS LedgerView, FiniteSetsExt

CONSTANTS
  MAX_TICKETS,                 \* 250
  DELETE_AGE                   \* 255, in ledgers

Ticket(a, n) == <<"ticket", a, n>>
Signers(a) == <<"signers", a>>
Preauth(a, b) == <<"preauth", a, b>>
CredPreauth(a, pairs) == <<"preauthcred", a, pairs>>
Cred(subject, issuer) == <<"cred", subject, issuer>>
Delegate(a, b) == <<"delegate", a, b>>

\* A page of an account's NFTokens, by its bound; the last one's.
Page(a, b) == <<"page", a, b>>
LAST == 100000

-------------------------------------------------------------------------------
(* AccountSet: its numbered flags, TransferRate and NFTokenMinter *)

AccountSetPre(L, t) ==
  LET set == Field(t, "set", "none")
      flags == L.root[t.acct].flags IN
  Verdict(
    \/ set = "Minter" /\ ~With(t, "minter")
    \/ Field(t, "clear", "none") = "Minter" /\ With(t, "minter")
    \/ Field(t, "rate", 0) \notin {0} \cup 2 .. 4,
    \/ set = "RequireAuth" /\ "RequireAuth" \notin flags /\ Listed(L, t.acct) # {}
    \/ set = "Clawback" /\ ("NoFreeze" \in flags \/ Listed(L, t.acct) # {})
    \/ set = "NoFreeze" /\ "Clawback" \in flags)

\* ClearFlag is passed over for Clawback and NoFreeze, and for GlobalFreeze when it is set
\* in the same transaction or the account has given up freezing.
Clears(flags, t) ==
  LET clear == Field(t, "clear", "none") IN
  IF \/ clear \in {"none", "Clawback", "NoFreeze"}
     \/ clear = "GlobalFreeze" /\ (Field(t, "set", "none") = "GlobalFreeze" \/ "NoFreeze" \in flags)
    THEN {} ELSE {clear}

AccountSetDo(L, t) ==
  LET flags == L.root[t.acct].flags
      set == Field(t, "set", "none")
      on == {set} \ {"none", "Minter"}
      off == Clears(flags \cup on, t) IN
  Unless(\/ "DisableMaster" \in on \ flags /\ ~t.master
         \/ "DisableMaster" \in on \ flags /\ "RegularKey" \notin flags /\ ~Has(L, Signers(t.acct))
         \/ "NoFreeze" \in on /\ ~t.master /\ "DisableMaster" \notin flags,
    L,
    [SetFlags(L, t.acct, on, off) EXCEPT
                !.root[t.acct].rate = IF ~With(t, "rate") THEN @ ELSE IF t.rate = 0 THEN 2 ELSE t.rate,
                !.root[t.acct].minter = IF set = "Minter" THEN t.minter ELSE IF "Minter" \in off THEN 0 ELSE @,
                !.root[t.acct].txid = IF "TxnID" \in (on \ flags) \cup off THEN 0 ELSE @])

-------------------------------------------------------------------------------
(* The keys: SetRegularKey, SignerListSet *)

SetRegularKeyPre(L, t) == "tes"

\* The free password change is spent when the master key signs.
SetRegularKeyDo(L, t) ==
  LET spent == IF t.master THEN {"PasswordSpent"} ELSE {} IN
  Unless(~t.key /\ Flag(L, t.acct, "DisableMaster") /\ ~Has(L, Signers(t.acct)),
    L, IF t.key THEN SetFlags(L, t.acct, spent \cup {"RegularKey"}, {})
                ELSE SetFlags(L, t.acct, spent, {"RegularKey"}))

SignerListSetPre(L, t) ==
  Verdict(\/ t.quorum > 0 /\ t.entries = 0
          \/ t.entries > 0 /\ (t.quorum = 0 \/ t.entries < t.quorum),   \* each of weight 1
          FALSE)

\* Owner units of a list: one, or two and its entries in the old form.
ListUnits(o) == IF o.legacy THEN 2 + o.n ELSE 1

DropList(L, a, units) == Owns(Leave(Drop(L, Signers(a)), {Own(a)}, Signers(a)), a, -units)

SignerListSetDo(L, t) ==
  LET k == Signers(t.acct)
      bare == IF Has(L, k) THEN DropList(L, t.acct, ListUnits(L.obj[k])) ELSE L IN
  IF t.quorum = 0
    THEN Unless(Flag(L, t.acct, "DisableMaster") /\ ~Flag(L, t.acct, "RegularKey"),
           L, IF Has(L, k) THEN DropList(L, t.acct, 1) ELSE L)
    ELSE Unless(Short(bare, t, 1),
           L, Created(bare, t.acct, k, [n |-> t.entries, quorum |-> t.quorum, legacy |-> FALSE], {Own(t.acct)}))

-------------------------------------------------------------------------------
(* TicketCreate *)

\* A ticket the transaction itself spends counts neither against the limit nor the reserve.
TicketCreatePre(L, t) ==
  LET r == L.root[t.acct]
      spent == IF With(t, "ticket") THEN 1 ELSE 0 IN
  Verdict(t.count \notin 1 .. MAX_TICKETS,
          \/ r.tickets + t.count - spent > MAX_TICKETS
          \/ r.bal < Reserve(AtLeastZero(r.owners - spent) + t.count))

TicketCreateDo(L, t) ==
  LET a == t.acct
      first == L.root[a].seq
      made == {Ticket(a, n) : n \in first .. first + t.count - 1}
      told == [L EXCEPT !.obj = [k \in made |-> [own |-> a]] @@ L.obj,
                        !.dir = @ \cup {<<Own(a), k>> : k \in made}] IN
  Applied([told EXCEPT !.root[a].seq = first + t.count, !.root[a].tickets = @ + t.count,
                       !.root[a].owners = @ + t.count])

-------------------------------------------------------------------------------
(* DepositPreauth: of an account, or of holders of a set of credentials *)

PreauthKey(t) == IF With(t, "to") THEN Preauth(t.acct, t.to) ELSE CredPreauth(t.acct, t.issuers)

DepositPreauthPre(L, t) ==
  Verdict(t.grant /\ With(t, "to") /\ t.to = t.acct,
          IF t.grant THEN \/ IF With(t, "to") THEN ~HasRoot(L, t.to) ELSE \E i \in t.issuers : ~HasRoot(L, i)
                          \/ Has(L, PreauthKey(t))
                     ELSE ~Has(L, PreauthKey(t)))

DepositPreauthDo(L, t) ==
  LET k == PreauthKey(t) IN
  IF t.grant
    THEN Unless(Has(L, k) \/ Short(L, t, 1), L, Created(L, t.acct, k, [own |-> t.acct], {Own(t.acct)}))
    ELSE Unless(~Has(L, k), L, Removed(L, t.acct, k, {Own(t.acct)}))

-------------------------------------------------------------------------------
(* Credentials, of one type *)

\* credentials_valid: each names a credential of the subject that it has accepted.
CredsValid(L, t, subject) ==
  \A k \in Field(t, "creds", {}) : Has(L, k) /\ k[1] = "cred" /\ k[2] = subject /\ L.obj[k].accepted

\* Its issuer pays for it until its subject accepts.
ChargedFor(k, o) == IF o.accepted /\ k[2] # k[3] THEN k[2] ELSE k[3]

\* delete_credential_object
DropCred(L, k) == Removed(L, ChargedFor(k, L.obj[k]), k, {Own(k[2]), Own(k[3])})

CredentialCreatePre(L, t) == "tes"

CredentialCreateDo(L, t) ==
  LET k == Cred(t.to, t.acct)
      o == [accepted |-> t.to = t.acct] IN
  IF ~HasRoot(L, t.to) \/ Has(L, k) THEN Claimed(L)
  ELSE IF With(t, "exp") /\ L.time > t.exp THEN Result("expired", L)
  ELSE Unless(Short(L, t, 1), L,
         Created(L, t.acct, k, IF With(t, "exp") THEN o @@ [exp |-> t.exp] ELSE o, {Own(t.to), Own(t.acct)}))

CredentialAcceptPre(L, t) == "tes"

\* The reserve is judged before the expiry; an expired one is deleted all the same.
CredentialAcceptDo(L, t) ==
  LET k == Cred(t.acct, t.issuer) IN
  IF \/ ~HasRoot(L, t.issuer) \/ ~Has(L, k)
     \/ L.obj[k].accepted
     \/ Short(L, t, 1) THEN Claimed(L)
  ELSE IF Past(L, L.obj[k]) THEN Result("expired", Removed(L, t.issuer, k, {Own(t.acct), Own(t.issuer)}))
  ELSE Applied(LET on == [L EXCEPT !.obj[k].accepted = TRUE] IN
               IF t.issuer = t.acct THEN on ELSE Owns(Owns(on, t.issuer, -1), t.acct, 1))

CredentialDeletePre(L, t) == Verdict(FALSE, ~Has(L, Cred(t.subject, t.issuer)))

\* Anyone may delete one that is past its time.
CredentialDeleteDo(L, t) ==
  LET k == Cred(t.subject, t.issuer) IN
  Unless(~Has(L, k) \/ (t.acct \notin {t.subject, t.issuer} /\ ~Past(L, L.obj[k])), L, DropCred(L, k))

-------------------------------------------------------------------------------
(* DelegateSet *)

DelegateSetPre(L, t) ==
  Verdict(t.to = t.acct,
          \/ ~HasRoot(L, t.to) \/ Flag(L, t.to, "Pseudo")
          \/ t.perms = {} /\ ~Has(L, Delegate(t.acct, t.to)))

DropDelegate(L, k) == Removed(L, k[2], k, {Own(k[2]), Own(k[3])})

DelegateSetDo(L, t) ==
  LET k == Delegate(t.acct, t.to) IN
  IF Has(L, k)
    THEN Applied(IF t.perms = {} THEN DropDelegate(L, k) ELSE [L EXCEPT !.obj[k].perms = t.perms])
    ELSE IF t.perms = {} THEN Refused(L)
    ELSE Unless(Short(L, t, 1), L, Created(L, t.acct, k, [perms |-> t.perms], {Own(t.acct), Own(t.to)}))

-------------------------------------------------------------------------------
(* Deposits to an account that asks for permission *)

\* verify_deposit_preauth: expired credentials among those named are deleted first.
Expiring(L, t) == {k \in Field(t, "creds", {}) : Has(L, k) /\ Past(L, L.obj[k])}

\* The issuers of the credentials named.
Issuers(t) == {k[3] : k \in t.creds}

Allowed(L, t, src, dst) ==
  \/ ~Flag(L, dst, "DepositAuth") \/ src = dst
  \/ Has(L, Preauth(dst, src))
  \/ Field(t, "creds", {}) # {} /\ Has(L, CredPreauth(dst, Issuers(t)))

\* At most two credentials are named.
DropExpired(L, ks) ==
  LET one == CHOOSE k \in ks : TRUE IN
  IF Cardinality(ks) = 1 THEN DropCred(L, one) ELSE DropCred(DropCred(L, one), CHOOSE k \in ks \ {one} : TRUE)

DepositCheck(L, t, src, dst) ==
  IF Expiring(L, t) # {} THEN Result("expired", DropExpired(L, Expiring(L, t)))
  ELSE IF Allowed(L, t, src, dst) THEN Applied(L) ELSE Claimed(L)

-------------------------------------------------------------------------------
(* AccountDelete *)

Deletable == {"offer", "signers", "ticket", "preauth", "preauthcred", "nftoffer", "did", "oracle",
              "cred", "delegate"}

\* Of the pages of tokens only the last is looked for, which may be gone while others stand.
AccountDeletePre(L, t) ==
  LET r == L.root[t.acct] IN
  Verdict(FALSE,
    \/ ~HasRoot(L, t.to)
    \/ Flag(L, t.to, "DestTag") /\ ~With(t, "dtag")
    \/ ~CredsValid(L, t, t.acct)
    \/ ~With(t, "creds") /\ Flag(L, t.to, "DepositAuth") /\ ~Has(L, Preauth(t.to, t.acct))
    \/ r.minted # r.burned
    \/ r.seq + DELETE_AGE > L.lseq
    \/ r.first + r.minted + DELETE_AGE > L.lseq
    \/ \E k \in Listed(L, t.acct) : k[1] \notin Deletable
    \/ Has(L, Page(t.acct, LAST)))

\* The cascade, by type: who is let off how much, and the directories an object leaves.
CascadeDirs(a, k, o) ==
  CASE k[1] = "cred"     -> {Own(k[2]), Own(k[3])}
    [] k[1] = "delegate" -> {Own(k[2]), Own(k[3])}
    [] k[1] = "nftoffer" -> {Own(a), o.book}
    [] k[1] = "offer"    -> {Own(a), o.book}
    [] OTHER             -> {Own(a)}

CascadeCharge(a, k, o) ==
  CASE k[1] = "cred"     -> ChargedFor(k, o)
    [] k[1] = "delegate" -> k[2]
    [] OTHER             -> a

CascadeUnits(k, o) ==
  CASE k[1] = "signers" -> ListUnits(o)
    [] k[1] = "oracle"  -> IF Cardinality(o.pairs) > 5 THEN 2 ELSE 1
    [] OTHER            -> 1

UnitsOf(L, a, b, ks) ==
  MapThenSumSet(LAMBDA k : IF CascadeCharge(a, k, L.obj[k]) = b THEN CascadeUnits(k, L.obj[k]) ELSE 0, ks)

Cascade(L, a) ==
  LET ks == Listed(L, a) IN
  [L EXCEPT !.obj  = [k \in DOMAIN L.obj \ ks |-> L.obj[k]],
            !.dir  = @ \ UNION {{<<d, k>> : d \in CascadeDirs(a, k, L.obj[k])} : k \in ks},
            !.root = [b \in DOMAIN L.root |->
                        [L.root[b] EXCEPT !.owners = AtLeastZero(@ - UnitsOf(L, a, b, ks))]]]

Closed(L, a) == [L EXCEPT !.root = [b \in DOMAIN @ \ {a} |-> @[b]]]

\* The balance goes to the destination, whose free password change a payment arms again.
AccountDeleteDo(L, t) ==
  LET a == t.acct
      bal == L.root[a].bal
      paid == SetFlags(Credit(L, t.to, bal), t.to, {}, IF bal > 0 THEN {"PasswordSpent"} ELSE {}) IN
  IF ~HasRoot(L, t.to) \/ (Flag(L, t.to, "DestTag") /\ ~With(t, "dtag")) \/ ~CredsValid(L, t, a) THEN Claimed(L)
  ELSE Then(IF With(t, "creds") THEN DepositCheck(L, t, a, t.to) ELSE Applied(L), Applied(Closed(Cascade(paid, a), a)))
===============================================================================
