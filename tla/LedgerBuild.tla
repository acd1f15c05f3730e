------------------------------- MODULE LedgerBuild -------------------------------
(***************************************************************************)
(* The native writer's own build of a ledger (XRPL_NATIVE_ORDER): the        *)
(* ledger's transactions put in canonical order (ledger/close.rs), applied   *)
(* in up to three passes, and the outcome held against the order and the     *)
(* results the network filed (native_order.rs, native_shadow.rs).  What the  *)
(* engine says of one transaction is Result here; the engine itself is in    *)
(* Engine.  rippled's build is external: NetBuild is what close.rs and        *)
(* native_order.rs say of BuildLedger.cpp.                                   *)
(***************************************************************************)
EXTENDS Integers, Sequences, FiniteSets, Functions

CONSTANTS
  BuildTxs,          \* transactions: naturals, in the order of their hashes
  Account,      \* Txs -> its account as a number; 0 for a pseudo transaction
  Proxy,        \* Txs -> [ticket, n]: the sequence or the ticket it goes by
  Needs,        \* Txs -> the transactions that must have succeeded for it to succeed
  Lacking,      \* Txs -> its result until then: "tec", "kept" (a tec always claimed) or "ter"
  Inner,        \* Txs -> the inner transactions of a Batch, filed right after it
  SaltOf(_),    \* the root of a set of transactions, as a number
  XorBits(_, _),  \* two numbers' bits, each pair of them exclusive
  Sets,         \* the consensus sets considered
  MaxLedgers, MaxWrong    \* bounds: ledgers, transactions our engine gets wrong in the first one

ASSUME BuildAssumption ==
  /\ BuildTxs \subseteq Nat /\ IsFiniteSet(BuildTxs)
  /\ Account \in [BuildTxs -> Nat] /\ Proxy \in [BuildTxs -> [ticket : BOOLEAN, n : Nat]]
  /\ Needs \in [BuildTxs -> SUBSET BuildTxs] /\ Inner \in [BuildTxs -> SUBSET BuildTxs]
  /\ Lacking \in [BuildTxs -> {"tec", "kept", "ter"}]
  /\ Sets \subseteq SUBSET BuildTxs

\* Two accounts differ under a salt as they do without it.
ASSUME SaltAssumption ==
  \A S \in SUBSET BuildTxs, t, u \in BuildTxs :
    /\ XorBits(Account[t], SaltOf(S)) \in Nat
    /\ XorBits(Account[t], SaltOf(S)) = XorBits(Account[u], SaltOf(S)) => Account[t] = Account[u]

VARIABLES
  mode,         \* XRPL_NATIVE_ORDER: "shadow" or "on"
  set,          \* the consensus set the ledger was built from; the node does not see it
  filed,        \* what the ledger holds, in its order: [tx, code]
  wrong,        \* transactions our engine gets wrong in this ledger
  set_agreed,       \* the tally knows the consensus set's root
  stage,        \* "idle", "walk", "judged"
  todo, retry,  \* this pass: what is still to try, what waits for the next
  pass, pass_changes, certain_retry,
  built,      \* our build: [pass, tx, code], in order
  ours,         \* the mirror in our walk: transactions -> results, earlier ledgers' included
  failed_now, left, attempts,
  past,         \* the ledger before it: transactions of earlier ledgers -> their results
  total,        \* total XRP of the network's last ledger
  totals,       \* the last ledger's number and total the writer remembers; 0 for none
  exact,        \* LAST: whether the last ledger was exactly the network's
  refusal       \* the writer refuses its own ledger: the network's bytes are written

walk_vars == <<todo, retry, pass, pass_changes, certain_retry, built, ours, failed_now, left, attempts>>
build_vars == <<mode, set, filed, wrong, set_agreed, stage, walk_vars, past, total, totals, exact, refusal>>

Pseudo(t) == Account[t] = 0
Inners == UNION {Inner[t] : t \in BuildTxs}

-----------------------------------------------------------------------------
(* What the engine says of a transaction, given the results of those before  *)

Done(before, good) == {t \in DOMAIN before : before[t] \in good}
NextSeq(before, a) ==
  1 + Cardinality({t \in DOMAIN before : Account[t] = a /\ ~Proxy[t].ticket})

Result(t, before) ==
  IF ~Pseudo(t) /\ ~Proxy[t].ticket /\ Proxy[t].n > NextSeq(before, Account[t]) THEN "ter"
  ELSE IF ~Pseudo(t) /\ ~Proxy[t].ticket /\ Proxy[t].n < NextSeq(before, Account[t]) THEN "tef"
  ELSE IF Needs[t] \subseteq Done(before, {"tes"}) THEN "tes" ELSE Lacking[t]

\* Applying t: its result, and its inner transactions' when it succeeded.
With(before, t, code) ==
  LET inner == IF code = "tes" THEN Inner[t] ELSE {} IN
  [x \in DOMAIN before \cup {t} \cup inner |->
     IF x = t THEN code ELSE IF x \in inner THEN "tes" ELSE before[x]]

-----------------------------------------------------------------------------
(* rippled's build (external)                                                *)

NetKey(t, salt) == <<XorBits(Account[t], salt), IF Proxy[t].ticket THEN 1 ELSE 0, Proxy[t].n, t>>

\* The members of S, each after those prior to it.
Ranked(S, prior) ==
  [i \in 1 .. Cardinality(S) |-> CHOOSE t \in S : Cardinality({u \in S : <<u, t>> \in prior}) = i - 1]

Less(a, b) == \E i \in 1 .. 4 : a[i] < b[i] /\ \A j \in 1 .. i - 1 : a[j] = b[j]
NetOrder(S) == Ranked(S, {p \in S \X S : Less(NetKey(p[1], SaltOf(S)), NetKey(p[2], SaltOf(S)))})

Lower(S) == {p \in S \X S : p[1] < p[2]}

\* What the ledger lists for t: itself, and a Batch's inner transactions right after it.
Listed(t, code) ==
  <<[tx |-> t, code |-> code]>> \o
    [i \in 1 .. (IF code = "tes" THEN Cardinality(Inner[t]) ELSE 0) |-> [tx |-> Ranked(Inner[t], Lower(Inner[t]))[i], code |-> "tes"]]

\* One pass: what applied, in order, and what waits.
NetStep(w, t, certain) ==
  LET code == Result(t, w.before) IN
  IF code = "ter" \/ (code = "tec" /\ certain) THEN [w EXCEPT !.wait = Append(@, t)]
  ELSE IF code = "tef" THEN w
  ELSE [w EXCEPT !.before = With(@, t, code), !.order = @ \o Listed(t, code)]

NetPass(b, certain) ==
  LET after[i \in 0 .. Len(b.wait)] ==
        IF i = 0 THEN [b EXCEPT !.wait = <<>>] ELSE NetStep(after[i - 1], b.wait[i], certain)
  IN after[Len(b.wait)]

NetBuild(S, before) ==
  LET b0 == [before |-> before, wait |-> NetOrder(S), order |-> <<>>]
      b1 == NetPass(b0, TRUE)
      some1 == Len(b1.order) > 0
      b2 == NetPass(b1, some1)
      some2 == Len(b2.order) > Len(b1.order)
  IN IF ~some1 /\ ~some2 THEN b2 ELSE NetPass(b2, FALSE)

-----------------------------------------------------------------------------
(* Our own build                                                             *)

\* close.rs: the account xor the salt, a sequence before a ticket, the hash.
account_key(t, salt) == XorBits(Account[t], salt)

Before(t, u, salt) ==
  \/ account_key(t, salt) < account_key(u, salt)
  \/ /\ Account[t] = Account[u]
     /\ \/ ~Proxy[t].ticket /\ Proxy[u].ticket
        \/ Proxy[t].ticket = Proxy[u].ticket /\ (Proxy[t].n < Proxy[u].n \/ (Proxy[t].n = Proxy[u].n /\ t < u))

canonical_order(S, salt) == Ranked(S, {p \in S \X S : Before(p[1], p[2], salt)})

\* The ledger's transactions without the inner ones, salted with the set the validators named when
\* more than half of them have, else with the root of these transactions themselves.
FiledTxs == {filed[i].tx : i \in DOMAIN filed}
Ours == FiledTxs \ Inners

TotalPasses == 3    \* LEDGER_TOTAL_PASSES
RetryPasses == 1    \* LEDGER_RETRY_PASSES

canonical_set == canonical_order(Ours, IF set_agreed THEN SaltOf(set) ELSE SaltOf(Ours))

OurPlaces == {i \in DOMAIN filed : filed[i].tx \notin Inners}
network_order == [i \in 1 .. Cardinality(OurPlaces) |-> filed[Ranked(OurPlaces, Lower(OurPlaces))[i]]]

classify(code, certain) ==
  CASE code \in {"tes", "kept"}     -> "Success"
    [] code = "ter"                 -> "Retry"
    [] code = "tec"                 -> IF certain THEN "Retry" ELSE "Success"
    [] OTHER                        -> "Fail"

-----------------------------------------------------------------------------
BuildInit ==
  /\ mode \in {"shadow", "on"}
  /\ set = {} /\ filed = <<>> /\ wrong = {} /\ set_agreed = FALSE /\ stage = "idle"
  /\ todo = <<>> /\ retry = <<>> /\ pass = 0 /\ pass_changes = 0 /\ certain_retry = TRUE
  /\ built = <<>> /\ ours = <<>> /\ failed_now = {} /\ left = <<>> /\ attempts = 0
  /\ past = <<>> /\ total = 100 /\ totals = [seq |-> 0, total |-> 0] /\ exact = TRUE /\ refusal = FALSE

\* The network closes a ledger from some set of transactions it has not filed yet; the loop hands
\* it to the mirror, which begins its walk.
LedgerFiled(S) ==
  /\ stage = "idle" /\ totals.seq < MaxLedgers
  /\ S \cap (DOMAIN past \cup Inners) = {}
  /\ set' = S /\ filed' = NetBuild(S, past).order
  /\ set_agreed' \in BOOLEAN
  /\ \E w \in SUBSET S : (totals.seq # 0 => w = {}) /\ Cardinality(w) <= MaxWrong /\ wrong' = w
  /\ stage' = "ready"
  /\ UNCHANGED <<mode, walk_vars, past, total, totals, exact, refusal>>

\* run_ledger with ours: apply_in_passes over the canonical set.
WalkBegins ==
  /\ stage = "ready"
  /\ todo' = canonical_set /\ retry' = <<>> /\ pass' = 0 /\ pass_changes' = 0 /\ certain_retry' = TRUE
  /\ built' = <<>> /\ ours' = past /\ failed_now' = {} /\ left' = <<>> /\ attempts' = 0
  /\ stage' = "walk"
  /\ UNCHANGED <<mode, set, filed, wrong, set_agreed, past, total, totals, exact, refusal>>

Attempt ==
  /\ stage = "walk" /\ todo # <<>>
  /\ LET t == Head(todo)
         code == IF t \in wrong THEN "tef" ELSE Result(t, ours)
         outcome == classify(code, certain_retry)
     IN /\ built' = IF outcome = "Success" THEN Append(built, [pass |-> pass, tx |-> t, code |-> code]) ELSE built
        /\ ours' = IF outcome = "Success" THEN With(ours, t, code) ELSE ours
        /\ pass_changes' = IF outcome = "Success" THEN pass_changes + 1 ELSE pass_changes
        /\ failed_now' = IF outcome = "Fail" THEN failed_now \cup {t} ELSE failed_now
        /\ retry' = IF outcome = "Retry" THEN Append(retry, t) ELSE retry
  /\ todo' = Tail(todo) /\ attempts' = attempts + 1
  /\ UNCHANGED <<mode, set, filed, wrong, set_agreed, stage, pass, certain_retry, left, past, total, totals, exact, refusal>>

\* A claiming pass that changed nothing is the last.
WalkOver == (pass_changes = 0 /\ ~certain_retry) \/ pass + 1 = TotalPasses

StillCertainLong == certain_retry /\ pass_changes # 0

\* A pass that changed nothing is followed by one that claims, as is the second.
StillCertain == certain_retry /\ pass_changes # 0 /\ pass < RetryPasses

PassEnds ==
  /\ stage = "walk" /\ todo = <<>>
  /\ IF WalkOver
     THEN /\ stage' = "walked" /\ left' = retry
          /\ UNCHANGED <<todo, retry, pass, pass_changes, certain_retry>>
     ELSE /\ todo' = retry /\ retry' = <<>> /\ pass' = pass + 1 /\ pass_changes' = 0
          /\ certain_retry' = StillCertain
          /\ UNCHANGED <<stage, left>>
  /\ UNCHANGED <<mode, set, filed, wrong, set_agreed, built, ours, failed_now, attempts, past, total, totals, exact, refusal>>

\* verdict, coins_verdict, judge.  Whichever walk the mirror kept, what it goes on with is the
\* network's: our walk is undone in shadow mode, and refused in the other when it differs.
OrderDiffers == [i \in DOMAIN built |-> built[i].tx] # [i \in DOMAIN network_order |-> network_order[i].tx]
ResultsDiffer ==
  \E f \in Range(network_order) : ~\E a \in Range(built) : a.tx = f.tx /\ a.code = f.code
Burned == Cardinality({a \in Range(built) : ~Pseudo(a.tx)})
HeaderTotal == total - Cardinality({f \in Range(network_order) : ~Pseudo(f.tx)})
CoinsDiffer == totals.seq # 0 /\ totals.total - Burned # HeaderTotal
Filing ==
  [t \in FiledTxs \cup DOMAIN past |->
     IF t \in FiledTxs THEN filed[CHOOSE i \in DOMAIN filed : filed[i].tx = t].code ELSE past[t]]

Judge ==
  /\ stage = "walked"
  /\ exact' = (~OrderDiffers /\ ~ResultsDiffer /\ ~CoinsDiffer /\ (mode = "shadow" => ours = Filing))
  /\ refusal' = (mode = "on" /\ (OrderDiffers \/ ResultsDiffer))
  /\ past' = Filing /\ total' = HeaderTotal
  /\ totals' = [seq |-> totals.seq + 1, total |-> HeaderTotal]
  /\ stage' = "judged"
  /\ UNCHANGED <<mode, set, filed, wrong, set_agreed, walk_vars>>

NextLedger ==
  /\ stage = "judged" /\ stage' = "idle"
  /\ set' = {} /\ filed' = <<>> /\ wrong' = {} /\ set_agreed' = FALSE /\ refusal' = FALSE
  /\ pass' = 0 /\ pass_changes' = 0 /\ certain_retry' = TRUE /\ retry' = <<>>
  /\ built' = <<>> /\ ours' = <<>> /\ failed_now' = {} /\ left' = <<>> /\ attempts' = 0
  /\ UNCHANGED <<mode, todo, past, total, totals, exact>>

BuildNext ==
  \/ \E S \in Sets : LedgerFiled(S)
  \/ WalkBegins \/ Attempt \/ PassEnds \/ Judge \/ NextLedger

BuildSpec == BuildInit /\ [][BuildNext]_build_vars

-----------------------------------------------------------------------------
(* Properties *)

\* The node sees only what the ledger filed, never the transactions of the set that were dropped.
\* Still, with the set's root known, or when all of the set was filed, its build is the network's:
\* the same order, the same results, the same XRP, and nothing failed or left over.
BuildAgrees ==
  stage = "judged" /\ wrong = {} /\ (set_agreed \/ Ours = set) => exact /\ ~refusal /\ failed_now = {} /\ left = <<>>

\* However the passes go, each transaction ends in one place, and an account's transactions apply
\* in the order of their sequences.
NothingLost ==
  /\ stage \in {"walk", "walked"} =>
       /\ {a.tx : a \in Range(built)} \cup failed_now \cup Range(todo) \cup Range(retry) = Ours
       /\ Len(built) + Cardinality(failed_now) + Len(todo) + Len(retry) = Cardinality(Ours)
       /\ attempts <= TotalPasses * Cardinality(Ours)
  /\ \A i, j \in DOMAIN built :
       i < j /\ Account[built[i].tx] = Account[built[j].tx] /\ ~Pseudo(built[i].tx) /\ ~Proxy[built[i].tx].ticket /\ ~Proxy[built[j].tx].ticket
         => Proxy[built[i].tx].n < Proxy[built[j].tx].n

\* A transaction the engine gets wrong is seen, whatever else of the ledger goes right, and the
\* writer that builds in its own order does not offer that ledger.
WrongIsSeen ==
  stage = "judged" /\ wrong \cap Ours # {} => ~exact /\ (mode = "on" => refusal)

\* BuildAgrees, NothingLost and WrongIsSeen.
BuildOK == BuildAgrees /\ NothingLost /\ WrongIsSeen
===============================================================================
