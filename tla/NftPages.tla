------------------------------- MODULE NftPages -------------------------------
(***************************************************************************)
(* The pages an account keeps its NFTokens on (ledger/nftpage.rs), and the  *)
(* transaction that repairs their links (tx/ledger_state_fix.rs).           *)
(*                                                                          *)
(* A token is <<"nft", flags, fee, issuer, x, sequence>>: x stands for the  *)
(* scrambled taxon.  A page is <<"page", owner, bound>> -> [toks, prev,     *)
(* next]: it holds tokens below its bound, prev and next are bounds, 0 for  *)
(* none.  The chain is entered at the page of the last bound.  A token's    *)
(* URI is left out, and two tokens with the same place in the order cannot  *)
(* be: the place holds the issuer and its sequence.                         *)
(***************************************************************************)
EXTENDS Custody

CONSTANTS PAGE_MAX             \* 32

ASSUME PageConstants == PAGE_MAX \in Nat \ {0, 1}

TokFlags(id) == id[2]
TokFee(id) == id[3]
TokIssuer(id) == id[4]

\* low96: the order of tokens.
Low(id) == 2 * ((id[4] * 4 + id[5]) * 64 + id[6])
Bounds(L, o) == {k[3] : k \in {p \in DOMAIN L.obj : p[1] = "page" /\ p[2] = o}}
LowestOf(S) == CHOOSE n \in S : \A m \in S : n <= m
HighestOf(S) == CHOOSE n \in S : \A m \in S : m <= n

\* The bounds met from the last page by the links back.
Chain(L, o) ==
  LET bs == Bounds(L, o)
      back[b \in bs] == {b} \cup (IF L.obj[Page(o, b)].prev \in bs THEN back[L.obj[Page(o, b)].prev] ELSE {})
  IN IF LAST \in bs THEN back[LAST] ELSE {}

\* locate_token
Where(L, o, id) == {b \in Chain(L, o) : id \in L.obj[Page(o, b)].toks}
HasToken(L, o, id) == Where(L, o, id) # {}

\* find_page: the page a token belongs on.
FindPage(L, o, id) == LowestOf({b \in Chain(L, o) : b > Low(id)})

\* A link of a page, if there is such a page.
Linked(L, o, b, field, to) == IF Has(L, Page(o, b)) THEN [L EXCEPT !.obj[Page(o, b)][field] = to] ELSE L

-------------------------------------------------------------------------------
(* Insertion *)

\* Mutant: the page before does not learn of the new one.
SplitUnlinked(L, o, b, id) ==
  LET page == L.obj[Page(o, b)]
      lower == {t \in page.toks : Cardinality({u \in page.toks : Low(u) < Low(t)}) < PAGE_MAX \div 2}
      nb == LowestOf({Low(t) : t \in page.toks \ lower})
      cut == [L EXCEPT !.obj[Page(o, b)] = [@ EXCEPT !.toks = @ \ lower, !.prev = nb]]
      made == Put(cut, Page(o, nb), [toks |-> lower, prev |-> page.prev, next |-> b]) IN
  [made EXCEPT !.obj[Page(o, IF Low(id) < nb THEN nb ELSE b)].toks = @ \cup {id}]

\* split_and_insert: the lower half of a full page moves to a new page before it.
Split(L, o, b, id) ==
  LET page == L.obj[Page(o, b)]
      lower == {t \in page.toks : Cardinality({u \in page.toks : Low(u) < Low(t)}) < PAGE_MAX \div 2}
      nb == LowestOf({Low(t) : t \in page.toks \ lower})
      cut == [L EXCEPT !.obj[Page(o, b)] = [@ EXCEPT !.toks = @ \ lower, !.prev = nb]]
      made == Put(Linked(cut, o, page.prev, "next", nb), Page(o, nb), [toks |-> lower, prev |-> page.prev, next |-> b]) IN
  [made EXCEPT !.obj[Page(o, IF Low(id) < nb THEN nb ELSE b)].toks = @ \cup {id}]

InsertAt(L, o, b, id) ==
  IF Cardinality(L.obj[Page(o, b)].toks) >= PAGE_MAX THEN [l |-> Split(L, o, b, id), made |-> TRUE]
  ELSE [l |-> [L EXCEPT !.obj[Page(o, b)].toks = @ \cup {id}], made |-> FALSE]

\* page_insert: made tells that there is a page more.
PageInsert(L, o, id) ==
  IF Has(L, Page(o, LAST)) THEN InsertAt(L, o, FindPage(L, o, id), id)
  ELSE [l |-> Put(L, Page(o, LAST), [toks |-> {id}, prev |-> 0, next |-> 0]), made |-> TRUE]

-------------------------------------------------------------------------------
(* Removal *)

\* merge_pages: two neighbours whose tokens fit on one; the lower page goes.
Fit(L, o, b1, b2) ==
  /\ b1 < b2 /\ {Page(o, b1), Page(o, b2)} \subseteq DOMAIN L.obj
  /\ L.obj[Page(o, b1)].next = b2 /\ L.obj[Page(o, b2)].prev = b1
  /\ Cardinality(L.obj[Page(o, b1)].toks) + Cardinality(L.obj[Page(o, b2)].toks) <= PAGE_MAX

Merged(L, o, b1, b2) ==
  LET low == L.obj[Page(o, b1)]
      grown == [L EXCEPT !.obj[Page(o, b2)] = [@ EXCEPT !.toks = @ \cup low.toks, !.prev = low.prev]] IN
  Drop(Linked(grown, o, low.prev, "next", b2), Page(o, b1))

\* An emptied page goes, the last one too: its neighbours are linked past it.
Unchained(L, o, b) ==
  LET page == L.obj[Page(o, b)] IN
  Linked(Linked(Drop(L, Page(o, b)), o, page.prev, "next", page.next), o, page.next, "prev", page.prev)

Joined(cut, o, b1, b2) ==
  IF Fit(cut.l, o, b1, b2) THEN [l |-> Merged(cut.l, o, b1, b2), gone |-> cut.gone + 1] ELSE cut

\* A page that lost a token goes if it is empty, or takes in the one before, then goes with the one after.
Tidied(L, o, b, page) ==
  IF page.toks = {} THEN [l |-> Unchained(L, o, b), gone |-> 1]
  ELSE Joined(Joined([l |-> L, gone |-> 0], o, page.prev, b), o, b, page.next)

RemoveFrom(L, o, b, id) ==
  LET cut == [L EXCEPT !.obj[Page(o, b)].toks = @ \ {id}] IN Tidied(cut, o, b, cut.obj[Page(o, b)])

\* page_remove: gone is the number of pages there are less.
PageRemove(L, o, id) == RemoveFrom(L, o, CHOOSE b \in Where(L, o, id) : TRUE, id)

-------------------------------------------------------------------------------
(* LedgerStateFix of an account's pages *)

\* repair_nftoken_directory_links: the pages are linked in the order of their bounds, and the
\* highest becomes the last page.
Repaired(L, o) ==
  LET bs == Bounds(L, o)
      place(b) == IF b = HighestOf(bs) THEN LAST ELSE b
      below(b) == {c \in bs : c < b}
      above(b) == {c \in bs : c > b}
      page(b) == [toks |-> L.obj[Page(o, b)].toks,
                  prev |-> IF below(b) = {} THEN 0 ELSE HighestOf(below(b)),
                  next |-> IF above(b) = {} THEN 0 ELSE place(LowestOf(above(b)))]
      keys == {Page(o, place(b)) : b \in bs}
      rest == DOMAIN L.obj \ {Page(o, b) : b \in bs} IN
  [L EXCEPT !.obj = [k \in rest \cup keys |->
     IF k \in rest THEN L.obj[k] ELSE page(IF k[3] = LAST THEN HighestOf(bs) ELSE k[3])]]

StateFixPre(L, t) == Verdict(FALSE, ~HasRoot(L, t.owner))

UnlessSame(L, after) == Unless(after = L, L, after)
StateFixDo(L, t) == IF Bounds(L, t.owner) = {} THEN Claimed(L) ELSE UnlessSame(L, Repaired(L, t.owner))
===============================================================================
