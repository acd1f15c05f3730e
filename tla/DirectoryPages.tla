----------------------------- MODULE DirectoryPages -----------------------------
(***************************************************************************)
(* The pages of one directory of the ledger (ledger/directory.rs): an       *)
(* owner's, or a book's at one quality.  The root is page 0; the others are  *)
(* linked from it in a ring of which the root's previous link names the      *)
(* last.  An object keeps the number of the page it was put on, and its      *)
(* removal goes to that page.  A link the code leaves out is 0 here.         *)
(***************************************************************************)
EXTENDS Naturals, Sequences, FiniteSets, Functions, SequencesExt

CONSTANTS
  Objects,     \* keys of ledger objects, in the order of the keys
  DIR_MAX,     \* the entries a page takes; 32 in the code
  MaxPage,     \* bound: the highest page number
  NoHint       \* an object removed by a caller that does not know its page

\* The objects are numbered in the order of their keys; a page takes an entry.
ASSUME ObjectsAssumption == Objects \subseteq Nat
ASSUME DirMaxAssumption == DIR_MAX \in Nat \ {0}
ASSUME NoHintAssumption == NoHint \notin Nat

VARIABLES
  dir,         \* the pages there are: page number -> [entries, next, prev]
  at,          \* objects in the directory -> the page number each one recorded
  added,       \* history: the objects in the directory, in the order they came
  book,        \* a book's page keeps the order of arrival, an owner's is sorted
  old          \* history: the empty last page a ledger of old was left with; 0 for none

dir_vars == <<dir, at, added, book, old>>

DirPage(entries, next, prev) == [entries |-> entries, next |-> next, prev |-> prev]

Pages == DOMAIN dir
Put(D, n, p) == [i \in DOMAIN D \cup {n} |-> IF i = n THEN p ELSE D[i]]
Erase(D, n) == Restrict(D, DOMAIN D \ {n})
Bare(D, n) == n \in DOMAIN D => D[n].entries = <<>>
On(D, n, o) == n \in DOMAIN D /\ o \in Range(D[n].entries)

-----------------------------------------------------------------------------
(* dir_insert_with *)

\* The entries of a page in the order of their keys.
InKeyOrder(entries) ==
  CHOOSE s \in [DOMAIN entries -> Range(entries)] :
    Range(s) = Range(entries) /\ \A i, j \in DOMAIN entries : i < j => s[i] < s[j]

\* An owner's page is sorted as a whole by every entry that comes, a book's never.
Sorted(entries, o) == IF book THEN Append(entries, o) ELSE InKeyOrder(Append(entries, o))

\* The page an entry goes to: the last one, or a new one after it when that is full.
LandsOn(D) ==
  IF 0 \notin DOMAIN D THEN 0
  ELSE IF Len(D[D[0].prev].entries) < DIR_MAX THEN D[0].prev ELSE D[0].prev + 1

\* The last page and the root name the page that comes after it.
LinkedTo(D, n) ==
  [i \in DOMAIN D |-> DirPage(D[i].entries, IF i = D[0].prev THEN n ELSE D[i].next, IF i = 0 THEN n ELSE D[i].prev)]

Inserted(D, o) ==
  LET n == LandsOn(D) IN
  IF 0 \notin DOMAIN D THEN Put(D, 0, DirPage(<<o>>, 0, 0))
  ELSE IF n = D[0].prev THEN Put(D, n, DirPage(Sorted(D[n].entries, o), D[n].next, D[n].prev))
  ELSE Put(LinkedTo(D, n), n, DirPage(<<o>>, 0, D[0].prev))

-----------------------------------------------------------------------------
(* try_remove_at *)

\* A page that keeps an entry is written back; an emptied root first lets go of the empty last
\* page of old code, and goes itself when no page is linked to it and it is not to be kept.
RootLetsGo(D, r) == r.entries = <<>> /\ r.next = r.prev /\ r.next # 0 /\ r.next \in DOMAIN D /\ Bare(D, r.next)
Alone(r) == r.entries = <<>> /\ r.next = 0 /\ r.prev = 0

RootEmptied(D, r, keep) ==
  IF RootLetsGo(D, r)
  THEN IF keep THEN Put(Erase(D, r.next), 0, DirPage(<<>>, 0, 0)) ELSE Erase(Erase(D, r.next), 0)
  ELSE IF Alone(r) /\ ~keep THEN Erase(D, 0) ELSE Put(D, 0, r)

UnlinkedBetween(D, n) ==
  [i \in DOMAIN D \ {n} |->
     DirPage(D[i].entries,
             IF i = D[n].prev THEN D[n].next ELSE D[i].next,
             IF i = D[n].next /\ i # 0 THEN D[n].prev ELSE D[i].prev)]

\* The neighbours of a page that goes, and the root's link back when it was the last.
Unlinked(D, n) ==
  [i \in DOMAIN D \ {n} |->
     DirPage(D[i].entries,
             IF i = D[n].prev THEN D[n].next ELSE D[i].next,
             IF (i = D[n].next /\ i # 0) \/ (i = 0 /\ D[0].prev = n) THEN D[n].prev ELSE D[i].prev)]

\* The page after the one that went, when it is the last and empty, goes as well.
LastLetsGo(D, next) == next # 0 /\ next \in DOMAIN D /\ D[next].next = 0 /\ Bare(D, next)
ThenLast(D, prev, next) ==
  IF ~LastLetsGo(D, next) THEN D
  ELSE [i \in DOMAIN D \ {next} |->
          DirPage(D[i].entries, IF i = prev THEN 0 ELSE D[i].next, IF i = 0 THEN prev ELSE D[i].prev)]

ThenRoot(D, keep) == IF Alone(D[0]) /\ ~keep THEN Erase(D, 0) ELSE D

PageEmptied(D, n, keep) == ThenRoot(ThenLast(Unlinked(D, n), D[n].prev, D[n].next), keep)

\* The entries that are not o; an object comes once, so it is on a page once.
Without(entries, o) == RemoveAt(entries, CHOOSE i \in DOMAIN entries : entries[i] = o)

RemovedAt(D, n, o, keep) ==
  LET p == DirPage(Without(D[n].entries, o), D[n].next, D[n].prev) IN
  IF n = 0 THEN RootEmptied(D, p, keep)
  ELSE IF p.entries # <<>> THEN Put(D, n, p)
  ELSE PageEmptied(D, n, keep)

\* The first pages met from the root along the links, as many as there are.
ChainOf(D) ==
  LET chain[i \in 1 .. Cardinality(DOMAIN D)] ==
        IF i = 1 THEN 0 ELSE IF D[chain[i - 1]].next \in DOMAIN D THEN D[chain[i - 1]].next ELSE 0
  IN chain

\* dir_remove: the page the object names, else the last, else the first along the chain with it.
FoundOn(D, hint, o) ==
  IF hint # NoHint /\ On(D, hint, o) THEN hint
  ELSE IF On(D, D[0].prev, o) THEN D[0].prev
  ELSE ChainOf(D)[CHOOSE i \in DOMAIN ChainOf(D) :
                  On(D, ChainOf(D)[i], o) /\ \A j \in 1 .. i - 1 : ~On(D, ChainOf(D)[j], o)]

\* empty_dir_delete: a directory whose root, and whose only other page, hold nothing.
EmptyDeleted(D) ==
  IF 0 \notin DOMAIN D \/ D[0].entries # <<>> THEN D
  ELSE IF D[0].next = D[0].prev /\ D[0].next # 0
       THEN IF D[0].next \in DOMAIN D /\ Bare(D, D[0].next) THEN Erase(Erase(D, D[0].next), 0) ELSE D
       ELSE IF D[0].next = 0 THEN Erase(D, 0) ELSE D

-----------------------------------------------------------------------------
\* No directory, or one of a ledger of old: its last page empty, one page or none between.
OldPages ==
  {<<>>,
   [n \in {0, 3} |-> IF n = 0 THEN DirPage(<<1>>, 3, 3) ELSE DirPage(<<>>, 0, 0)],
   [n \in {0, 2, 3} |-> IF n = 0 THEN DirPage(<<1>>, 2, 3) ELSE IF n = 2 THEN DirPage(<<2>>, 3, 0) ELSE DirPage(<<>>, 0, 2)]}

Held(D) == UNION {Range(D[n].entries) : n \in DOMAIN D}

DirInit ==
  /\ dir \in OldPages
  /\ at = [o \in Held(dir) |-> CHOOSE n \in DOMAIN dir : On(dir, n, o)]
  /\ added = [i \in 1 .. Cardinality(Held(dir)) |-> i]
  /\ book \in BOOLEAN
  /\ old = IF Pages = {} THEN 0 ELSE 3

\* The caller stores the page number on the object (OwnerNode, BookNode).
DirInsert(o) ==
  /\ o \notin DOMAIN at /\ LandsOn(dir) <= MaxPage
  /\ dir' = Inserted(dir, o)
  /\ at' = Put(at, o, LandsOn(dir))
  /\ added' = Append(added, o)
  /\ UNCHANGED <<book, old>>

\* Checks, oracles and tickets keep the root of the owner's directory, the rest do not.
DirRemove(o, hint, keep) ==
  /\ o \in DOMAIN at
  /\ dir' = RemovedAt(dir, FoundOn(dir, hint, o), o, keep)
  /\ at' = Erase(at, o)
  /\ added' = Without(added, o)
  /\ UNCHANGED <<book, old>>

\* AccountDelete, once all the account owned is gone.
EmptyDirDelete ==
  /\ DOMAIN at = {}
  /\ dir' = EmptyDeleted(dir)
  /\ UNCHANGED <<at, added, book, old>>

DirRemoves == \E o \in DOMAIN at, known, keep \in BOOLEAN : DirRemove(o, IF known THEN at[o] ELSE NoHint, keep)

DirNext ==
  \/ \E o \in Objects : DirInsert(o)
  \/ DirRemoves
  \/ EmptyDirDelete

DirSpec == DirInit /\ [][DirNext]_dir_vars

-----------------------------------------------------------------------------
(* Properties *)

\* Going from the root along the links leads to every page once and ends where the root's link
\* back points, and the way back is the same: a book's offers, and what an account's deletion
\* takes along, are found from the root.
Linked ==
  Pages # {} =>
    /\ ToSet(ChainOf(dir)) = Pages
    /\ Last(ChainOf(dir)) = dir[0].prev /\ dir[Last(ChainOf(dir))].next = 0
    /\ \A i \in 2 .. Len(ChainOf(dir)) : dir[ChainOf(dir)[i]].prev = ChainOf(dir)[i - 1]

\* An object is on the page whose number it recorded when it was put there, and on no other,
\* however many pages came and went since; nothing else is in the directory.
OnItsPage ==
  /\ Held(dir) = DOMAIN at
  /\ \A o \in DOMAIN at : {n \in Pages : On(dir, n, o)} = {at[o]}
  /\ \A n \in Pages : Len(dir[n].entries) = Cardinality(Range(dir[n].entries)) /\ Len(dir[n].entries) <= DIR_MAX

\* Met before, going along the pages from the root and through the entries of each.
MetBefore(o, p) ==
  \E i, j \in DOMAIN ChainOf(dir) :
    \E k \in DOMAIN dir[ChainOf(dir)[i]].entries, l \in DOMAIN dir[ChainOf(dir)[j]].entries :
      /\ dir[ChainOf(dir)[i]].entries[k] = o /\ dir[ChainOf(dir)[j]].entries[l] = p
      /\ i < j \/ (i = j /\ k < l)

\* A book is met in the order its offers came; an owner's page is in the order of the keys.
EntriesInOrder ==
  /\ ToSet(added) = Held(dir)
  /\ IF book THEN \A i, j \in DOMAIN added : i < j => MetBefore(added[i], added[j])
     ELSE \A n \in Pages : \A k, l \in DOMAIN dir[n].entries : k < l => dir[n].entries[k] < dir[n].entries[l]

\* No page but the root stands empty, except the one of old while it still follows another; and
\* a directory of which nothing is left has at most its root and that page.
NoEmptyPage ==
  /\ \A n \in Pages \ {0} : dir[n].entries = <<>> => n = old
  /\ DOMAIN at = {} => Pages \subseteq {0}

\* Linked, OnItsPage, EntriesInOrder and NoEmptyPage.
DirectoryOK == Linked /\ OnItsPage /\ EntriesInOrder /\ NoEmptyPage
===============================================================================
