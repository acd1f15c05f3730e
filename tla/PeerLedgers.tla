------------------------------ MODULE PeerLedgers ------------------------------
(***************************************************************************)
(* Which hash each ledger is fetched by, when ledgers come from peers      *)
(* (peer_ledgers.rs).  A ledger that reached no quorum here takes its hash *)
(* from a later one that did, by the parent hashes of the headers between. *)
(* The loop (ws_sync.rs) asks ledger by ledger up to the newest quorum.    *)
(*                                                                         *)
(* Headers come proven to the hash they were asked by, or not at all.      *)
(***************************************************************************)
EXTENDS Integers, FiniteSets

CONSTANTS
  LastLedger,   \* ledgers 1 .. LastLedger close
  ChainHash,    \* the network's hash of each ledger
  TallyKeep,    \* sequences the tally holds
  CHAIN_KEEP,   \* hashes kept from walks
  NoWalk

ASSUME LedgerConstants ==
  /\ LastLedger \in Nat /\ TallyKeep \in Nat \ {0} /\ CHAIN_KEEP \in Nat
  /\ \A s, t \in 1 .. LastLedger : ChainHash[s] = ChainHash[t] => s = t

VARIABLES
  quorums,      \* ledgers known to have reached quorum here, still held
  known,        \* hashes learned by walking, by ledger
  walk,         \* the walk in progress: its end, the ledger reached, that one's hash
  hashes_given, \* the hash each ledger asked for was answered with
  headers_read  \* history: how often the header of each ledger was brought, to 2

ledger_vars == <<quorums, known, walk, hashes_given, headers_read>>

Closed == 1 .. LastLedger

\* The header with a hash: its sequence, and its parent's hash (0 before the first).
HeaderOf(h) ==
  LET s == CHOOSE q \in Closed : ChainHash[q] = h IN
  [seq |-> s, parent |-> IF s = 1 THEN 0 ELSE ChainHash[s - 1]]

LeastOf(S) == CHOOSE s \in S : \A t \in S : s <= t
GreatestOf(S) == CHOOSE s \in S : \A t \in S : t <= s

\* Mutant: the newest entries go.
TrimmedAbove(f) ==
  [s \in {q \in DOMAIN f : Cardinality({t \in DOMAIN f : t <= q}) <= CHAIN_KEEP} |-> f[s]]

\* The oldest entries go while there are more than are kept.
Trimmed(f) ==
  [s \in {q \in DOMAIN f : Cardinality({t \in DOMAIN f : t >= q}) <= CHAIN_KEEP} |-> f[s]]

\* A map with x taken to y.
Mapped(f, x, y) == [z \in DOMAIN f \union {x} |-> IF z = x THEN y ELSE f[z]]

\* Mutant: the parent's hash is noted for the header's own ledger.
LearnedOffByOne(s, h) == Mapped(known, s, HeaderOf(h).parent)

\* With what the header of ledger s adds: its parent's hash, for the ledger below.
Learned(s, h) == Mapped(known, s - 1, HeaderOf(h).parent)

PeerLedgersInit ==
  /\ quorums = {}
  /\ known = [s \in {} |-> 0]
  /\ walk = NoWalk
  /\ hashes_given = [s \in {} |-> 0]
  /\ headers_read = [s \in Closed |-> 0]

\* own_validated.rs: a ledger reaches quorum, and the tally lets its oldest go.
QuorumAt(s) ==
  /\ s \notin quorums
  /\ quorums # {} => s > GreatestOf(quorums) - TallyKeep
  /\ quorums' = {q \in quorums \union {s} : q > GreatestOf(quorums \union {s}) - TallyKeep}
  /\ UNCHANGED <<known, walk, hashes_given, headers_read>>

NextAsked == IF DOMAIN hashes_given = {} THEN 1 ELSE GreatestOf(DOMAIN hashes_given) + 1

Give(s, h) == hashes_given' = Mapped(hashes_given, s, h)

\* Chain::hash_for: the quorum's hash, a hash walked past before, or a walk from the
\* nearest ledger above that is known either way.  A held ledger is asked for again.
AskHash(s) ==
  LET above == {q \in quorums : q >= s}
      cached == {q \in DOMAIN known : q >= s}
      from == LeastOf(above \union cached) IN
  /\ walk = NoWalk
  /\ above # {}
  /\ \/ s \in above /\ Give(s, ChainHash[s]) /\ UNCHANGED walk
     \/ s \in cached \ above /\ Give(s, known[s]) /\ UNCHANGED walk
     \/ /\ s \notin above \union cached
        /\ walk' = [to |-> s, at |-> from, hash |-> IF from \in above THEN ChainHash[from] ELSE known[from]]
        /\ UNCHANGED hashes_given
  /\ UNCHANGED <<quorums, known, headers_read>>

\* A header comes: one ledger down, and the end when that is the one asked for.
HeaderComes ==
  LET s == walk.at
      h == HeaderOf(walk.hash)
      new == Learned(s, walk.hash) IN
  /\ walk # NoWalk
  /\ h.seq = s
  /\ headers_read' = [headers_read EXCEPT ![s] = IF @ = 2 THEN 2 ELSE @ + 1]
  /\ \/ /\ s - 1 = walk.to
        /\ known' = Trimmed(new)
        /\ walk' = NoWalk
        /\ Give(walk.to, h.parent)
     \/ /\ s - 1 > walk.to
        /\ known' = new
        /\ walk' = [to |-> walk.to, at |-> s - 1, hash |-> h.parent]
        /\ UNCHANGED hashes_given
  /\ UNCHANGED quorums

\* Mutant: a walk that fails forgets what it learned.
HeaderFailsForgets ==
  /\ walk # NoWalk
  /\ walk' = NoWalk
  /\ known' = [s \in {} |-> 0]
  /\ UNCHANGED <<quorums, hashes_given, headers_read>>

\* No peer had it in time, or it is not the ledger's: what the walk learned stays, and the
\* ledger is held.
HeaderFails ==
  /\ walk # NoWalk
  /\ walk' = NoWalk
  /\ UNCHANGED <<quorums, known, hashes_given, headers_read>>

AskNext == AskHash(NextAsked)

PeerLedgersNext ==
  \/ AskNext
  \/ NextAsked > 1 /\ AskHash(NextAsked - 1)
  \/ HeaderComes
  \/ HeaderFails
  \/ \E s \in Closed : QuorumAt(s)

PeerLedgersSpec == PeerLedgersInit /\ [][PeerLedgersNext]_ledger_vars

\* A walk's request ends, by a header or its deadline; the loop does get past a ledger it
\* holds and asks for the next; and headers asked for on the way to it keep coming.
NextHeaderComes == walk # NoWalk /\ walk.to = NextAsked /\ HeaderComes

PeerLedgersFairness ==
  /\ WF_ledger_vars(HeaderComes \/ HeaderFails)
  /\ SF_ledger_vars(AskNext) /\ SF_ledger_vars(NextHeaderComes)

-----------------------------------------------------------------------------
(* Properties *)

\* Every hash a ledger is fetched by, and every hash kept for later walks, is the
\* network's for that ledger, however walks fail and quorums come and go
\* (peer_ledgers.rs Chain::hash_for).
HashesAreChain ==
  /\ \A s \in DOMAIN hashes_given : hashes_given[s] = ChainHash[s]
  /\ \A s \in DOMAIN known : known[s] = ChainHash[s]
  /\ walk # NoWalk => walk.hash = ChainHash[walk.at] /\ walk.to < walk.at

\* A catch-up reads a header again only if it is longer than the hashes kept: what a
\* walk learned is still there for the ledgers after (peer_ledgers.rs CHAIN_KEEP).
ReadsAgainOnlyWhenFar ==
  [][\A s \in Closed : headers_read'[s] > 1 /\ headers_read'[s] # headers_read[s]
       => GreatestOf(quorums) - walk.to > CHAIN_KEEP]_ledger_vars

\* Every ledger up to a quorum gets its hash in the end, though its own validations never
\* reached one and headers fail again and again.
EveryLedgerNamed == []<>(\A s \in Closed : (\E q \in quorums : q >= s) => s \in DOMAIN hashes_given)

\* The walk's two promises together: right hashes, and none learned twice (peer_ledgers.rs Chain).
WalksRight == []HashesAreChain /\ ReadsAgainOnlyWhenFar
===============================================================================
