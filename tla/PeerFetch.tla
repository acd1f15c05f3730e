------------------------------- MODULE PeerFetch -------------------------------
(***************************************************************************)
(* The driver that fetches ledgers from peers (peer_fetch.rs).  One task   *)
(* takes an event or a tick of its clock, then starts what waits, ends     *)
(* what is whole or late, and asks peers for what is missing; nothing can  *)
(* come between, so each pass is one step.  Peers answer any request at    *)
(* any time, in part, twice or never, and the dishonest ones wrongly.      *)
(*                                                                         *)
(* A node's bytes are right (they hash to what the parent names) or not.   *)
(***************************************************************************)
EXTENDS Integers, Sequences, FiniteSets, SequencesExt, Passes

CONSTANTS
  FetchPeers,   \* addresses: integers, whose order breaks ties
  Honest,       \* the peers that answer rightly when they answer
  FetchJobs,    \* what may be wanted
  KindOf,       \* a job's kind: "compare", "ledger", "header" or "state"
  LedgerOf,     \* the ledger hash a job asks by
  SeqIsRight,   \* the jobs whose hash is of the sequence asked for
  Tree,         \* a ledger's positions (its transaction tree's, or the state's)
  Above,        \* the positions above a position
  NoPeer,
  PEER_GAP, REPLY_TIMEOUT, LEDGER_DEADLINE, HEADER_DEADLINE, MISSES_TO_BENCH,
  BENCH, QUEUE_CAP, MAX_ACTIVE,
  Leavers,      \* the peers that may disconnect
  Blocked,      \* the peers whose connection may be unable to take a frame
  MaxLate,      \* no answer comes later than this after its request
  MaxIdle,      \* the clock runs past this only while jobs wait
  MaxConns      \* connections a peer makes

\* Peers and jobs are told apart from nothing else; a ledger's positions are a tree, whose order
\* Above is; a job is of a known kind and asks for a known ledger.
ASSUME FetchConstants ==
  /\ FetchPeers \subseteq Nat /\ NoPeer \notin FetchPeers
  /\ KindOf \in [FetchJobs -> {"compare", "ledger", "header", "state"}]
  /\ LedgerOf \in [FetchJobs -> DOMAIN Tree]
  /\ \A l \in DOMAIN Tree : \A z \in Tree[l] :
       Above[z] \subseteq Tree[l] /\ \A y \in Above[z] : Above[y] \subseteq Above[z]
  /\ {PEER_GAP, REPLY_TIMEOUT, LEDGER_DEADLINE, HEADER_DEADLINE, MISSES_TO_BENCH, BENCH, QUEUE_CAP,
      MAX_ACTIVE, MaxLate, MaxIdle, MaxConns} \subseteq Nat

VARIABLES
  clock,        \* whole units of time
  pacer,        \* connected peers: when last asked (0: never), misses, benched until
  fetch_queue,  \* jobs not started
  active,       \* jobs in progress, in order
  result,       \* what each job's waiter was told
  requests,     \* the frames given to connections that may still be answered
  conns         \* connections each peer has made

fetch_vars == <<clock, pacer, fetch_queue, active, result, requests, conns>>

-----------------------------------------------------------------------------
(* One fetch: the header, then the tree below its root. *)

FreshFetch == [header |-> FALSE, got |-> {}]

Positions(f) == {n.at : n \in f.got}

\* TxTreeFetch::wanted: the positions whose parents are in.
Wanted(j, f) == {p \in Tree[LedgerOf[j]] \ Positions(f) : Above[p] \subseteq Positions(f)}

\* Mutant: a node's hash is not compared with the one its parent names.
TakenUnproven(j, f, nodes) ==
  {n \in nodes : /\ n.at \in Tree[LedgerOf[j]] \ Positions(f)
                 /\ Above[n.at] \subseteq Positions(f) \union {m.at : m \in nodes}}

\* A node is taken when all above it are and it is the one its parent names.
Taken(j, f, nodes) ==
  LET sound == {n \in nodes : n.right} IN
  {n \in sound : /\ n.at \in Tree[LedgerOf[j]] \ Positions(f)
                 /\ Above[n.at] \subseteq Positions(f) \union {m.at : m \in sound}}

Take(j, f, nodes) == [header |-> f.header, got |-> f.got \union Taken(j, f, nodes)]

Refused(j, f, nodes) == {n \in nodes : ~n.right /\ n.at \in Wanted(j, Take(j, f, nodes))}

WholeTree(j, f) == Positions(f) = Tree[LedgerOf[j]]

JobIsDone(j, f) ==
  CASE KindOf[j] = "header" -> f.header
    [] KindOf[j] = "state"  -> WholeTree(j, f)
    [] OTHER                -> f.header /\ WholeTree(j, f)

\* A reply to a fetch: the fetch after it, and the Step.
OnData(j, f, d) ==
  LET Outcome(g, step) == [fetch |-> g, step |-> step]
      Progress(g) == Outcome(g, IF JobIsDone(j, g) THEN "done" ELSE "progress")
      state == KindOf[j] = "state" IN
  IF d.hash # LedgerOf[j] \/ (state /\ d.type # "as") THEN Outcome(f, "ignored")
  ELSE IF d.error THEN Outcome(f, "peer_error")
  ELSE IF state
       THEN LET g == Take(j, f, d.nodes) IN
            IF ~JobIsDone(j, g) /\ Refused(j, f, d.nodes) # {} THEN Outcome(g, "refused") ELSE Progress(g)
  ELSE IF d.type = "base" /\ ~f.header
       THEN IF d.header THEN Progress(Take(j, [header |-> TRUE, got |-> f.got], d.nodes))
            ELSE Outcome(f, "bad_header")
  ELSE IF d.type = "tx" /\ f.header THEN Progress(Take(j, f, d.nodes))
  ELSE Outcome(f, "ignored")

-----------------------------------------------------------------------------
(* The pacer. *)

Rested == [last |-> 0, misses |-> 0, benched |-> 0]

\* Pacer::pick's candidates: not benched, not asked within the gap, and not
\* the one to avoid while there is another.
Candidates(now, pc, avoid) ==
  LET ready == {p \in DOMAIN pc : /\ now >= pc[p].benched
                                  /\ pc[p].last = 0 \/ now - pc[p].last >= PEER_GAP} IN
  IF Cardinality(ready) > 1 THEN ready \ {avoid} ELSE ready

Pick(cands, pc) ==
  CHOOSE p \in cands : \A q \in cands : \/ pc[p].last < pc[q].last
                                        \/ pc[p].last = pc[q].last /\ p <= q

Asked(now, pc, p) == [pc EXCEPT ![p] = [last |-> now, misses |-> @.misses, benched |-> 0]]

Answered(pc, p) ==
  IF p \in DOMAIN pc THEN [pc EXCEPT ![p] = [last |-> @.last, misses |-> 0, benched |-> @.benched]] ELSE pc

Missed(now, pc, p, strikes) ==
  IF p \notin DOMAIN pc THEN pc
  ELSE IF pc[p].misses + strikes >= MISSES_TO_BENCH
       THEN [pc EXCEPT ![p] = [last |-> @.last, misses |-> 0, benched |-> now + BENCH]]
       ELSE [pc EXCEPT ![p] = [last |-> @.last, misses |-> @.misses + strikes, benched |-> @.benched]]

-----------------------------------------------------------------------------
(* The driver's loops.  Each carries a record of what it changes.          *)

Awaited(j) == KindOf[j] # "compare"

Judged(pc, d, step) ==
  CASE step \in {"refused", "bad_header"} -> Missed(clock, pc, d.from, MISSES_TO_BENCH)
    [] step = "peer_error"                -> Missed(clock, pc, d.from, 1)
    [] step = "ignored"                   -> pc
    [] OTHER                              -> Answered(pc, d.from)

\* A running fetch takes the reply: the peer is judged by it, and the job asks again
\* only when the reply came from the peer it last asked.
OfferOne(d, v, i) ==
  LET a == v.active[i]
      o == OnData(a.job, a.fetch, d)
      asked == IF o.step # "ignored" /\ a.asked = d.from THEN NoPeer ELSE a.asked IN
  [pacer  |-> Judged(v.pacer, d, o.step),
   active |-> [v.active EXCEPT ![i] = [job |-> a.job, fetch |-> o.fetch, started |-> a.started,
                                       asked |-> asked, at |-> a.at, used |-> a.used]]]

OfferTo(d) ==
  LET Step(v, i) == OfferOne(d, v, i) IN
  Repeat(Step, [pacer |-> pacer, active |-> active], Len(active))

Compares(q) == {i \in DOMAIN q : ~Awaited(q[i])}

\* A job joins the queue; a compare pushes out the oldest beyond the cap.
Enqueue(j) ==
  LET q == Append(fetch_queue, j)
      told == [result EXCEPT ![j] = "wanted"]
      first == Min(Compares(q)) IN
  IF ~Awaited(j) /\ Cardinality(Compares(q)) > QUEUE_CAP
  THEN [queue |-> RemoveAt(q, first), told |-> [told EXCEPT ![q[first]] = "dropped"]]
  ELSE [queue |-> q, told |-> told]

Started(now, j) == [job |-> j, fetch |-> FreshFetch, started |-> now, asked |-> NoPeer, at |-> 0, used |-> <<>>]

\* Awaited jobs up to MAX_ACTIVE at once, compares one at a time.
StartOne(now, q, v, i) ==
  IF /\ Len(v.active) < MAX_ACTIVE
     /\ Awaited(q[i]) \/ \A k \in DOMAIN v.active : Awaited(v.active[k].job)
  THEN [queue |-> v.queue, active |-> Append(v.active, Started(now, q[i]))]
  ELSE [queue |-> Append(v.queue, q[i]), active |-> v.active]

Start(now, q, act) ==
  LET Step(v, i) == StartOne(now, q, v, i) IN
  Repeat(Step, [queue |-> <<>>, active |-> act], Len(q))

Deadline(j) == IF KindOf[j] = "header" THEN HEADER_DEADLINE ELSE LEDGER_DEADLINE

\* The end of a job, whole or late.
Ends(now, a) == JobIsDone(a.job, a.fetch) \/ now - a.started > Deadline(a.job)

Verdict(a) ==
  IF ~JobIsDone(a.job, a.fetch) THEN "late"
  ELSE IF KindOf[a.job] \in {"compare", "ledger"} /\ a.job \notin SeqIsRight THEN "wrong_seq"
  ELSE "ok"

FinishOne(now, act, v, i) ==
  IF Ends(now, act[i])
  THEN [active |-> v.active, told |-> [v.told EXCEPT ![act[i].job] = Verdict(act[i])]]
  ELSE [active |-> Append(v.active, act[i]), told |-> v.told]

Finish(now, act, told) ==
  LET Step(v, i) == FinishOne(now, act, v, i) IN
  Repeat(Step, [active |-> <<>>, told |-> told], Len(act))

\* Active::next_request.
RequestOf(j, f) ==
  LET Request(type, ids) == [hash |-> LedgerOf[j], type |-> type, ids |-> ids] IN
  IF KindOf[j] = "state" THEN Request("as", Wanted(j, f))
  ELSE IF ~f.header THEN Request("base", {})
  ELSE Request("tx", Wanted(j, f))

\* Each running job has at most one request out; one without an answer goes to
\* another peer.  "full" are the connections that take no frame now, "cs" their numbers.
AskOne(now, cs, full, v, i) ==
  LET a == v.active[i]
      pc == IF a.asked # NoPeer THEN Missed(now, v.pacer, a.asked, 1) ELSE v.pacer
      cands == Candidates(now, pc, IF a.used = <<>> THEN NoPeer ELSE Last(a.used))
      p == Pick(cands, pc)
      With(asked, at, used) ==
        [v.active EXCEPT ![i] = [job |-> a.job, fetch |-> a.fetch, started |-> a.started,
                                 asked |-> asked, at |-> at, used |-> used]] IN
  IF a.asked # NoPeer /\ now - a.at < REPLY_TIMEOUT THEN v
  ELSE IF cands = {} THEN [pacer |-> pc, active |-> With(NoPeer, a.at, a.used), sent |-> v.sent]
  ELSE IF p \in full
       THEN [pacer |-> Missed(now, Asked(now, pc, p), p, 1), active |-> With(NoPeer, a.at, a.used),
             sent |-> v.sent]
  ELSE [pacer  |-> Asked(now, pc, p),
        active |-> With(p, now, IF \E k \in DOMAIN a.used : a.used[k] = p THEN a.used ELSE Append(a.used, p)),
        sent   |-> v.sent \union {[to |-> p, conn |-> cs[p], at |-> now, req |-> RequestOf(a.job, a.fetch)]}]

Ask(now, pc, act, cs, full) ==
  LET Step(v, i) == AskOne(now, cs, full, v, i) IN
  Repeat(Step, [pacer |-> pc, active |-> act, sent |-> {}], Len(act))

\* What every turn of the driver does after its event, from what the event left.
Pass(now, pc, q, act, told, cs) ==
  \E begun \in {Start(now, q, act)} :
  \E left \in {Finish(now, begun.active, told)}, full \in {{}, Blocked} :
  \E asks \in {Ask(now, pc, left.active, cs, full)} :
    /\ clock' = now
    /\ pacer' = asks.pacer
    /\ fetch_queue' = begun.queue
    /\ active' = asks.active
    /\ result' = left.told
    /\ requests' = {r \in requests : now - r.at <= MaxLate} \union asks.sent
    /\ conns' = cs

-----------------------------------------------------------------------------
FetchInit ==
  /\ clock = 1
  /\ pacer = [p \in {} |-> Rested]
  /\ fetch_queue = <<>>
  /\ active = <<>>
  /\ result = [j \in FetchJobs |-> "none"]
  /\ requests = {}
  /\ conns = [p \in FetchPeers |-> 0]

Waiting == fetch_queue # <<>> \/ active # <<>>

\* The clock's tick, each time a whole unit later.
FetchTick ==
  /\ Waiting \/ clock < MaxIdle
  /\ Pass(clock + 1, pacer, fetch_queue, active, result, conns)

\* Event::Peer: a peer connects, and a peer has gone.
Register(p) ==
  /\ p \notin DOMAIN pacer
  /\ conns[p] < MaxConns
  /\ Pass(clock, [q \in DOMAIN pacer \union {p} |-> IF q = p THEN Rested ELSE pacer[q]],
          fetch_queue, active, result, [conns EXCEPT ![p] = @ + 1])

Unregister(p) ==
  /\ p \in DOMAIN pacer \intersect Leavers
  /\ Pass(clock, [q \in DOMAIN pacer \ {p} |-> pacer[q]], fetch_queue, active, result, conns)

\* Event::Want and Event::Job.
Want(j) ==
  /\ result[j] = "none"
  /\ \E e \in {Enqueue(j)} : Pass(clock, pacer, e.queue, active, e.told, conns)

\* What a peer may answer to a request: an honest one the nodes asked for and some
\* or all below them (the root, with the header), any other what it likes.
Replies(r) ==
  LET tree == Tree[r.req.hash]
      asked == IF r.req.type = "base" THEN {p \in tree : Above[p] = {}} ELSE r.req.ids
      below == {p \in tree : p \in asked \/ Above[p] \intersect asked # {}}
      Reply(error, header, ps, right) ==
        [from |-> r.to, hash |-> r.req.hash, type |-> r.req.type, error |-> error, header |-> header,
         nodes |-> {[at |-> p, right |-> right] : p \in ps}] IN
  IF r.to \in Honest THEN {Reply(FALSE, TRUE, ps, TRUE) : ps \in {asked, below}}
  ELSE {Reply(TRUE, TRUE, {}, TRUE), Reply(FALSE, FALSE, {}, FALSE), Reply(FALSE, TRUE, asked, FALSE)}

Data(r) ==
  \E d \in Replies(r) : \E o \in {OfferTo(d)} : Pass(clock, o.pacer, fetch_queue, o.active, result, conns)

FetchNext ==
  \/ FetchTick
  \/ \E p \in FetchPeers : Register(p) \/ Unregister(p)
  \/ \E j \in FetchJobs : Want(j)
  \/ \E r \in requests : Data(r)

FetchSpec == FetchInit /\ [][FetchNext]_fetch_vars

-----------------------------------------------------------------------------
(* Properties *)

Proven(j, f) ==
  /\ \A n \in f.got : n.right /\ Above[n.at] \subseteq Positions(f)
  /\ f.got # {} /\ KindOf[j] # "state" => f.header

\* Whatever peers send, late, twice or wrong, what a fetch holds is of its ledger, node
\* by node back to the hash (peer_fetch.rs LedgerFetch, shamap/wire.rs).
FetchedIsProven == \A i \in DOMAIN active : Proven(active[i].job, active[i].fetch)

\* No connection is asked twice within the gap, though four jobs choose peers in one
\* pass and replies come late: the gap is what keeps us connected (peer_fetch.rs PEER_GAP).
NeverPestered ==
  \A r, s \in requests : r # s /\ r.to = s.to /\ r.conn = s.conn =>
    r.at - s.at >= PEER_GAP \/ s.at - r.at >= PEER_GAP

\* A job somebody waits for is queued or in progress, once, until it is answered, and is
\* never dropped for another (peer_fetch.rs QUEUE_CAP, MAX_ACTIVE).
AwaitedNeverDropped ==
  \A j \in FetchJobs :
    /\ Awaited(j) => result[j] # "dropped"
    /\ (result[j] = "wanted") = ((\E i \in DOMAIN active : active[i].job = j)
                                 # (\E i \in DOMAIN fetch_queue : fetch_queue[i] = j))

\* Every job wanted ends, whatever peers do: the driver's clock goes on.
EveryJobEnds == []<>(\A j \in FetchJobs : result[j] # "wanted")

\* The driver's three promises together: proven results, a quiet caller, no awaited job lost
\* (peer_fetch.rs).
FetchSound == FetchedIsProven /\ NeverPestered /\ AwaitedNeverDropped
===============================================================================
