-------------------------------- MODULE BulkSync --------------------------------
(***************************************************************************)
(* A start without a warm resume, from an RPC server: the whole state of   *)
(* one ledger downloaded by workers over key ranges (bulk_sync.rs), the     *)
(* markers a later start reads, the backfill of the ledgers since           *)
(* (incremental_sync.rs) and the hand-over to ws-sync (live_viewer.rs).     *)
(*                                                                         *)
(* The server may fail a request, leave entries out of a page, or not be    *)
(* reachable at all; a write of the store may fail, which is only logged;   *)
(* the process may be stopped and started again, over the store it left.    *)
(***************************************************************************)
EXTENDS Integers, FiniteSets, FiniteSetsExt

CONSTANTS
  NUM_WORKERS, Keys,
  Version(_, _),           \* of an entry, by key, in a ledger; 0 when the ledger has none
  LastKey(_),              \* the last key of a worker's range
  PageLimit,
  MAX_ERRORS, GIVE_UP,     \* failures in a row a worker, and the backfill, bear
  LastLedger, MaxBoots,
  ServerMayBeDown          \* at the start of the download

VARIABLES
  boot,          \* "off", "pulling", "building", "hashing", "filling", "filled", "ws", "idle"
  boots, pinned,
  cursor,        \* worker -> the marker: the last key it passed
  worker_errors,
  stopped,       \* workers that ended
  channel,       \* entries sent, not yet taken by the builder
  db,            \* key -> the version a download put in the store, or 0
  map_keys,      \* the pinned ledger's entries in the SHAMap built beside it
  verified,      \* status.verified
  dl_done,       \* the ledger named in dl_done.txt, or None
  sync_done,     \* the completion marker is there
  net_seq, fill, \* the backfill: next ledger, target, failures in a row
  applied,       \* ledgers whose changes are in the store
  ws_from,
  before,        \* history: keys the store held when the process started
  unwritten      \* history: entries whose write failed since

bulk_history == <<before, unwritten>>
bulk_vars == <<boot, boots, pinned, cursor, worker_errors, stopped, channel, db, map_keys,
               verified, dl_done, sync_done, net_seq, fill, applied, ws_from, bulk_history>>

BulkWorkers == 0 .. NUM_WORKERS - 1
Absent0 == -1
FirstKey(w) == IF w = 0 THEN 0 ELSE LastKey(w - 1)
LedgerKeys(s) == {k \in Keys : Version(k, s) # 0}

BulkInit ==
  /\ boot = "off" /\ boots = 0 /\ pinned = 0
  /\ cursor = [w \in BulkWorkers |-> 0] /\ worker_errors = [w \in BulkWorkers |-> 0] /\ stopped = BulkWorkers
  /\ channel = {} /\ db = [k \in Keys |-> 0] /\ map_keys = {} /\ verified = FALSE
  /\ dl_done = Absent0 /\ sync_done = FALSE
  /\ net_seq = 1 /\ fill = [next |-> 0, target |-> 0, errors |-> 0] /\ applied = {} /\ ws_from = Absent0
  /\ before = {} /\ unwritten = {}

\* A ledger closes on the network.
NetCloses ==
  /\ net_seq < LastLedger /\ net_seq' = net_seq + 1
  /\ UNCHANGED <<boot, boots, pinned, cursor, worker_errors, stopped, channel, db, map_keys,
                 verified, dl_done, sync_done, fill, applied, ws_from, bulk_history>>

\* The start: with the completion marker the tree is built from the store, else BulkSyncer::start
\* pins the validated ledger, which must be among those the server holds; when no server answers,
\* or it does not hold it, nothing is downloaded and the syncer is at once not running.  A download
\* goes over what the store has: nothing is wiped.
StartNode ==
  /\ boot = "off" /\ boots < MaxBoots
  /\ boots' = boots + 1 /\ before' = {k \in Keys : db[k] # 0} /\ unwritten' = {}
  /\ IF sync_done
     THEN boot' = "hashing" /\ UNCHANGED <<pinned, cursor, stopped>>
     ELSE \E held \in (IF ServerMayBeDown THEN BOOLEAN ELSE {TRUE}) :
            /\ pinned' = IF held THEN net_seq ELSE 0
            /\ boot' = IF held THEN "pulling" ELSE "built"
            /\ cursor' = [w \in BulkWorkers |-> FirstKey(w)]
            /\ stopped' = IF held THEN {} ELSE BulkWorkers
  /\ UNCHANGED <<worker_errors, channel, db, map_keys, verified, dl_done, sync_done, net_seq,
                 fill, applied, ws_from>>

-----------------------------------------------------------------------------
(* The download *)

\* The keys of the page after a marker.
Page(w) ==
  LET after == {k \in LedgerKeys(pinned) : k > cursor[w]} IN
  {k \in after : Cardinality({j \in after : j <= k}) <= PageLimit}

IsLast(w) == w = NUM_WORKERS - 1

\* Of a page, what is in the worker's range.
InRange(w, page) == {k \in page : IsLast(w) \/ k <= LastKey(w)}

\* A page: some entries may be left out by the server.  The worker ends past its range, or
\* when the server names no marker to go on from.
PullPage(w) ==
  /\ boot = "pulling" /\ w \notin stopped
  /\ \E page \in {Page(w)} :
       /\ \E left_out \in SUBSET InRange(w, page) :
            channel' = channel \union (InRange(w, page) \ left_out)
       /\ cursor' = [cursor EXCEPT ![w] = IF page = {} THEN @ ELSE Max(page)]
       /\ stopped' = IF InRange(w, page) # page \/ \A k \in LedgerKeys(pinned) : k <= cursor'[w]
                     THEN stopped \union {w} ELSE stopped
  /\ UNCHANGED <<boot, boots, pinned, worker_errors, db, map_keys, verified, dl_done, sync_done,
                 net_seq, fill, applied, ws_from, bulk_history>>

\* A request fails; failures are never reset, and more than MAX_ERRORS end the worker.
PullFails(w) ==
  /\ boot = "pulling" /\ w \notin stopped
  /\ worker_errors' = [worker_errors EXCEPT ![w] = @ + 1]
  /\ stopped' = IF worker_errors[w] + 1 > MAX_ERRORS THEN stopped \union {w} ELSE stopped
  /\ UNCHANGED <<boot, boots, pinned, cursor, channel, db, map_keys, verified, dl_done, sync_done,
                 net_seq, fill, applied, ws_from, bulk_history>>

\* The builder takes what was sent, into the tree, and into the store unless the batch's write
\* fails: an entry of another version is written over, none is deleted.
Build ==
  /\ boot = "pulling" /\ channel # {}
  /\ map_keys' = map_keys \union channel
  /\ \/ /\ db' = [k \in Keys |-> IF k \in channel THEN Version(k, pinned) ELSE db[k]]
        /\ UNCHANGED unwritten
     \/ unwritten' = unwritten \union channel /\ UNCHANGED db
  /\ channel' = {}
  /\ UNCHANGED <<boot, boots, pinned, cursor, worker_errors, stopped, verified, dl_done, sync_done,
                 net_seq, fill, applied, ws_from, before>>

\* Mutant: no account hash to compare with counts as a match.
RootMatchesLoosely(theirs) == theirs = "none" \/ map_keys = LedgerKeys(pinned)

\* verify_root_against_account_hash: an absent hash never matches.
RootMatches(theirs) == theirs # "none" /\ map_keys = LedgerKeys(pinned)

\* Mutant: a mismatch returns early, the syncer never marked as at rest.
FinishOnlyMatched ==
  /\ boot = "pulling" /\ stopped = BulkWorkers /\ channel = {} /\ map_keys = LedgerKeys(pinned)
  /\ verified' = TRUE /\ dl_done' = pinned /\ boot' = "built"
  /\ UNCHANGED <<boots, pinned, cursor, worker_errors, stopped, channel, db, map_keys, sync_done,
                 net_seq, fill, applied, ws_from, bulk_history>>

\* The last worker gone and the channel drained: the root is compared with the ledger's
\* account hash, and dl_done.txt written when it matches or could not be fetched.
FinishDownload ==
  /\ boot = "pulling" /\ stopped = BulkWorkers /\ channel = {}
  /\ \E theirs \in {"none", "hash"} :
       /\ verified' = RootMatches(theirs)
       /\ dl_done' = IF theirs = "none" \/ map_keys = LedgerKeys(pinned) THEN pinned ELSE dl_done
  /\ boot' = "built"
  /\ UNCHANGED <<boots, pinned, cursor, worker_errors, stopped, channel, db, map_keys, sync_done,
                 net_seq, fill, applied, ws_from, bulk_history>>

\* Mutant: the hand-over does not wait for the workers.
NotRunningLoosely == boot \in {"built", "pulling"}

\* BulkSyncer::is_running, negated.
NotRunning == boot = "built"

\* The start's task sees the syncer at rest: both markers are written, whatever it found, and
\* ws-sync starts from the pinned ledger.
HandOver ==
  /\ NotRunning
  /\ sync_done' = TRUE /\ dl_done' = pinned
  /\ boot' = "ws" /\ ws_from' = pinned /\ applied' = 0 .. pinned
  /\ UNCHANGED <<boots, pinned, cursor, worker_errors, stopped, channel, db, map_keys, verified,
                 net_seq, fill, bulk_history>>

-----------------------------------------------------------------------------
(* The backfill of a later start *)

\* The tree is built; dl_done.txt names the ledger to go on from.  Without one nothing more runs.
BeginBackfill ==
  /\ boot = "hashing"
  /\ pinned' = IF dl_done = Absent0 THEN 0 ELSE dl_done
  /\ boot' = IF pinned' = 0 THEN "idle" ELSE IF net_seq > pinned' THEN "filling" ELSE "filled"
  /\ fill' = [next |-> pinned' + 1, target |-> net_seq, errors |-> 0]
  /\ applied' = 0 .. pinned'
  /\ UNCHANGED <<boots, cursor, worker_errors, stopped, channel, db, map_keys, verified, dl_done,
                 sync_done, net_seq, ws_from, bulk_history>>

\* Mutant: a ledger that fails to fetch is passed over.
FillSkips ==
  /\ boot = "filling" /\ fill.next <= fill.target
  /\ fill' = [fill EXCEPT !.next = @ + 1]
  /\ applied' \in {applied, applied \union {fill.next}}
  /\ UNCHANGED <<boot, boots, pinned, cursor, worker_errors, stopped, channel, db, map_keys, verified,
                 dl_done, sync_done, net_seq, ws_from, bulk_history>>

\* sync_ledger_state of the next ledger: all its changes, in one batch, or none.
FillOne ==
  /\ boot = "filling" /\ fill.next <= fill.target
  /\ \/ applied' = applied \union {fill.next} /\ fill' = [fill EXCEPT !.next = @ + 1, !.errors = 0]
     \/ UNCHANGED applied /\ fill.errors <= GIVE_UP /\ fill' = [fill EXCEPT !.errors = @ + 1]
  /\ UNCHANGED <<boot, boots, pinned, cursor, worker_errors, stopped, channel, db, map_keys, verified,
                 dl_done, sync_done, net_seq, ws_from, bulk_history>>

\* The target reached: a network more than two ledgers further is followed, else, or when too
\* many fetches failed in a row, the backfill is over.
FillRound ==
  /\ boot = "filling" /\ (fill.next > fill.target \/ fill.errors > GIVE_UP)
  /\ IF fill.errors <= GIVE_UP /\ net_seq > fill.target + 2
     THEN fill' = [fill EXCEPT !.target = net_seq] /\ UNCHANGED boot
     ELSE boot' = "filled" /\ UNCHANGED fill
  /\ UNCHANGED <<boots, pinned, cursor, worker_errors, stopped, channel, db, map_keys, verified,
                 dl_done, sync_done, net_seq, applied, ws_from, bulk_history>>

\* ws-sync starts from the ledger validated by now.
StartFromNewest ==
  /\ boot = "filled"
  /\ boot' = "ws" /\ ws_from' = net_seq
  /\ UNCHANGED <<boots, pinned, cursor, worker_errors, stopped, channel, db, map_keys, verified,
                 dl_done, sync_done, net_seq, fill, applied, bulk_history>>

\* The process ends or is killed; the store and the markers stay.
StopNode ==
  /\ boot # "off" /\ boots < MaxBoots
  /\ boot' = "off" /\ pinned' = 0
  /\ cursor' = [w \in BulkWorkers |-> 0] /\ worker_errors' = [w \in BulkWorkers |-> 0]
  /\ stopped' = BulkWorkers /\ channel' = {} /\ map_keys' = {} /\ verified' = FALSE
  /\ fill' = [next |-> 0, target |-> 0, errors |-> 0] /\ ws_from' = Absent0
  /\ UNCHANGED <<boots, db, dl_done, sync_done, net_seq, applied, bulk_history>>

BulkStep ==
  \/ StartNode \/ Build \/ FinishDownload \/ HandOver
  \/ \E w \in BulkWorkers : PullPage(w) \/ PullFails(w)
  \/ BeginBackfill \/ FillOne \/ FillRound \/ StartFromNewest

BulkNext == NetCloses \/ BulkStep \/ StopNode

BulkSpec == BulkInit /\ [][BulkNext]_bulk_vars

-----------------------------------------------------------------------------
(* Properties *)

\* A store reported as verified is the whole state of its ledger, though workers gave up and pages
\* came short, but for entries whose write failed, which the root of the tree beside the store does
\* not tell (bulk_sync.rs:333, :342), and entries an earlier download left that the ledger no longer
\* has (bulk_sync.rs verify_root_against_account_hash).
VerifiedIsWhole ==
  verified => \A k \in Keys :
    db[k] = Version(k, pinned) \/ k \in unwritten \/ (k \in before /\ Version(k, pinned) = 0)

\* Nothing writes later ledgers into the store while download workers still write the pinned
\* one's, which could put older entries over newer (live_viewer.rs, its comment at the download).
OneWriter == boot \notin {"off", "pulling"} => stopped = BulkWorkers /\ channel = {}

\* What a ledger's changes are written over is the state just before: the backfill leaves none
\* out in between (incremental_sync.rs backfill_range).
FillsInOrder == [][applied' \ applied # {} /\ boot = "filling" =>
                     \A s \in applied' \ applied : s - 1 \in applied]_bulk_vars

\* A start that had a ledger to go on from reaches ws-sync, whatever requests fail.
StartReachesSync == boot = "filling" \/ (boot = "pulling" /\ pinned # 0) ~> boot \in {"ws", "off"}

\* "The dl_done.txt marker is ONLY written after that verification passes" (bulk_sync.rs:6).
MarkedIsVerified == boot = "ws" /\ boots = 1 => verified

BulkFairness == WF_bulk_vars(BulkStep)

\* A start's three promises together: what is called verified is whole, as far as its writes went
\* through, one writer at a time, and no ledger skipped (bulk_sync.rs, live_viewer.rs,
\* incremental_sync.rs).
StartSound == [](VerifiedIsWhole /\ OneWriter) /\ FillsInOrder
=================================================================================
