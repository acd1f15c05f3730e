-------------------------------- MODULE WsSync --------------------------------
(***************************************************************************)
(* The ledger loop of the validator and the store it writes.               *)
(*                                                                         *)
(* ws-sync takes every ledger the network closes, in order: it fetches the *)
(* ledger's header and metadata, writes the changed objects to state.rocks *)
(* in one batch that also moves the bookmark meta:last_seq, updates the    *)
(* in-memory hasher, and compares the root with the network's              *)
(* account_hash.  A mismatch is rolled back from pre-images read before    *)
(* the write.  The bytes are the network's, or our own engine's proposal   *)
(* (a "trial"), which is redone from the network's bytes when it fails.    *)
(* The SIGTERM handler parks the loop at a ledger boundary and leaves a    *)
(* resume ticket and a clean-shutdown marker; a warm start checks both.    *)
(*                                                                         *)
(* A ledger's state is a function from Keys to values; a root hash is the  *)
(* state itself (no collisions).  While the process is down its volatile   *)
(* variables keep their last value and nothing reads them.                 *)
(***************************************************************************)
EXTENDS Integers, FiniteSets

CONSTANTS
  Keys,           \* the objects of the ledger state (each an account root)
  Vals,           \* the contents an object can have
  Absent,         \* the object does not exist
  None,           \* no ticket, no bookmark, no hasher
  MaxSeq,         \* bound: the last ledger of the chain
  Chain,          \* the network's state at each ledger
  Peers,          \* XRPL_LEDGER_SOURCE=peers (else the RPC source)
  MaxStreak,      \* MAX_MISMATCH_STREAK
  MaxGap,         \* MAX_WARM_GAP
  MaxStarts,      \* bound: process starts
  WalletMod,      \* wallet_count is a u64: 2^64
  ForceStart,     \* XRPL_FORCE_START=1
  ParkTimesOut,   \* a ledger may stay in flight past the handler's 20 s
  ReadErrors      \* a read of state.rocks may fail

Value == Vals \cup {Absent}
State == [Keys -> Value]
Seqs  == 0 .. MaxSeq

ASSUME ConstantsOK ==
  /\ IsFiniteSet(Keys)
  /\ MaxSeq \in Nat /\ MaxStreak \in Nat \ {0}
  /\ MaxGap \in Nat /\ MaxStarts \in Nat
  /\ WalletMod \in Nat /\ Cardinality(Keys) < WalletMod
  /\ Absent \notin Vals
  /\ Chain \in [Seqs -> State]
  /\ None \notin Nat /\ None \notin State /\ None \notin [seq : Seqs, root : State]
  /\ {Peers, ForceStart, ParkTimesOut, ReadErrors} \subseteq BOOLEAN

VARIABLES
  \* on disk
  store, bookmark,   \* state.rocks, and its meta:last_seq
  ticket, marker,    \* resume_ticket.json, clean_shutdown.marker
  \* the network
  live,              \* the newest ledger the network closed
  \* the process
  proc,              \* "up", "resuming" or "down"
  starts,            \* processes started
  startSeq,          \* the ledger this process started from
  clean,             \* the boot check reported a clean prior shutdown
  taken,             \* the ticket the warm start holds
  \* the ledger loop
  pc, lastSynced, seen, target,
  hashKnown,         \* the network's account_hash was fetched
  trial, batch, undo,
  hasher,            \* StateHashComputer's leaves, or None
  matches, streak,   \* consecutive_matches, MISMATCH_STREAK
  wallets,           \* wallet_count
  \* the stop control
  gate, stop, lastVerified, sig

diskVars == <<store, bookmark, ticket, marker>>
loopVars == <<pc, lastSynced, seen, target, hashKnown, trial, batch, undo,
              hasher, matches, streak, wallets>>
bootVars == <<proc, starts, startSeq, clean, taken>>
stopVars == <<gate, stop, lastVerified, sig>>
vars     == <<diskVars, live, bootVars, loopVars, stopVars>>

-------------------------------------------------------------------------------
\* Helpers

Cur == lastSynced + 1              \* the ledger in flight

\* The objects the metadata of ledger seq names.
Modified(seq) == {k \in Keys : Chain[seq][k] # Chain[seq - 1][k]}

Overwrite(s, b) == [k \in Keys |-> IF k \in DOMAIN b THEN b[k] ELSE s[k]]

Accounts(s) == Cardinality({k \in Keys : s[k] # Absent})

\* Mutant: deleted accounts are not counted.
CreatedAccounts(seq) ==
  Cardinality({k \in Keys : Chain[seq][k] # Absent /\ Chain[seq - 1][k] = Absent})

\* fetch_ledger_metadata's created less deleted account roots.
WalletDelta(seq) == Accounts(Chain[seq]) - Accounts(Chain[seq - 1])

\* Mutant: the counter grows without wrapping.
UnboundedWallets(seq) == wallets + WalletDelta(seq)

\* adjust_wallet_count: fetch_add and fetch_sub wrap.
AdjustedWallets(seq) == (wallets + WalletDelta(seq)) % WalletMod

\* Contents for every object the metadata names, right or wrong.
Bytes(seq) == [Modified(seq) -> Value]

RightBytes(seq) == [k \in Modified(seq) |-> Chain[seq][k]]

\* Bytes from peers are proven to the ledger's state root; RPC bytes are not.
NetworkBytes(seq) == IF Peers THEN {RightBytes(seq)} ELSE Bytes(seq)

\* vouch: an object is present or deleted as the metadata says, its contents
\* are whatever our engine computed.
OurBytes(seq) ==
  {b \in Bytes(seq) : \A k \in Modified(seq) : (b[k] = Absent) <=> (Chain[seq][k] = Absent)}

\* FlatHasher brought to the database for the given keys, or built from it.
\* A key whose read fails keeps its old leaf (Err(_) => {}).
HasherAfter(keys, s) ==
  IF hasher = None THEN {s}
  ELSE {[k \in Keys |-> IF k \in keys \ bad THEN s[k] ELSE hasher[k]] :
          bad \in IF ReadErrors THEN SUBSET keys ELSE {{}}}

\* Each touched key's pre-image; a failed read counts as absent (.ok().flatten()).
PreImages(b) ==
  {[k \in DOMAIN b |-> IF k \in bad THEN Absent ELSE store[k]] :
     bad \in IF ReadErrors THEN SUBSET DOMAIN b ELSE {{}}}

NoBytes == [k \in {} |-> Absent]

Init ==
  /\ store = Chain[0] /\ bookmark = None /\ ticket = None /\ marker = FALSE
  /\ live = 0
  /\ proc = "up" /\ starts = 1 /\ startSeq = 0 /\ clean = FALSE /\ taken = None
  /\ pc = "idle" /\ lastSynced = 0 /\ seen = 0 /\ target = 0
  /\ hashKnown = FALSE /\ trial = FALSE /\ batch = NoBytes /\ undo = NoBytes
  /\ hasher = None /\ matches = 0 /\ streak = 0 /\ wallets = Accounts(Chain[0])
  /\ gate = "free" /\ stop = FALSE /\ lastVerified = None /\ sig = "off"

-------------------------------------------------------------------------------
(* The ledger loop, one ledger at a time *)

\* The network closed a ledger and told the subscriber.  Past the bound the
\* newest one is announced again, so that a held ledger is driven again.
LedgerClosed ==
  /\ \/ live < MaxSeq /\ live' = live + 1 /\ UNCHANGED seen
     \/ live = MaxSeq /\ live > 0 /\ seen = live /\ seen' = live - 1 /\ UNCHANGED live
  /\ UNCHANGED <<diskVars, bootVars, stopVars, pc, lastSynced, target, hashKnown,
                 trial, batch, undo, hasher, matches, streak, wallets>>

Loop(at) == proc = "up" /\ pc = at

\* One ledgerClosed message: drive the ledgers up to it, or nothing is left to do.
TakeEvent ==
  /\ Loop("idle") /\ seen < live
  /\ seen' = seen + 1
  /\ IF seen' > lastSynced
       THEN pc' = "next" /\ target' = seen'
       ELSE UNCHANGED <<pc, target>>
  /\ UNCHANGED <<diskVars, live, bootVars, stopVars, lastSynced, hashKnown,
                 trial, batch, undo, hasher, matches, streak, wallets>>

\* The connection dropped: the messages in between are lost.
Reconnect ==
  /\ Loop("idle") /\ seen < live
  /\ seen' = live
  /\ UNCHANGED <<diskVars, live, bootVars, stopVars, pc, lastSynced, target, hashKnown,
                 trial, batch, undo, hasher, matches, streak, wallets>>

\* The peer source has no ledger yet: the message is done with.
NoPeerLedger ==
  /\ Peers /\ Loop("next")
  /\ pc' = "idle" /\ target' = 0
  /\ UNCHANGED <<diskVars, live, bootVars, stopVars, lastSynced, seen, hashKnown,
                 trial, batch, undo, hasher, matches, streak, wallets>>

\* enter_ledger: the gate is held until the ledger is done; after a stop the
\* loop gives it back and parks for good.
EnterLedger ==
  /\ Loop("next") /\ gate = "free"
  /\ IF stop
       THEN pc' = "parked" /\ UNCHANGED gate
       ELSE pc' = "meta" /\ gate' = "sync"
  /\ UNCHANGED <<diskVars, live, bootVars, lastSynced, seen, target, hashKnown,
                 trial, batch, undo, hasher, matches, streak, wallets,
                 stop, lastVerified, sig>>

\* Mutant: the guard outlives the iteration.
LeaveHoldingGate(next) ==
  /\ UNCHANGED gate /\ pc' = next
  /\ hashKnown' = FALSE /\ trial' = FALSE /\ batch' = NoBytes /\ undo' = NoBytes
  /\ UNCHANGED <<live, bootVars, seen, stop, sig>>

\* The iteration ends: the gate is released and its locals are gone.
Leave(next) ==
  /\ gate' = "free" /\ pc' = next
  /\ hashKnown' = FALSE /\ trial' = FALSE /\ batch' = NoBytes /\ undo' = NoBytes
  /\ UNCHANGED <<live, bootVars, seen, stop, sig>>

\* Mutant: a ledger that did not land is skipped.
HoldSkips == Leave("idle") /\ target' = 0 /\ lastSynced' = Cur

\* The position is held: the next message drives the same ledger again.
Hold == Leave("idle") /\ target' = 0 /\ UNCHANGED lastSynced

\* The metadata fetch failed three times.
NoMetadata ==
  /\ ~Peers /\ Loop("meta")
  /\ Hold
  /\ UNCHANGED <<diskVars, lastVerified, hasher, matches, streak, wallets>>

\* The account hash (perhaps missing) and the metadata are here.  From the RPC
\* source the wallet count moves at once, from peers when the ledger landed.
Metadata ==
  /\ Loop("meta")
  /\ hashKnown' \in IF Peers THEN {TRUE} ELSE BOOLEAN
  /\ wallets' = IF Peers THEN wallets ELSE AdjustedWallets(Cur)
  /\ pc' = "propose"
  /\ UNCHANGED <<diskVars, live, bootVars, stopVars, lastSynced, seen, target,
                 trial, batch, undo, hasher, matches, streak>>

\* The transaction set is incomplete (tx gate), or peers have no state objects.
HoldBack ==
  /\ Loop("propose")
  /\ Hold
  /\ UNCHANGED <<diskVars, lastVerified, hasher, matches, streak, wallets>>

\* Our engine vouches for its own bytes (never, without the native writer).
Propose ==
  /\ Loop("propose")
  /\ trial' = TRUE /\ batch' \in OurBytes(Cur) /\ pc' = "process"
  /\ UNCHANGED <<diskVars, live, bootVars, stopVars, lastSynced, seen, target,
                 hashKnown, undo, hasher, matches, streak, wallets>>

\* The network's bytes: no proposal, or the redo of a failed one.
TakeNetworkBytes ==
  /\ Loop("propose") \/ Loop("redo")
  /\ trial' = FALSE /\ batch' \in NetworkBytes(Cur) /\ pc' = "process"
  /\ UNCHANGED <<diskVars, live, bootVars, stopVars, lastSynced, seen, target,
                 hashKnown, undo, hasher, matches, streak, wallets>>

\* Peers could not give the objects for the redo.
RedoFails ==
  /\ Peers /\ Loop("redo")
  /\ Hold
  /\ UNCHANGED <<diskVars, lastVerified, hasher, matches, streak, wallets>>

-------------------------------------------------------------------------------
(* process_ledger: write, verify, keep or roll back *)

\* Nothing is written without the account hash.
NoAccountHash ==
  /\ Loop("process") /\ ~hashKnown
  /\ Hold
  /\ UNCHANGED <<diskVars, lastVerified, hasher, matches, streak, wallets>>

\* An object could not be fetched: nothing is written, the hasher is dropped.
BytesMissing ==
  /\ ~Peers /\ Loop("process") /\ hashKnown
  /\ Hold
  /\ hasher' = None
  /\ UNCHANGED <<diskVars, lastVerified, matches, streak, wallets>>

\* The batch was refused by the database.
WriteFails ==
  /\ Loop("process") /\ hashKnown
  /\ Hold
  /\ UNCHANGED <<diskVars, lastVerified, hasher, matches, streak, wallets>>

\* The objects and the bookmark, in one batch.
Write ==
  /\ Loop("process") /\ hashKnown
  /\ undo' \in PreImages(batch)
  /\ store' = Overwrite(store, batch) /\ bookmark' = Cur
  /\ pc' = "written"
  /\ UNCHANGED <<ticket, marker, live, bootVars, stopVars, lastSynced, seen, target,
                 hashKnown, trial, batch, hasher, matches, streak, wallets>>

\* update_and_hash brought the hasher to the store.
Hash ==
  /\ Loop("written")
  /\ hasher' \in HasherAfter(DOMAIN batch, store)
  /\ pc' = "hashed"
  /\ UNCHANGED <<diskVars, live, bootVars, stopVars, lastSynced, seen, target,
                 hashKnown, trial, batch, undo, matches, streak, wallets>>

\* Mutant: the bookmark stays ahead of the restored store.
RollBackStoreOnly == store' = Overwrite(store, undo) /\ UNCHANGED bookmark

\* Mutant: the bookmark goes back, the store does not.
RollBackBookmarkOnly == bookmark' = Cur - 1 /\ UNCHANGED store

\* undo_batch: the pre-images, and the bookmark back to the parent.
RollBack == store' = Overwrite(store, undo) /\ bookmark' = Cur - 1

\* No root came back (the hash task failed): undone, and the hasher dropped.
NoRoot ==
  /\ Loop("written")
  /\ Hold
  /\ RollBack /\ hasher' = None
  /\ UNCHANGED <<ticket, marker, lastVerified, matches, streak, wallets>>

\* The root is the network's.
Match ==
  /\ Loop("hashed") /\ hasher = Chain[Cur]
  /\ matches' = matches + 1 /\ streak' = 0
  /\ lastVerified' = [seq |-> Cur, root |-> Chain[Cur]]
  /\ pc' = "landed"
  /\ UNCHANGED <<diskVars, live, bootVars, lastSynced, seen, target, hashKnown,
                 trial, batch, undo, hasher, wallets, gate, stop, sig>>

\* Mutant: a failed trial ends the signing run too.
RunEnds == 0

\* A mismatch ends the signing run, unless the bytes were a trial.
RunAfterMismatch == IF trial THEN matches ELSE 0

\* It is not: the undo batch restores the pre-images and the bookmark.
Mismatch ==
  /\ Loop("hashed") /\ hasher # Chain[Cur]
  /\ matches' = RunAfterMismatch
  /\ RollBack
  /\ pc' = "rolledback"
  /\ UNCHANGED <<ticket, marker, live, bootVars, stopVars, lastSynced, seen, target,
                 hashKnown, trial, batch, undo, hasher, streak, wallets>>

\* The undo batch itself failed: the process halts on an unknown store.
UndoFails ==
  /\ Loop("hashed") /\ hasher # Chain[Cur]
  /\ matches' = RunAfterMismatch
  /\ proc' = "down"
  /\ UNCHANGED <<diskVars, live, stopVars, starts, startSeq, clean, taken,
                 pc, lastSynced, seen, target, hashKnown, trial, batch, undo,
                 hasher, streak, wallets>>

\* Mutant: the hasher keeps the rolled-back leaves.
NotRehashed == {hasher}

\* update_only: the hasher follows the restored store.
Rehashed == HasherAfter(DOMAIN undo, store)

\* Mutant: the ledger waits for the next message instead.
RedoForgotten ==
  /\ Loop("rolledback") /\ trial
  /\ hasher' \in Rehashed
  /\ Hold
  /\ UNCHANGED <<diskVars, lastVerified, matches, streak, wallets>>

\* A trial is done again from the network's bytes.
Redo ==
  /\ Loop("rolledback") /\ trial
  /\ hasher' \in Rehashed
  /\ pc' = "redo" /\ trial' = FALSE /\ batch' = NoBytes /\ undo' = NoBytes
  /\ UNCHANGED <<diskVars, live, bootVars, stopVars, lastSynced, seen, target,
                 hashKnown, matches, streak, wallets>>

\* The network's bytes did not match: a strike, and the position is held.
Strike ==
  /\ Loop("rolledback") /\ ~trial /\ streak + 1 < MaxStreak
  /\ hasher' \in Rehashed
  /\ streak' = streak + 1
  /\ Hold
  /\ UNCHANGED <<diskVars, lastVerified, matches, wallets>>

\* The third strike in a row halts the process.
Halt ==
  /\ Loop("rolledback") /\ ~trial /\ streak + 1 >= MaxStreak
  /\ hasher' \in Rehashed
  /\ streak' = streak + 1
  /\ proc' = "down"
  /\ UNCHANGED <<diskVars, live, stopVars, starts, startSeq, clean, taken,
                 pc, lastSynced, seen, target, hashKnown, trial, batch, undo,
                 matches, wallets>>

\* Mutant: a landed ledger is driven again.
LandHolds ==
  /\ Loop("landed") /\ Hold
  /\ UNCHANGED <<diskVars, lastVerified, hasher, matches, streak, wallets>>

\* The ledger landed: last_synced moves, and the loop takes the next one.
Land ==
  /\ Loop("landed")
  /\ lastSynced' = Cur
  /\ wallets' = IF Peers THEN AdjustedWallets(Cur) ELSE wallets
  /\ Leave(IF Cur < target THEN "next" ELSE "idle")
  /\ target' = IF Cur < target THEN target ELSE 0
  /\ UNCHANGED <<diskVars, lastVerified, hasher, matches, streak>>

-------------------------------------------------------------------------------
(* The SIGTERM handler *)

Handler(at) == proc # "down" /\ sig = at

Sigterm ==
  /\ Handler("off")
  /\ stop' = TRUE /\ sig' = "parking"
  /\ UNCHANGED <<diskVars, live, bootVars, loopVars, gate, lastVerified>>

\* Mutant: the handler does not wait for the ledger in flight.
ParkWithoutGate ==
  /\ Handler("parking")
  /\ gate' = "stop" /\ sig' = "parked"
  /\ UNCHANGED <<diskVars, live, bootVars, loopVars, stop, lastVerified>>

\* The gate is the handler's until the process exits.
Park ==
  /\ Handler("parking") /\ gate = "free"
  /\ gate' = "stop" /\ sig' = "parked"
  /\ UNCHANGED <<diskVars, live, bootVars, loopVars, stop, lastVerified>>

\* A ledger stayed in flight for 20 s: no ticket.
ParkTimeout ==
  /\ ParkTimesOut /\ Handler("parking") /\ gate = "sync"
  /\ sig' = "marking"
  /\ UNCHANGED <<diskVars, live, bootVars, loopVars, gate, stop, lastVerified>>

\* The ticket names the last ledger this process verified, if any; the write may fail.
WriteTicket ==
  /\ Handler("parked")
  /\ ticket' \in IF lastVerified = None THEN {ticket} ELSE {ticket, lastVerified}
  /\ sig' = "marking"
  /\ UNCHANGED <<store, bookmark, marker, live, bootVars, loopVars, gate, stop, lastVerified>>

\* The clean-shutdown marker, parked or not; the write may fail.
WriteMarker ==
  /\ Handler("marking")
  /\ marker' \in {TRUE, marker}
  /\ sig' = "exiting"
  /\ UNCHANGED <<store, bookmark, ticket, live, bootVars, loopVars, gate, stop, lastVerified>>

Exit ==
  /\ Handler("exiting")
  /\ proc' = "down"
  /\ UNCHANGED <<diskVars, live, stopVars, loopVars, starts, startSeq, clean, taken>>

-------------------------------------------------------------------------------
(* Crash, boot, warm resume, cold start *)

\* Killed at any point; state.rocks keeps every batch it was given.
Crash ==
  /\ proc # "down"
  /\ proc' = "down"
  /\ UNCHANGED <<diskVars, live, stopVars, loopVars, starts, startSeq, clean, taken>>

FreshStop == gate' = "free" /\ stop' = FALSE /\ lastVerified' = None /\ sig' = "off"

\* A start with XRPL_WARM_RESUME=1 consumes the marker; without a marker it
\* refuses, unless it is forced.  SIGTERM is handled from here on.
Boot ==
  /\ proc = "down" /\ starts < MaxStarts
  /\ marker \/ ForceStart
  /\ proc' = "resuming" /\ starts' = starts + 1
  /\ clean' = marker /\ marker' = FALSE /\ taken' = None
  /\ FreshStop
  /\ UNCHANGED <<store, bookmark, ticket, live, startSeq, loopVars>>

\* The ticket is deleted as it is read.
TakeTicket ==
  /\ proc = "resuming" /\ taken = None /\ ticket # None
  /\ taken' = ticket /\ ticket' = None
  /\ UNCHANGED <<store, bookmark, marker, live, proc, starts, startSeq, clean,
                 stopVars, loopVars>>

\* check_ticket and check_gap, then check_root on the root rebuilt from the store.
TicketOK == taken # None /\ taken.seq = bookmark
GapOK    == live - taken.seq <= MaxGap
RootOK   == store = Chain[taken.seq] /\ store = taken.root

\* The loop starts from ledger seq, the store holding s.
StartLoop(seq, s) ==
  /\ proc' = "up" /\ startSeq' = seq /\ lastSynced' = seq
  /\ pc' = "idle" /\ target' = 0 /\ seen' = live
  /\ hashKnown' = FALSE /\ trial' = FALSE /\ batch' = NoBytes /\ undo' = NoBytes
  /\ matches' = 0 /\ streak' = 0 /\ wallets' = Accounts(s)

\* Mutant: the loop starts at the network's newest ledger.
ResumeAtLive == live

\* ws_last: the ledger the ticket names.
ResumePoint == taken.seq

Resume ==
  /\ proc = "resuming" /\ clean /\ TicketOK /\ GapOK /\ RootOK
  /\ StartLoop(ResumePoint, store)
  /\ hasher' = store
  /\ UNCHANGED <<diskVars, live, starts, clean, taken, stopVars>>

\* Any doubt, the network's account hash being unavailable included: exit 75.
Fallback ==
  /\ proc = "resuming" /\ (taken # None \/ ticket = None)
  /\ proc' = "down"
  /\ UNCHANGED <<diskVars, live, starts, startSeq, clean, taken, stopVars, loopVars>>

\* The operator wipes everything and downloads the newest ledger.
ColdStart ==
  /\ proc = "down" /\ starts < MaxStarts
  /\ starts' = starts + 1 /\ clean' = FALSE /\ taken' = None
  /\ store' = Chain[live] /\ bookmark' = None /\ ticket' = None /\ marker' = FALSE
  /\ StartLoop(live, Chain[live])
  /\ hasher' = None
  /\ FreshStop
  /\ UNCHANGED live

-------------------------------------------------------------------------------

LoopStep ==
  \/ TakeEvent \/ NoPeerLedger \/ EnterLedger \/ NoMetadata \/ Metadata
  \/ HoldBack \/ Propose \/ TakeNetworkBytes \/ RedoFails
  \/ NoAccountHash \/ BytesMissing \/ WriteFails \/ Write \/ Hash \/ NoRoot
  \/ Match \/ Mismatch \/ UndoFails \/ Redo \/ Strike \/ Halt \/ Land

HandlerStep == Park \/ ParkTimeout \/ WriteTicket \/ WriteMarker \/ Exit

StartStep == Boot \/ TakeTicket \/ Resume \/ Fallback \/ ColdStart

Next == LedgerClosed \/ Reconnect \/ LoopStep \/ Sigterm \/ HandlerStep \/ Crash \/ StartStep

Spec == Init /\ [][Next]_vars

-------------------------------------------------------------------------------
(* Properties *)

Tickets == [seq : Seqs, root : State]
Batches == UNION {[d -> Value] : d \in SUBSET Keys}

\* Every variable has its type.
TypeOK ==
  /\ store \in State /\ bookmark \in Seqs \cup {None}
  /\ ticket \in Tickets \cup {None} /\ marker \in BOOLEAN
  /\ live \in Seqs
  /\ proc \in {"up", "resuming", "down"} /\ starts \in Nat /\ startSeq \in Seqs
  /\ clean \in BOOLEAN /\ taken \in Tickets \cup {None}
  /\ pc \in {"idle", "next", "parked", "meta", "propose", "process", "written",
             "hashed", "rolledback", "redo", "landed"}
  /\ lastSynced \in Seqs /\ seen \in Seqs /\ target \in Seqs
  /\ hashKnown \in BOOLEAN /\ trial \in BOOLEAN
  /\ batch \in Batches /\ undo \in Batches
  /\ hasher \in State \cup {None} /\ matches \in Nat /\ streak \in Nat /\ wallets \in 0 .. WalletMod - 1
  /\ gate \in {"free", "sync", "stop"} /\ stop \in BOOLEAN
  /\ lastVerified \in Tickets \cup {None}
  /\ sig \in {"off", "parking", "parked", "marking", "exiting"}

\* No ledger is in flight: what the rest of the node and a clean stop rely on.
Quiet == proc = "up" /\ gate # "sync"

\* Between ledgers state.rocks holds exactly the ledger last_synced names, and
\* its bookmark says so, whatever was fetched, tried and rolled back before
\* (process_ledger's write, verify, undo).
StoreVerified ==
  Quiet => /\ store = Chain[lastSynced]
           /\ bookmark = lastSynced \/ (bookmark = None /\ lastSynced = startSeq)

\* Between ledgers the in-memory hasher, once built, has the leaves of
\* state.rocks: no rollback or failed fetch leaves it stale for the next root.
HasherTracksStore == (Quiet /\ hasher # None) => hasher = store

\* Once the SIGTERM handler holds the gate, state.rocks and the bookmark stay as
\* they are until the process ends (sync_stop.rs: no ledger in flight, none starts).
ParkedStoreFrozen ==
  [][(gate = "stop" /\ proc # "down") => UNCHANGED <<store, bookmark>>]_vars

\* A ticket that passes check_ticket after a clean shutdown names the very state
\* in the store: check_root is only a backstop.
TicketNamesStore ==
  (proc = "down" /\ marker /\ ticket # None /\ ticket.seq = bookmark)
    => store = ticket.root /\ store = Chain[ticket.seq]

\* A clean-shutdown marker means the store is a verified ledger, the one the
\* bookmark names (startup.rs CleanResume: "state is consistent, safe to resume").
CleanMarkerMeansVerified ==
  (proc = "down" /\ marker)
    => store = Chain[IF bookmark = None THEN startSeq ELSE bookmark]

\* The signing run counts each ledger once, and only ledgers this process
\* verified: a held, rolled back or redone ledger never adds to it.
RunCountsLedgersOnce ==
  proc = "up" => matches <= IF lastVerified = None THEN 0 ELSE lastVerified.seq - startSeq

\* A proposal of ours that fails the state hash costs neither a strike nor the
\* signing run.
TrialIsQuiet ==
  [][(trial /\ proc = "up") => matches' >= matches /\ streak' <= streak]_vars

\* Between ledgers wallet_count is the number of account roots in the store.
WalletCountMatchesStore == Quiet => wallets = Accounts(store)

\* The store as the rest of the node sees it.
Abs == INSTANCE VerifiedChain WITH
         head <- IF pc = "landed" THEN Cur ELSE lastSynced,
         run  <- matches,
         node <- IF proc # "up" THEN "down" ELSE IF clean THEN "warm" ELSE "cold"

\* The loop, its crashes and its restarts implement the verified chain: one
\* verified ledger at a time, none skipped or repeated, and a warm start returns
\* to the ledger the store was left on.
ImplementsVerifiedChain == Abs!ChainSpec

-------------------------------------------------------------------------------
(* Liveness *)

\* What the source, the connection or the database may do to a ledger; our own
\* engine's wrong bytes are not among them.
Fault ==
  \/ Reconnect \/ NoPeerLedger \/ NoMetadata \/ HoldBack \/ RedoFails
  \/ BytesMissing \/ WriteFails \/ NoRoot
  \/ Metadata /\ ~hashKnown'
  \/ TakeNetworkBytes /\ batch' # RightBytes(Cur)

\* The network keeps closing ledgers, the loop does what it can without a fault,
\* the handler keeps running, and the faults, however many, end.
Fairness ==
  /\ WF_vars(LedgerClosed) /\ WF_vars(LoopStep /\ ~Fault) /\ WF_vars(HandlerStep)
  /\ <>[][~Fault]_vars

LiveSpec == Spec /\ Fairness

\* A closed ledger lands, unless the process stops or halts first: holding the
\* position never loses a ledger for good.
CatchesUp ==
  \A n \in 1 .. MaxSeq :
    (proc = "up" /\ live >= n) ~> (lastSynced >= n \/ proc # "up" \/ stop)

\* A SIGTERM ends the process: the gate the handler waits for is always given up.
StopExits == (sig = "parking") ~> (proc = "down")

===============================================================================
