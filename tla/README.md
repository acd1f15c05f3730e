# A TLA+ model of the XRPL validator

This directory holds TLA+ specifications of the Rust XRPL validator in this repository, configurations that
model-check them with TLC, and theorems proved with TLAPS. Source paths are relative to the repository root; a bare
`ws_sync.rs` is in `crates/xrpl-node/src/`, a bare `ledger/…`, `tx/…`, `flow/…` or `shamap/…` in
`crates/xrpl-ledger/src/`. `PROJECT.json` lists every component, run, theorem and hazard, and maps each definition
to the lines it stands for.

- [The system](#the-system): the components, their state, and what makes each correct
- [What is modelled](#what-is-modelled): module by module, against the code
- [The runs](#the-runs): what TLC checks, within which bounds, under which fairness
- [What is proved](#what-is-proved)
- [Disagreements found and open points](#disagreements-found-and-open-points), [What is not modelled](#what-is-not-modelled), [What is left](#what-is-left)

To run a check: `tlc -config MCWsSync_rpc.cfg MCWsSync.tla`; to check proofs: `tlapm WsSyncProofs.tla`.

## The system

The validator follows the XRP Ledger. It keeps the whole ledger state in a RocksDB store (`state.rocks`), moves it
from one ledger to the next as the network closes them, checks the state root of every ledger against the
network's `account_hash`, and signs validations. It does not take part in consensus as a proposer: it follows, and
signs what it can vouch for. Over time it has been weaned off a reference server (".39", a rippled): the ledger
bytes may now come from its own engine, the ledgers from peers, and the hashes it signs from its own tally.

```
 peers ──validations──> own tally ──quorums──> signing loop ──> validations
   │                       │  ^                     ^
   │ headers, tx trees     │  └── witness (.39) ────┤ own hashes
   v                       v                        │
 peer fetch ──> peer ledgers ──> ledger loop (ws-sync) ──> own_hash
 RPC server ───────────────────>   │        ^  │ landed
                                   │ write  │  └────> native mirror (our engine)
                                   v        └ proposal ┘
                              state.rocks <── bulk sync / cold start / warm resume
```

### Ledger following

| Component | State | Operations | Interacts with | Hard behaviour | Correct when |
|---|---|---|---|---|---|
| **Ledger loop** `ws_sync.rs`, `state_hash.rs` | position `last_synced`, the store and its bookmark, the in-memory hasher, the run of matches, the streak of mismatches, `wallet_count` | take an event, fetch header and metadata, take our engine's bytes or the network's, write, hash, compare, roll back, redo, hold, halt | every other part below | write before verify, each failure undone; a held ledger is driven again; three strikes halt | between ledgers the store is the verified ledger it names; no ledger is skipped or repeated |
| **Clean stop and warm restart** `sync_stop.rs`, `resume.rs`, `startup.rs`, `bin/live_viewer.rs` | the gate, the stop flag, the resume ticket, the clean-shutdown marker | SIGTERM: park, ticket, marker, exit; start: marker, ticket, gap, root | the loop (the gate), the store | a crash or signal at any point; a stop that times out | a warm start resumes only on the verified ledger it left |
| **Native mirror and writer** `native_shadow.rs` | the decoded state in memory, the build thread, the queue, bad keys, the held proposal, the breaker | hydrate, poll, install, replay, propose, vouch, commit, abort | the loop calls it for each ledger | a build that races the loop; contents the codec cannot carry; wrong proposals | the mirror is exactly the ledger it names; our bytes are wrong at most once a ledger and a few times a window |
| **Native ledger pipeline** `native_apply.rs`, `native_order.rs`, `native_meta.rs`, `meta_check.rs` | the sandbox of the ledger in flight | order the set, apply each transaction, rebuild metadata, compare | the mirror | claimed failures, retries, one transaction's leftovers in the next | the writes are the network's |
| **Peer ledger source** `peer_ledgers.rs`, `ledger_source.rs` | cache of hashes learned by walking parents (`CHAIN_KEEP`), the newest quorum announced | the hash for a sequence, the ledger for a hash, the trigger | the tally, the peer fetch | ledgers without a quorum of their own; the cache drops its lowest entries | each hash is on the chain below some quorum |
| **Peer fetch driver** `peer_fetch.rs`, `peer_source.rs` | jobs (4 at once), a pacer (8 s between requests to a peer, 3 misses bench it for 300 s), requests in flight (6 s), deadlines (45 s, 15 s) | register a peer, start a job, ask, take a reply, time out, bench, finish | peers, the peer source | late, doubled and partial replies; all peers benched; a full job table | every job ends, with a tree proven to its hash or an error |
| **Account state from peers** `peer_state.rs`, `cold_start.rs` | wanted positions, tickets in flight, stubborn positions, the leaf file, its checkpoint | next batch, offer, settle, release, append, checkpoint, resume, convert | peers, the store | crash between leaf file and checkpoint; replies in any order | each leaf is written once, and the whole rebuilds the root |
| **Bulk and incremental sync** `bulk_sync.rs`, `incremental_sync.rs` | the page marker, `dl_done` and `sync_complete` files | download, verify, mark, backfill | RPC server, the store, the start | a stop or crash in the download; a write that fails; what an earlier download left; the markers of an unverified one | what it calls verified is whole; the loop starts on it |
| **RPC client** `rippled_client.rs`, `rpc_select.rs` | the chosen endpoint | call, retry, fail over | most parts | any call may fail | (taken as: any call fails at any time) |
| **Prefetch** `offer_books.rs`, `nft_pages.rs`, `succ_walk.rs` | none | walk books and pages for the comparison engine | FFI leg | – | pure |

### Signing

| Component | State | Operations | Interacts with | Hard behaviour | Correct when |
|---|---|---|---|---|---|
| **Own tally** `own_validated.rs`, `consensus/quorum.rs`, `witness.rs` | votes by ledger and master key, hashes at quorum, agreed sets, pending verdicts, the list and negative UNL | a validation, `network_validated`, `set_unl`, `set_negative_unl`, let go | peers, ws-sync, the witness, the signing loop | validations in any order, late, doubled, replaced; the negative UNL and the list change under them | one quorum a ledger; verdicts do not depend on the order |
| **Signing loop** `bin/live_viewer.rs`, `own_hash.rs`, `own_validated.rs` | `last_validated_seq`, witnessed and own hashes | choose a ledger (announcement, quorum, own), gate, sign, send | the tally, ws-sync | ws-sync trails the quorums; two-step updates; restarts | signs forward, never against a quorum, passes over nothing it made right |
| **Validation and proposal signatures** `validation.rs`, `consensus/sig_verify.rs` | keys | serialize, sign, verify | signing loop, tally | – | the bytes verify at peers |
| **UNL** `unl_fetch.rs`, `unl_verify.rs`, `unl_refresh.rs` | the last good list, its sequence | fetch, verify, gate by sequence, refresh, hand out to three consumers | tally, tracker, recorder | refresh while votes are held; old lists replayed; a crash or a failed write between or in its two files | no older list replaces a newer one; all consumers end with the same list |
| **Amendments and guard** `amendments.rs`, `amendment_guard.rs` | the enabled set read from the last ledger applied | observe, report, vote | the mirror, validation | read at one ledger, used for a later vote | – |
| **Clock check** `clock_check.rs` | the last reading | query, median, gate | signing loop | stale readings | the gate closes only on a fresh, sound reading |
| **Independence days** `independence_days.rs` | signatures by UTC day | signed, save every 64, streak | signing loop | restarts, day boundaries, a failed save, an unreadable file | a day counts only if every signature known was our own; few are forgotten |

### Consensus tracking, peers, operation

| Component | State | Operations | Hard behaviour | Correct when |
|---|---|---|---|---|
| **Consensus tracking** `consensus_engine.rs`, `consensus/{state,proposal,threshold,unl,validation}.rs` | phase (Open, Establish, Accept), proposals, our set | transaction, close trigger, proposal, converge, accept, next round | late proposals; transactions while establishing are dropped | the accepted set has the threshold |
| **Close votes** `consensus/{close_time,fee_vote,amendment_vote}.rs` | none | tallies | rounding, ties | two trackers that heard the same negotiate the same |
| **Round recorder** `consensus_record.rs` | a bounded channel, the batch gathered, the list in force, the file and its rotated ones | hand over, gather, flush, rotate, reopen, restart | writes and renames that fail half way; copies that come late; lists that change between lines | each line is read back by the right list; no message twice; nothing lost uncounted |
| **Mempool** `mempool/*` | a queue and a set of seen hashes, a lock each; the relay filter | add, take, remove, expire, relay | the two locks are taken one after the other | what is queued is known; the cheapest goes; nothing is relayed twice |
| **Peer protocol, overlay** `peer/*`, `overlay/*` | sockets, sessions, duplicate filter | handshake, frame, dispatch | I/O | – |
| **Process and operator interface** `bin/live_viewer.rs`, `node.rs`, `rpc/*`, … | tasks and their handles | start, stop, loops, HTTP | order of start and stop | see the rows above |
| **Earlier engine and FFI legs** `engine.rs`, `ledger_close.rs`, `lockstep.rs`, `stage3.rs`, `ffi_*.rs`, `crates/xrpl-ffi` | – | the C++ engine and its comparison, a shadow | – | – |
| **Probes, fuzzers, repair tools** `bin/*`, `tx_fuzz.rs`, `fuzz_mutants.rs` | – | run by hand | – | – |
| **Dashboard, scripts, alerts** | – | presentation | – | – |

### The native engine, `crates/xrpl-ledger`

| Component | State | Operations | Hard behaviour | Correct when |
|---|---|---|---|---|
| **State and sandbox** `ledger/{state,sandbox,objects,keylet,…}.rs` | the base state, a map of modifications, snapshots | read, write, delete, snapshot, restore, commit | created and deleted in one view; nested views; views kept beside the map | what a discarded view did leaves no trace |
| **Transactor pipeline** `ledger/{transactor,threading,tx_meta}.rs`, `tx/dispatch.rs` | fee, sequence, ticket, threading fields | preflight, claim the fee, apply, roll back, thread | a claimed failure keeps fee and sequence only | value is conserved, sequences move by one |
| **Ledger close** `ledger/{apply,close,close_time}.rs` | the set and its retries | order by salted account, apply in up to three passes | transactions that depend on one another | the result does not depend on the order of arrival |
| **Directories, NFT pages** `ledger/{directory,nftpage}.rs` | linked pages | insert, remove, split, merge, delete | long runs of both | pages stay linked, each entry on one page |
| **SHAMap, node store** `shamap/*`, `nodestore/*` | a radix tree | insert, delete, hash, diff, sync | shape after deletions | the shape depends on the keys only |
| **Path engine** `flow/*` | payment sandboxes, deferred credits | reverse and forward pass over strands | limits found in one pass used in the other | value conserved, limits kept |
| **Transactors** `tx/*` | the objects they own | payments, trust lines, offers, AMM; escrows, checks, channels, tickets, batches; tokens, credentials, … | object lifecycles over many transactions | value held back leaves once; owner counts match directories |

### Hazards

PROJECT.json's `hazards` has the full list, at its lines, with the properties that would catch each going wrong. The
ones that shaped the models: a write that turns out wrong, at any point of its undo (`ws_sync.rs:1843`); a signal,
crash or time-out at any point of a ledger (`sync_stop.rs:64`, `resume.rs:227`); a mirror built while the ledgers go
on (`native_shadow.rs:664`); validations in any order while the negative UNL moves and votes are let go
(`own_validated.rs:237`); a witness, a quorum and our own hash that come in any order before a signature
(`own_validated.rs:330`, `own_hash.rs:249`); replies of peers that come late, twice, wrong or never
(`peer_fetch.rs:646`, `peer_state.rs:512`); writes of a file that end half way (`peer_state.rs:618`,
`consensus_record.rs:828`); and transactions that fail after they changed something (`ledger/sandbox.rs:230`).

## What is modelled

Five groups of modules. `MC*` modules give small instances of them to TLC; `*Proofs` modules hold the theorems.

| Group | Modules | Checked by | Theorems |
|---|---|---|---|
| Ledger following | `VerifiedChain` (abstract), `WsSync` | `MCWsSync`, `MCLive` | `WsSyncProofs` |
| | `NativeMirror` | `MCNativeMirror` | `NativeMirrorProofs` |
| | `PeerFetch`, `PeerLedgers`, `PeerState` | `MCLive` | `PeerProofs` |
| | `BulkSync` | `MCNode` | `NodeProofs` |
| Signing | `QuorumView` (abstract), `Tally` | `MCTally` | `TallyProofs` |
| | `Signing` (EXTENDS `QuorumView`) | `MCSigning` | `SigningProofs` |
| Beside the loop | `UnlLists`, `ConsensusTracking`, `Mempool` | `MCNode` | `NodeProofs` |
| | `ConsensusRecord`, `SignedDays` | `MCNode` | `RecordProofs` |
| | `FlagLedgers` | `MCNativeMirror` | `LedgerFormProofs` |
| A ledger's structures and its building | `DirectoryPages` | `MCNativeMirror` | `LedgerFormProofs` |
| | `LedgerBuild` | `MCNativeMirror` | `NativeMirrorProofs` |
| | `ShaMapTree`, `FlatHasher` | `MCNativeMirror` | – |
| The native engine | `LedgerView` ← `AccountTxs` ← `Tokens` ← `Payments` ← `Custody` ← `NftPages` ← `Nfts` ← `Registers` ← `Transactor` ← `Engine`; `Passes` | `MCEngine` | – |

Common to all: a hash is the term it stands for, or a model value (no collisions); the network's chain is a constant,
so the network never reorganises a validated ledger; counters are bounded by named constants. `MCLive`, `MCNode` and
`MCNativeMirror` hold several independent parts: a variable `part` names the one a behaviour is about, and the others
keep their first state, so that the parts share a run without multiplying each other's states.

### WsSync and VerifiedChain

A state is a function from `Keys` to values, each key an account root (so that `wallet_count` has something to
count). One ledger is a path of steps, each a point where the process can be stopped or killed:

| Actions | Code (`ws_sync.rs` unless named) |
|---|---|
| `LedgerClosed`, `TakeEvent`, `Reconnect`, `NoPeerLedger` | the subscription, its loss, and the loop from `last_synced + 1` up to the ledger announced |
| `EnterLedger`, `Leave`, `Hold` | `sync_stop::enter_ledger` and the guard's drop; `break` without moving `last_synced` |
| `Metadata`, `NoMetadata`, `HoldBack`, `Propose`, `TakeNetworkBytes` | header and metadata, the transaction gate, our engine's vouched bytes, the network's |
| `NoAccountHash`, `BytesMissing`, `WriteFails`, `Write`, `Hash`, `NoRoot` | `process_ledger` up to the root |
| `Match`, `Mismatch`, `UndoFails`, `Redo`, `Strike`, `Halt`, `Land` | the comparison, `undo_batch`, the redo of a trial, the streak, the advance |
| `Sigterm`, `Park`, `ParkTimeout`, `WriteTicket`, `WriteMarker`, `Exit` | the handler in `bin/live_viewer.rs`, `sync_stop.rs`, `resume.rs` |
| `Crash`, `Boot`, `TakeTicket`, `Resume`, `Fallback`, `ColdStart` | the start: `startup.rs`, `resume.rs`, bulk sync in one step |

Bytes are right or wrong: from RPC any contents for the objects named, from peers only the right ones (they are
proven to the root), from our engine any contents that are present or deleted as the metadata says. Each fault may
come at any step, the undo included. `ReadErrors` lets a database read fail, `ParkTimesOut` lets a ledger outlast
the handler's wait, `ForceStart` is `XRPL_FORCE_START=1`.

`VerifiedChain` has a head that moves to the next verified ledger, a run of matches, and stops and starts: a warm
start is on the very ledger left, a cold one on a ledger no older. The refinement maps `head` to `Cur` once the root
has matched (the ledger is verified before `last_synced` says so).

### NativeMirror

| Actions | Code (`native_shadow.rs`) |
|---|---|
| `Begin`, `BuildEnds`, `PollNothing`, `PollNoMirror`, `Install`, `Replay`, `ReplayEnds` | `hydrate`, the build thread, `poll_hydrate`, `install_hydrate` and the replay of `pending` |
| `Unready`, `Propose` | `propose`, `vouch`, `singleton_writes`: the engine's result is any state, right or wrong |
| `OursLand`, `NetworkLands`, `HeldBack`, `Mismatch` | what the loop does with the proposal; `abort` in its two forms, `distrust`, `writer_fails`, the breaker |
| `Queue`, `Follow` | `commit`: `PENDING_CAP`, `reconcile`, `singletons_differ`, `own_state` |

A mirror entry is the value it was decoded from; `Encoded` says what encoding it again gives: the same bytes, others,
or none. `Undecodable` contents cannot be loaded. That keeps the codec's three ways to be lossy without a codec.
`Singletons` are the system objects no metadata names by right.

### QuorumView, Tally and Signing

| Actions | Code |
|---|---|
| `Tally`: `SetUnl`, `Vote`, `OldVote` | `own_validated.rs` `set_unl`, `on_validation`, `vote`, `note_set`, `let_go`, `agreed_set`; `consensus/quorum.rs` |
| `Take`, `HeldBack`, `Land` | ws-sync's two calls at a fetched ledger (`set_negative_unl`, `network_validated`), and what becomes of it |
| `WitnessAnswers` | `witness.rs`: .39 asked for landed ledgers |
| `JudgePending`, `Verdict` (in each of the above) | `judge_pending`, at the end of every call that changes the tally |
| `Signing`: `Hears` | the tally, as `QuorumView` has it |
| `Land`, `OwnLedger` | `own_hash.rs`: the two calls by which the tally learns of a ledger |
| `OnValidation`, `OnAccepted` | `next_to_sign`, `next_own_to_sign`, the loop in `bin/live_viewer.rs` |
| `Restart` | all of it is in memory |

A validator votes for any hash in any order; a sound one names one hash a ledger (`MayName`), a faulty one several
and any set. `Splits` lets sound validators disagree with .39. The float products of `quorum` are exact integers
but for `RoundsUp`, the list sizes whose 0.6 product rounds past the exact one: the theorems hold for any such set.

### PeerFetch, PeerLedgers and PeerState

| Actions | Code |
|---|---|
| `PeerFetch`: `FetchTick` | the driver's loop, `peer_fetch.rs`: start queued jobs, end jobs done or late, expire requests and ask; one pass is one step, each of its loops run to the end by `Passes!Repeat` |
| `Register`, `Unregister` | a peer's connection comes and goes; `Pacer`'s memory of it |
| `Want` | a caller queues a job; what an awaited job and a compared one may lose at `QUEUE_CAP` |
| `Data` | a reply: right, wrong, in part, late, doubled, from a peer never asked; offered to the jobs in their order |
| `PeerLedgers`: `QuorumAt`, `AskHash` (`AskNext`) | `peer_ledgers.rs`: a quorum in the tally; `hash_for`, from the map, from the tally, or by a walk |
| `HeaderComes`, `HeaderFails` | one step of the walk: the header of the hash asked for, its parent learned, the map cut to `CHAIN_KEEP` |
| `PeerState`: `AskState`, `Answers` (`AnswersWell`), `Release` | `peer_state.rs`: `next_batch` with its stubborn positions, `offer` of any part of a reply, right or wrong nodes, tickets given back, peers set aside |
| `Sync`, `Save`, `Complete` | the leaf file's sync, the checkpoint after it, the recheck at the end |
| `Interrupt`, `Kill`, `ResumeFetch` | `bin/peer_state_sync.rs`: the end of the process at any step, the file cut to the checkpoint's length |
| `Convert`, `WriteBatch`, `WriteMark`, `MoveAside` | `cold_start.rs`: the store from the leaf file, the bookmark with the last batch, the markers, the old store put aside |

A tree is a set of positions, `Over` what lies above each; a proven node is a position and whether its bytes are
right. Time is counted in ticks, and `MaxIdle`, `MaxLate`, `MaxConns` bound what may be waited, come late, connect.

### BulkSync

| Actions | Code |
|---|---|
| `NetCloses`, `StartNode`, `StopNode` | the network goes on; a start and its choice between download and backfill; a stop at any step |
| `PullPage`, `PullFails` | a worker of `bulk_sync.rs`: a page in its range, the last one short; `MAX_ERRORS` failures end it |
| `Build`, `FinishDownload`, `HandOver` | the builder that takes leaves from the channel while the workers run, into the tree in memory and, unless the batch's write fails, into the store; the check of the tree's root; the markers, and the start of ws-sync in `bin/live_viewer.rs` |
| `BeginBackfill`, `FillOne`, `FillRound`, `StartFromNewest` | the backfill of a later start, `incremental_sync.rs`, `GIVE_UP` failures skipping to the newest ledger |

The store `db` holds a version of each key, `Version(k, s)` is that of the entry in ledger `s`, 0 if it has none: a
second download that pins a later ledger goes over the first one's entries, and deletes none. `before` and `unwritten`
are history: what was there when the process started, and what a write lost.

### UnlLists, ConsensusTracking, Mempool, SignedDays

| Actions | Code |
|---|---|
| `FetchVerified`, `LoadFallback` | `unl_fetch.rs`, `unl_verify.rs`: sources in order, a list's checks, the sequence gate and the file it is kept in, the stored list |
| `PutInUse`, `UnlRestart` | `unl_fetch.rs`, `unl_refresh.rs`: the second file, then the list handed out; the process may die between the two, in either, or before the list is handed out. `FileAfter` is what a plain `std::fs::write` leaves: all, what was there, or nothing that can be read |
| `Publish`, `UnlTick` | a publisher signs a list; lists expire |
| `OnTransaction`, `OnCloseTrigger`, `OnPeerProposal`, `Converge`, `NextRound` | `consensus_engine.rs` and `consensus/*`: phases, disputes, thresholds by round; `NegotiatedTimes` is `consensus/close_time.rs` |
| `Add`, `RemoveSeen`, `RemoveQueued`, `Expire` | `mempool/queue.rs`: the removal's two locks are two steps, for each caller |
| `ShouldRelay`, `PoolTick` | `mempool/relay.rs`: the filter and its clean-up every `CLEANUP_EVERY` calls |
| `signed`, `LeftUnsigned`, `Midnight`, `StopAndStart` | `independence_days.rs`: a signature counted, a ledger left, the day's turn, a stop with the signatures not yet on disk and a start with other settings, that may not be able to read the file. `save` may fail, and leaves the file as it was |

### ConsensusRecord

`record_message`, `record_unl` and `record_header` put an event in the channel or count it as turned away; `HandleMessage`,
`HandleUnl` and `HandleHeader` are the writer's thread. A `flush` is `WriteRound`, or one of the failures `OpenFails`,
`RotateFails` (any number of the renames done) and `LineFails` (a line cut short); `RecorderRestarts` keeps only the
files. A line is a record: rows by place in the list in force, rows of keys not on it, the counts. What a failed flush
takes with it is counted in `lines_lost`, which the code does not keep: it is what `NothingUncounted` is stated with.

### FlagLedgers

`OpenNext` starts a ledger and turns the Negative UNL at a flag ledger; `UNLModifies`, `EnableAmendments` and `SetFees` are
the pseudo transactions (`tx/pseudo.rs`), taken or refused; `CloseLedger`. `GuardReads` is
`amendment_guard.rs`, `SignsVote` the amendments a validation of a voting ledger carries (`consensus/amendment_vote.rs`, `validation.rs`).

### DirectoryPages, LedgerBuild, ShaMapTree, FlatHasher

| Actions | Code |
|---|---|
| `DirInsert`, `DirRemoves`, `EmptyDirDelete` | `ledger/directory.rs`: with the page's number or by a search of the chain, root kept or not; a directory as books or as owners order it |
| `LedgerFiled`, `WalkBegins`, `Attempt`, `PassEnds`, `Judge`, `NextLedger` | `native_order.rs`, `native_apply.rs`: the network's build of a set and its filed metadata, right or with `MaxWrong` codes changed; our build in our own order, pass by pass; the verdict |
| `insert`, `insert_hash_only`, `delete`, `root_hash`, `invalidate_caches`, `Clone` | `shamap/tree.rs`: with each node's kept hash, so that one not cleared shows |
| `Write`, `update_and_hash`, `update_only`, `snapshot_hasher`, `check_shadow_hash`, `invalidate_tree` | `state_hash.rs`: the flat buckets, the clone handed to another thread, the root from a clone and an overlay |

Each is compared with a reference: `Merkle` (the tree of a map, by its definition), `Spread` stores only, and for the
build the results themselves.

### The native engine

`LedgerView` has the ledger and its owner directories; the modules after it each add a family of transactions, as
operators from a ledger and a transaction to a result code and the ledger after; `Transactor` is the pipeline around
them, `Engine` the actions: one for each of 48 transaction types, and `CloseLedger`.

| Module | Code |
|---|---|
| `LedgerView` | accounts, objects, owner counts and reserves: `ledger/{transactor,fees}.rs`, `tx/{account,offer}.rs` |
| `AccountTxs` | `tx/{account,ticket,credential,delegate}.rs`, and in `tx/misc.rs` the keys, signer lists, deposits |
| `Tokens`, `Payments` | `tx/{trust_set,mpt}.rs`, the clawback in `tx/misc.rs`; `tx/{payment,direct_step}.rs` without paths |
| `Custody` | `tx/{escrow,check,pay_channel}.rs` |
| `NftPages`, `Nfts` | `ledger/nftpage.rs`, `tx/ledger_state_fix.rs`; `tx/nftoken.rs` |
| `Registers` | `tx/{oracle,xchain}.rs`, the DIDs and domains of `tx/misc.rs` |
| `Transactor` | `ledger/{transactor,apply}.rs`, `native_apply.rs`, `tx/{dispatch,batch,delegate}.rs`: preflight, preclaim, fee, sequence or ticket, the rollback of a claimed failure |

Amounts are whole numbers, transfer rates halves (2 is "no rate", 3 is half as much again). An instance is a *subject*:
a first ledger and the transactions tried on it (`MCEngine`, sixteen of them). History keeps what the ledger forgets and
the properties need: the coins burned, the
smallest sequence an account may come back with, ids already used, accounts whose token pages are torn and those deleted
with some left, and what bridges' transfers added to the XRP there is or took from it (see the open points).

## The runs

Twelve runs. `CHECK_DEADLOCK FALSE` throughout: the chains are bounded, and a process may be halted, stopped with no
start left, or done.

| Run | Instance | Question | Distinct states |
|---|---|---|---|
| `rpc` | `WsSync`, 4 ledgers, 3 strikes, gap 1, 3 starts | wrong bytes, faults, rollbacks, crashes and restarts from the RPC source | 425,606 |
| `peers` | 3 ledgers, 2 strikes, 3 starts, forced starts, time-outs | stops that time out, starts on torn stores; `wallet_count` exact; the refinement | 55,290 |
| `mirror` | `NativeMirror`, 8 ledgers, queue 2, bad keys 1, 2 failures in 3 ledgers; a directory of 5 objects, 2 a page, 3 pages; 10 transactions in sets of up to 5; flag ledgers every 2, 2 validators, 2 amendments; trees of 4 keys | the mirror, the queue, the breaker and "all our own"; what a ledger is made with | 562,138 |
| `tally` | 3 validators, 1 faulty, 2 hashes, 2 ledgers, 1 held | one quorum, no false alarm | 497,510 |
| `tally_long` | 2 validators, 4 ledgers, 2 held, `GIVE_UP` 2 | caps, waits, verdicts after letting go, the refinement | 119,714 |
| `signing` | 3 ledgers, all modes, contested quorums, a restart | forward, never against a quorum, nothing passed over | 1,672,811 |
| `signing_stalls` | 3 ledgers, ws-sync lands 2, `FairSpec` | with the breaker the signing gets to the end | 2,952 |
| `live` | the loop with 2 ledgers; 2 jobs for 2 peers, one lying and leaving; 5 ledgers and a map of 2; a tree of 4 positions, a sound and an unsound peer, 1 kill | what must be done in the end, and may not go wrong on the way | 30,203 |
| `node` | 2 workers over 4 keys, 2 starts, writes that fail; 2 publishers, one pinned, 3 sequences, 3 starts, 2 failed writes; 4 proposers, 3 trusted; 3 transactions in a queue of 2; a channel of 2, files of 2 lines, 4 messages, 1 fault; 3 days, 4 signatures, saved by twos, 1 stop, 1 failed save | the parts beside the loop | 664,794 |
| `ledger` | the engine on sixteen subjects, 5 or 6 transactions each | XRP, holdings, control | 207,031 |
| `signing_restart`, `download_marks` | 3 ledgers; the start of `node` | the two disagreements | violations |

Where a run holds several parts, a property of its own module may be a conjunction: `DownloadSound` is `EachLeafOnce`,
`NothingForgotten`, `StartableIsWhole`; `FetchSound`, `WalksRight`, `RecordOK`, `DaysOK`, `StartSound`, `ListsSound`,
`RoundsSound`, `PoolSound`, `FlagLedgersOK`, `HoldingsAccounted` and `FormsSound` likewise. Each conjunct stands, with a
comment, beside the module's actions.

**Bounds, and why they are enough.**
- Ledger loop: two objects and two values with `Absent`: one object changes, is created or deleted while the other
  does not, and there is always a wrong value. The refinement and the rollback compare whole states, so a third object
  adds no case. Four ledgers and three strikes let a ledger fail, be held, be redone, land, and the halting streak be cut
  short by a match and start again. Three starts give cold, warm, and warm again after a crash in the warm one.
- `mirror`'s chain is chosen ledger by ledger: contents that do not decode, do not encode, encode otherwise; objects
  created, deleted, and created and deleted in one ledger; a system object that changes; three ledgers in a row that
  our engine can fail on, with a window of three and a limit of two. A queue of two overflows on the third ledger.
  Three pages of two give a first, a middle and a last page, a split page order and an emptied middle; three-nibble
  keys that share none, one and two nibbles give every shape of a split and a collapse.
- One faulty validator of three is as many as the quorum allows; a second negative-UNL setting makes a quorum pass
  under one and fail under the other. One sequence held of two, and two of four, make letting go happen with a
  verdict outstanding, before it and after it.
- `Signing` needs `KEEP >= CATCH_UP + GIVE_UP`, as the code has it (`own_validated.rs` keeps 256, catches up 64 and
  gives up after 8): the small values keep that.
- `live`: a tree with an inner position over one leaf and a leaf of its own lets a reply hold a part of it, and a
  checkpoint fall between the two leaves. A map of two over five ledgers makes walks longer than what is kept.
- `node`: files of two lines with one kept aside rotate within four messages; one failing write falls before, between
  and after the rotations. Of four proposers three are trusted, so that a proposal the others back does not pass.
- `ledger`: each subject's accounts are as many as its objects have parts (owner, other side, a stranger), and its
  transactions come in any order and number up to the bound, with ones whose preconditions fail. The reserve is 2, a unit
  an object, the fee 1: balances at, below and above each limit are a few units apart.

**Fairness**, stated where a run checks that something is done in the end, and no stronger than the code's scheduling:
- *Ledger loop* (`live`): the network keeps closing ledgers (`WF(LedgerClosed)`), the loop's tokio task keeps running,
  taking some step that is no fault (`WF(LoopStep /\ ~Fault)`), the handler's task too (`WF(HandlerStep)`), and the faults
  of the source and database end. A wrong proposal of our own engine is no such fault: the loop must survive it for ever.
  The gate is a tokio mutex, which is FIFO, so the handler is not starved; weak fairness is enough because the
  loop parks for good once `stop` is set.
- *Driver* (`live`): only its clock (`WF(FetchTick)`). Peers may stay silent: the deadlines end every job.
- *Walk* (`live`): every request is answered or fails (`WF`), the loop asks again and again (`SF(AskNext)`), and some
  header of the ledger asked for comes if it is asked for again and again (`SF(NextHeaderComes)`).
- *State* (`live`): a sound peer asked again and again is asked and answers with what it was asked for (`SF`), what is
  asked in vain is given back (`SF(Release)`), the process goes on saving, completing, resuming.
- *Start and rounds* (`node`): the workers, the builder and the backfill run (`WF(BulkStep)`); the consensus timer fires
  (`WF(Converge)`), the condition of `SettledIsAccepted` being that the proposals have settled.
- `signing_stalls`: a quorum comes for every ledger, each landed ledger is told (`WF(OwnLedger)`), validations keep
  waking the loop (`WF(OnValidation)`), and the breaker, which opens when time passes without a signature of our own,
  opens again and again while something is to be signed (`SF(BreakerOpens)`). ws-sync may stop: no fairness on `Land`.

Every property is paired in PROJECT.json with a mutant of the code that breaks it within its run's bounds; the
mutated forms stand beside the definitions they replace, marked "Mutant".

## What is proved

Eight modules hold theorems; each is for every value of the constants that satisfies the modules' named assumptions
(which TLC evaluates on its runs): every chain, set of objects, tree, list, cap and bound. Each proof has the same three
parts: an inductive invariant, a lemma for each group of actions that they keep it, a theorem that the property follows.

**`WsSyncProofs`** (`ConstantsOK`). The inductive invariant is built up in layers, each preserved by every action:
- `TypeInv`: the types, the batch and its undo included, and that `target` is ahead of `last_synced`.
- `GateInv`: while the process runs, the gate is ws-sync's exactly between `EnterLedger` and `Leave`.
- `StoreInv`, the heart: what the store, bookmark and hasher hold at each point of a ledger. Before the write the
  store is the last verified ledger; after it, putting `undo` back gives that ledger; after the rollback the hasher
  is right but for the undone keys. `StoreVerified` alone is not inductive, as it says nothing of a ledger in flight.
- `LiveInv`, `HeadInv` (together with the two first: `ChainInv`): what the process, its ticket and the one being
  resumed remember is the last ledger verified. From them each step is a step of `VerifiedChain` or a stutter.
- `SigInv`, `MarkInv`, `TicketInv`, `RunInv`, `WalletInv`, one for each of the remaining theorems.

| Theorem | Assumes |
|---|---|
| `TypeCorrect`, `ImplementsChain`, `StopFreezesStore`, `RunIsHonest`, `TrialNeverCounts` | nothing more |
| `StoreIsVerified`, `HasherIsCurrent`, `TicketIsForStore` | `~ReadErrors`: the database reads back what it was given |
| `MarkerMeansVerified` | also `~ParkTimesOut`, `~ForceStart` |
| `WalletsAreCounted` | `Peers`, `~ReadErrors` |

Those assumptions are needed: without them TLC finds the property violated (see the open points).

**`NativeMirrorProofs`** (`MirrorConstants`). `IInv` = `TypeOK`, `PhaseInv` (what each point of the loop implies),
`BuildInv` (a mirror or a build, not both; a proposal only in a mirror), `QueueInv` (every ledger between the snapshot, or
the mirror, and the last landed one is in the queue). From it follow `NeverGaps` and `ReplayKeepsMirror`, and by one more
induction `MirrorFollows` (`~ScanErrors`). `FailInv` (the failures outside the window are the ones forgotten) gives
`FailsOnce` and `BreakerWorks`; `OwnInv` (bytes that had the state hash are right wherever they or the network wrote)
gives `OwnIsOurs`. All hold from either source, though the run takes `Peers = TRUE`.

`BuildIsOK` is `BuildOK` of `LedgerBuild`, a part of `FormsSound` in the run (`BuildAssumption`; `SaltAssumption`: the
exclusive or with a salt keeps accounts apart). Its hard part is `BuildAgrees`: rippled's build runs over the whole set, ours over what was filed of it.
`Running` is the network's invariant within a pass, `Grows` says what a stretch of one adds; both are proved for passes of
any length (`PassRuns`) and for the three of them (`NetRuns`). `BuildHolds` is our walk's own invariant: `Parted` (each
transaction is in one place), `Lined` (what waits is before what is to be tried), `Counted` (a bound on the attempts),
`Mirrored` (an account's next sequence is past all it built); with it `NothingLost` and `WrongIsSeen` follow. `Matching` relates
the two: our walk stands where some step of the network's same pass stood (`StandsAt`), since the steps between tried only
what never applied and so changed nothing (`Skips`), and a `tef` for us would have been one for the network (`Closes`).
That both end their passes together is `PassEndsMatches`, where the rule for certain retries is used; `BuiltAsFiled`, that
two lists with the same places in the same order are one list, turns this into the verdict.

**`TallyProofs`** (`TallyConstants`). `Evidence` ties the votes counted, and every hash that ever reached the quorum, to
who named what and under which negative UNL; `Gone` says that a quorum let go was older than `KEEP` held sequences.
`QuorumIsUnique` is a counting argument: two quorums, under whatever two negative UNLs, together count more validators
than there are outside the faulty (`FewFaulty`), so that they share a sound one, which names one hash. `HealthyAgrees` and
`TallyImplementsView` build on it; they assume `OneList` (the list does not change in the run) and `FewFaulty`.
`TypeCorrect`, `NeverShort` and `NeverWaitsLong` assume nothing more.

**`SigningProofs`** (`SigningConstants`). `TypeOK` and `MadeAsTold` (a ledger told to the tally as our own is one ws-sync
landed, from the store's own ancestor) carry the rest. `SignedInOrder` (the log of a run grows by sequence, and
`last_validated_seq` is its end) gives `NeverSignsBack`; `NeverSignsWrong` looks at the three ways a ledger is chosen.
`PassesNoneOver` needs `WitnessKept`: a ledger still in the window has not had its witness let go, which is where
`KEEP >= CATCH_UP + GIVE_UP` comes in.

**`NodeProofs`.** Four small ones. `PoolKeepsItsPromises` (`PoolInv`: the relay filter and the history of relays agree
until the filter may forget). `ListsVerifyAndGoForward` (`UnlInv`: what is half written, stored and was last
in use is a pinned publisher's; with one pinned, `NoneNewer`: while no write of the sequence is in doubt, neither the
stored list nor the last in use is newer than the sequence written). `StartKeepsItsPromises` (`StoreInv`: what the builder
has is in the store in the pinned ledger's version or its write failed, and any other version there was there before;
`BulkInv`: workers and channel are done with once a download is over, what is applied has no gap).
`RoundsKeepTheirPromises`: what four in five propose passes every threshold up to the eighth round's and what they
leave out passes none, since two fifths of the list back the one and at most one fifth the other (`BackersOfAgreed`,
`ThresholdBetween`, `UpdatedIsAgreed`); and more than half of a finite set cannot be named twice (`MostNamed`).

**`LedgerFormProofs`.** The flag ledgers (`FlagConstants`): `NunlInv`: who is to join or leave the Negative UNL was asked to in this interval and
fits the list; `AmendInv`: enabled amendments stay, the guard's reading and the vote are of the ledger they name.
`DirectoryIsSound` (keys are numbers in their order, a page takes at least one entry) is `DirectoryOK`, which the run
checks as a part of `FormsSound`. The properties speak of the chain from the root, which a step changes as a whole; the
invariant `DirInv` says the same page by page, so that a step disturbs it at two or three pages only. `Ring`: the links
pair up, and no page lies between two that follow each other, so the pages follow in the order of their numbers.
`Holds`: an entry is on the page its object recorded. `Ordered`: the order of arrival is that of page numbers, and on a
page that of its entries. `EmptyLast`: only the page of old may be empty, and only while it is the last; this is what an
insertion needs, that never makes a page after an empty one, and a removal, that lets two pages go at once.
`UnlinkedKeepsRing` and `LinkedKeepsRing` are the two changes of the ring, `RemovedIs` the ways a removal may
end, and `ChainIs` leads back: the chain meets all the pages, each once. With the root's back link left alone when the
last page goes (`UnlinkedBetween`) the ring's first conjunct is what fails.

**`PeerProofs`.** `DownloadKeepsItsPromises` (`StateTree`, `StateNames`): `Books` says that every wanted position is in
exactly one place (queued, in flight with a live ticket, or set aside), `Filed` that file and frontier, in memory and at
the checkpoint, partition the tree's leaves. That a resume from any checkpoint meets `Filed` again is the heart.
`WalksKeepRight` (`LedgerConstants`): `LedgersInv` follows a walk down the chain and what the map has learned on the way;
a header is read again only if the map dropped it, so by a walk longer than `CHAIN_KEEP`.
`FetchesAreSound` (`FetchConstants`): each of the driver's four loops (offer a reply, start, finish, ask) keeps an invariant
of its own from turn to turn (`OfferInv`, `StartInv`, `FinishInv`, `AskInv`); `TurnsExist` and `TurnsKeep` do the induction
for all four, and `PassKeeps` puts a pass together. Of the state, `JobsSound` says that each job is in one place, once, and
`PaceSound` that no request is later than its peer, still on the same connection, was last asked: without the connection's
number a peer that comes back at once would refute it. `TakenIsProven` is where the order of the positions is used.

**`RecordProofs`.** `DaysAreCounted` (`DaysConstants`): the days in memory are the tally of the signatures it knows
(`known`), those on disk of the ones that were in it when it was written (`filed`), both compared with what was really
signed (`said`); the signatures unknown are bounded through the ones signed since the last write that went through.
`RoundsAreRecorded` (`RecordConstants`):
`FilesRead` says that in each file the last table line before a round is the list the round was written with, torn lines
included; `ReadyInUse` that the next round's table is on the file being written or due; `NewRows` that what waits has not
been seen. `CountInv` is the bookkeeping: it rests on lemmas about sums over sequences (`SumsExist` to `SumOneBefore`) and
on `FlushCounts`, that a flush puts its batch into a line or into `lines_lost`, however its write or rotation fails.

**Only model-checked, and why.**
- Liveness: `SignsTheLast`, `LiveGetsThere`, `NodeGetsThere`. Fairness and ENABLED are out of the prover's reach.
- `FormsSound` but for its directories (`DirectoryOK`) and its build (`BuildOK`): `ShaMapTree` and `FlatHasher` use
  RECURSIVE operators; what they compute is an induction over data.
- `XrpConserved`, `HoldingsAccounted`, `AccountsKeepControl`: sums over an unbounded ledger that any of 48 transactions
  may move, through functions built with `:>` and `@@`, which the prover has no definition of.

## Disagreements found and open points

Two, each the violation a run finds, listed under `findings`:

1. **`signing_restart`** (`bin/live_viewer.rs:1222`). The last ledger signed is kept in memory only: after a restart
   the validator may sign an older one than it had. With own hashes it cannot (`SignsForward`), as the store is never
   behind the ledgers our engine made.
2. **`download_marks`** (`bin/live_viewer.rs:988`). The markers of a complete download are written by the caller
   whatever the root's check gave, while `bulk_sync.rs:6` says the root is verified first; `bulk_sync.rs:394` writes
   its own marker for a matched root only.

Points met while modelling, which no run states:

*Ledger following*
- `ws_sync.rs:391`: from the RPC source `wallet_count` moves before the ledger is written, so that a ledger held or
  rolled back is counted again each time it is driven. From peers the count is proved exact.
- `ws_sync.rs:1809`: a pre-image that cannot be read counts as an absent object, and the rollback deletes it.
- `ws_sync.rs:381`: a held ledger is told to the tally again at each attempt and counted again in its statistics.
- `bin/live_viewer.rs:728`: the clean-shutdown marker is written although the stop timed out with a ledger in flight.
  The missing ticket still makes the warm start refuse (run `peers`), so only the marker's meaning suffers.
- `native_shadow.rs:2212`: an entry the scan cannot read is passed over and not noted as bad; with `ScanErrors = TRUE`
  TLC finds `MirrorIsLedger` violated. Our bytes may then fail on a ledger; the state hash still guards the store.
- `bulk_sync.rs:333`, `:342`: a failed `db.write` is only logged, while the tree whose root is checked has the leaves:
  the entries are missing from a store called verified, the very gap its header (lines 10-19) says is caught. Nor is
  anything wiped when a later start pins a newer ledger, so entries that ledger has not stay (an unclean start is
  refused unless `XRPL_FORCE_START=1`, `bin/live_viewer.rs:517`). `VerifiedIsWhole` makes both exceptions, and no other.
- `bin/live_viewer.rs:923`: ws-sync starts from the ledger validated by then, not from where the backfill ended: ledgers
  closed in between, or left by a backfill that gave up, are passed over. No property covers it. Also,
  `incremental_sync.rs:651` stores the target as synced though it gave up; `incremental_sync.rs:742` deletes a key that
  was deleted and created again in one ledger.
- `peer_fetch.rs:646`: an honest header that comes after another peer's is ignored, and its sender charged a miss
  (`:98`); a new connection clears a bench.
- `peer_state.rs`: a checkpoint is written after a leaf's append failed, without that leaf; after `MoveAside` an old
  ticket and markers remain.

*Signing*
- `own_validated.rs:125`, `:157`: after a refresh, votes held under the old list still count, so `OneQuorumPerLedger`
  is proved for one list only.
- `own_validated.rs:428`: after a start, a ledger of the window older than the first one this process lands is waited
  for though it never will be landed; the window's move, `GIVE_UP` ledgers on, ends the wait.
- `unl_verify.rs:232`: with two pinned publishers the gate keeps the sequence of one only; `unl_fetch.rs:297`: a crash
  between the two files leaves a stored list that its own gate refuses until the next fetch.
- `unl_fetch.rs:204`: the last good sequence is written over in place and an error only logged. After a write that broke
  off the gate finds no sequence and takes any list that verifies, after one that failed it compares with an older one:
  a site that serves an old list again can then take the validator back. `ListsGoForward` holds but for that time
  (`unsure`); a list that does not verify is never taken.
- `consensus/close_time.rs:48-59`: of two close times with the same count the order of a `HashMap` decides, which differs
  from process to process; `SameCloseTime` claims nothing of a tie.
- `consensus/threshold.rs`: from the ninth round on the threshold (95%) is above the four in five that accept a set, so
  that a tracker may then drop from its position what others accepted; `OthersFollow` is about the rounds before.
- `amendment_guard.rs`: `blocks_own_hash` is called nowhere. The amendment tracker, the fee vote and the close-time votes
  are not wired in production (only `next_resolution` and `close_agreed`, `own_hash.rs:130`); of `consensus_engine.rs`
  only `on_transaction` and `on_close_trigger` are called. An amendment absent from the votes keeps its streak;
  `participants_needed(2, 75)` is 1.
- `independence_days.rs`: a crash loses up to 63 signatures, a borrowed one among them, so that the day can count; a
  failed save (`:167-175`, nothing logged or repeated) up to 64 more; a file that cannot be read or parsed (`:158`) is
  taken as empty and then written over. Its header (lines 6-12) makes no such exception. `LittleIsLost` is the bound.
- `consensus_record.rs`: a line cut short swallows the table line written next, so later lines are read with an older
  table (its header comment, lines 20-22, says otherwise), and `RecordOK` claims nothing of the lines up to the next table; a failed write takes the batch and the swapped count with it;
  keys noted by an unwritten line are never listed in that file.
- `mempool/queue.rs:79`: `remove` and `add` of one transaction can leave it remembered as seen and not queued. The run has one
  caller, and no property covers this.

*Engine* (all paths within `crates/xrpl-ledger/src`)
- `tx/escrow.rs:1054`: when an issuer cleared its rate the finish keeps the old one (comment at `:988`).
- `tx/payment.rs:2461`: a direct partial payment of an issued currency does not check DeliverMin (comment at `:3970`).
- `ledger/nftpage.rs`: emptying the last page while an earlier one exists deletes it, against "every owner with tokens
  has a max page" (`:9`); `:14` says that splitting is not done, `:161` does it and loses the token if it fails.
- `tx/account.rs:405-413`: AccountDelete asks for the last page only, "so that one key answers 'owns any NFT'": an account
  whose last page was emptied and deleted while an earlier one stood can be deleted. Its pages stay, unpaid for, also
  once an account is made again at the address (subject `leaving`); `HoldingsAccounted` makes the exception for such
  accounts (`outlived`) and for no other.
- `tx/xchain.rs:109`, `tx/offer.rs:1768`: a bridge's transfer debits what there is and credits in full, so a commit, a
  door's payment or a reward above the balance makes XRP; one to an account that is not there loses it. `XrpConserved`
  has these differences on its right-hand side (`bridged`). `CreateBridge` checks no reserve; `tx/nftoken.rs:96` clamps at zero.
- `tx/misc.rs:298` and CheckCash use constants for reserves, not FeeSettings; `tx/misc.rs:233`: the removal of an old
  signer list gives back one unit only. `tx/pay_channel.rs:152` does not count a spent ticket. AccountDelete to oneself
  and checks and channels to oneself are not refused.
- `ledger/apply.rs:118` does not call `preclaim_common`. `native_apply.rs:338` checks the fee before preclaim, the model
  after; with a fee of one unit there is no difference.
- `shamap/tree.rs`: a deletion may leave a leaf as the root, where `tx_tree.rs:69` has always an inner node;
  `shamap/diff.rs:66` (used by nothing) tells a kept key as removed and added; `FlatHasher`'s root is the network's only
  for stores that are spread over the buckets' ancestors, as any real one is (`Spread`).
- The prefetch stops at eight pages as if none followed (`succ_walk.rs`), starts a payment's paths from another issue
  than the payment (`offer_books.rs`), and takes a failed fetch for an absent object (`ffi_engine.rs:180`).

## What is not modelled

Left out of the modules above:
- *Disk*: a batch given to RocksDB survives a crash of the process. A power loss with an unsynced log is out.
- *The network's word*: the `account_hash` an RPC server gives is taken to be right; hashes do not collide.
- *WsSync*: the FFI comparison, the statistics, the dead fast path. The bulk download is one verified step there;
  `BulkSync` has its steps.
- *NativeMirror*: phase A (the shadow that only compares), the canary, burned fees. Low memory or a thread that does not
  start is "no build"; the cooldown, any delay.
- *Tally*: times, leads and counters; partial validations and those of unlisted keys, which change nothing; the
  readers that serve the peer source (`first_quorum_from`, `newest_quorum`).
- *Signing*: encoding and keys; the gates give any outcome; choosing and signing are one step, as the loop does not
  wait in between; the va-05 hard gate (off by default).
- *PeerFetch*: the compare of two fetched ledgers, statistics. *PeerState*: dialling, the target's choice.
- *ConsensusRecord*: the cap on noted keys, the fields of a row that no other part reads.
- *Engine*: offers, order books, AMMs, vaults, paths and anything on decimals; metadata and threading; the fields that are
  only stored; cryptographic conditions. `tx/offer.rs`, `tx/amm*.rs`, most of `tx/payment.rs` and `flow/*` are
  most of the crate by size, and their difficulty is the rounding of decimal amounts, which TLC cannot enumerate.

Not modelled at all, with the reasons in PROJECT.json: the FFI engine and its comparison, the HTTP interface, sockets
and framing, cryptography, offline tools (`differential_probe`, the fuzzers), presentation.

## What is left

- Proofs: of `AccountsKeepControl` what does not rest on sums (`KeyLeft`, `NumbersSpent`).
- Models: the crossing of offers and the two passes over a strand, on whole numbers (`tx/offer.rs`, `flow/*`,
  `tx/amm*.rs`); `shamap/sync.rs`, should it come into use; the overlay's duplicate filter.
