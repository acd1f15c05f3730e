------------------------------- MODULE PeerState -------------------------------
(***************************************************************************)
(* A ledger's whole account state fetched from peers into a leaf file, with *)
(* checkpoints to resume from (peer_state.rs, bin/peer_state_sync.rs), and *)
(* the file made into a store that a warm start takes (cold_start.rs).      *)
(*                                                                         *)
(* One task drives it; peers answer in part, late, twice or never, and the *)
(* dishonest ones wrongly; the process may be stopped or killed anywhere.  *)
(* A peer has one request (one ticket) out at a time, so that a ticket is  *)
(* named by its peer.                                                      *)
(***************************************************************************)
EXTENDS Integers, Sequences, FiniteSets, SequencesExt

CONSTANTS
  StatePeers, Sound,   \* peers, and those that answer rightly
  Places, Root,        \* the positions of the state tree
  Over,                \* the positions above a position
  Leaves,              \* the positions that are leaves
  STUBBORN,
  MaxKills,            \* times the process is killed or stopped
  NoTicket

\* A place is below its parent and what its parent is below; nothing is below a leaf.
ASSUME StateTree ==
  /\ IsFiniteSet(Places) /\ Root \in Places /\ Leaves \subseteq Places
  /\ Over \in [Places -> SUBSET Places] /\ Over[Root] = {}
  /\ \A p \in Places \ {Root} : \E q \in Over[p] : Over[p] = Over[q] \union {q}
  /\ \A p \in Places : p \notin Over[p] /\ Over[p] \intersect Leaves = {}
  /\ \A p \in Places : \A q \in Over[p] : Over[q] \subseteq Over[p]

ASSUME StateNames == STUBBORN \in Nat /\ Sound \subseteq StatePeers /\ NoTicket \notin StatePeers

VARIABLES
  sync_phase,  \* "state": fetching, "saving": the file is synced, "down", "proven"
  frontier,    \* StateTreeFetch.expected: wanted, their parents proven
  queued,      \* of those, in no request (available and stubborn)
  inflight,    \* position -> the ticket that asks for it
  tickets,     \* peer -> the positions its request names
  misses,      \* position -> replies with room that left it out, to STUBBORN
  banned,
  file,        \* the leaf file: what was appended
  on_disk,     \* how much of it is flushed and synced
  checkpoint,  \* the length and the frontier saved, or none
  leaf_store,       \* leaves in the store made from the file
  marks,       \* bookmark, ticket and markers beside it
  kills

state_vars == <<sync_phase, frontier, queued, inflight, tickets, misses, banned, file, on_disk,
                checkpoint, leaf_store, marks, kills>>

fetch_state == <<frontier, queued, inflight, tickets, misses>>

Below(S) == {p \in Places : p \in S \/ Over[p] \intersect S # {}}
LeavesBelow(S) == Below(S) \intersect Leaves
Kids(p) == {c \in Places : p \in Over[c] /\ Over[c] \ {p} \subseteq Over[p]}
Depth(p) == Cardinality(Over[p])

NoCheckpoint == [len |-> 0, frontier |-> {Root}]

-----------------------------------------------------------------------------
(* The fetch *)

FetchFrom(f) ==
  /\ frontier' = f
  /\ queued' = f
  /\ inflight' = [p \in Places |-> NoTicket]
  /\ tickets' = [a \in StatePeers |-> {}]
  /\ misses' = [p \in Places |-> 0]

StateInit ==
  /\ sync_phase = "state"
  /\ frontier = {Root} /\ queued = {Root}
  /\ inflight = [p \in Places |-> NoTicket]
  /\ tickets = [a \in StatePeers |-> {}]
  /\ misses = [p \in Places |-> 0]
  /\ banned = {}
  /\ file = <<>> /\ on_disk = 0
  /\ checkpoint = NoCheckpoint
  /\ leaf_store = {} /\ marks = {}
  /\ kills = 0

Stubborn == {p \in queued : misses[p] >= STUBBORN}

\* next_batch: stubborn positions first, then the others, of the shallowest depth only;
\* as many as a reply should hold.
AskState(a) ==
  LET from == IF Stubborn # {} THEN Stubborn ELSE queued
      level == {p \in from : \A q \in from : Depth(p) <= Depth(q)} IN
  /\ sync_phase = "state"
  /\ a \notin banned /\ tickets[a] = {}
  /\ \E ids \in {level} \union {{p} : p \in level} :
       /\ ids # {}
       /\ queued' = queued \ ids
       /\ inflight' = [p \in Places |-> IF p \in ids THEN a ELSE inflight[p]]
       /\ tickets' = [tickets EXCEPT ![a] = ids]
  /\ UNCHANGED <<sync_phase, frontier, misses, banned, file, on_disk, checkpoint, leaf_store, marks, kills>>

\* offer: which positions a reply's nodes settle.  A node is taken at a wanted position,
\* and below one that was, when it is the one its parent names.
Settled(nodes) ==
  {n.at : n \in {k \in nodes : /\ k.right
                               /\ k.at \in Below(frontier)
                               /\ \A q \in Over[k.at] \intersect Below(frontier) :
                                    [at |-> q, right |-> TRUE] \in nodes}}

\* Mutant: what a reply settles is noted, its other nodes' positions are not wanted anew.
FrontierForgets(done) == frontier \ done

\* Wanted after a reply: what was and is not settled, and the children of what is.
FrontierAfter(done) == (frontier \ done) \union ({c \in Places : \E p \in done : c \in Kids(p)} \ done)

Rejected(nodes) == {n \in nodes : ~n.right /\ n.at \in FrontierAfter(Settled(nodes))}

\* offer of a reply's nodes, then settle of the peer's ticket.  A position whose node is
\* refused is wanted anew; what the ticket left unanswered is queued again, with a miss
\* when the reply had room for it.
Reply(a, nodes, full) ==
  LET done == Settled(nodes)
      wanted == FrontierAfter(done)
      refused == {n.at : n \in Rejected(nodes)} \intersect frontier
      mine == {p \in tickets[a] \intersect wanted : inflight[p] = a} \ refused
      missed == IF full THEN {} ELSE mine IN
  /\ frontier' = wanted
  /\ queued' = (queued \intersect wanted) \union (wanted \ frontier) \union refused \union mine
  /\ inflight' = [p \in Places |-> IF p \in mine \union done \union refused THEN NoTicket ELSE inflight[p]]
  /\ tickets' = [tickets EXCEPT ![a] = {}]
  /\ misses' = [p \in Places |-> IF p \in done \union refused THEN 0
                                 ELSE IF p \in missed /\ misses[p] < STUBBORN THEN misses[p] + 1
                                 ELSE misses[p]]
  /\ file' = file \o SetToSeq(done \intersect Leaves)
  /\ banned' = IF Rejected(nodes) # {} THEN banned \union {a} ELSE banned

\* A reply to the request out, or a late one to an earlier: any nodes of the tree.  A
\* peer that is not sound sends a wrong one among them.
Answers(a) ==
  /\ sync_phase = "state" /\ a \notin banned
  /\ \E full \in BOOLEAN, ps \in SUBSET Places, bad \in {{}} \union {{p} : p \in frontier} :
       /\ bad # {} => a \notin Sound
       /\ Reply(a, {[at |-> p, right |-> p \notin bad] : p \in ps \union bad}, full)
  /\ UNCHANGED <<sync_phase, on_disk, checkpoint, leaf_store, marks, kills>>

\* A sound peer answers with all that it was asked for.
AnswersWell(a) ==
  /\ a \in Sound /\ tickets[a] # {} /\ sync_phase = "state" /\ a \notin banned
  /\ Reply(a, {[at |-> p, right |-> TRUE] : p \in Below(tickets[a])}, FALSE)
  /\ UNCHANGED <<sync_phase, on_disk, checkpoint, leaf_store, marks, kills>>

\* Mutant: the positions of a request without an answer are not queued again.
ReleaseForgets(a) ==
  /\ sync_phase = "state" /\ tickets[a] # {}
  /\ tickets' = [tickets EXCEPT ![a] = {}]
  /\ inflight' = [p \in Places |-> IF inflight[p] = a THEN NoTicket ELSE inflight[p]]
  /\ UNCHANGED <<sync_phase, frontier, queued, misses, banned, file, on_disk, checkpoint, leaf_store, marks, kills>>

\* No reply in time, an error for one, or the peer is gone: its positions go back.
Release(a) ==
  /\ sync_phase = "state" /\ tickets[a] # {}
  /\ tickets' = [tickets EXCEPT ![a] = {}]
  /\ inflight' = [p \in Places |-> IF inflight[p] = a THEN NoTicket ELSE inflight[p]]
  /\ queued' = queued \union {p \in tickets[a] \intersect frontier : inflight[p] = a}
  /\ UNCHANGED <<sync_phase, frontier, misses, banned, file, on_disk, checkpoint, leaf_store, marks, kills>>

-----------------------------------------------------------------------------
(* Checkpoints, the end, crashes and resumes *)

\* save_checkpoint, its first half: the leaf file is flushed and synced.
Sync ==
  /\ \/ sync_phase = "state" /\ sync_phase' = "saving"
     \/ sync_phase = "ending" /\ sync_phase' = "closing"
  /\ on_disk' = Len(file)
  /\ UNCHANGED <<fetch_state, banned, file, checkpoint, leaf_store, marks, kills>>

\* recheck: the file's leaves make the root, none of them twice.
Rechecked == {file[i] : i \in DOMAIN file} = Leaves /\ Len(file) = Cardinality(Leaves)

\* Its second half: the checkpoint is renamed into place.  At the end of a whole fetch the
\* file is read back and proven.
Save ==
  /\ checkpoint' = [len |-> Len(file), frontier |-> frontier]
  /\ \/ sync_phase = "saving" /\ sync_phase' = "state"
     \/ sync_phase = "closing" /\ sync_phase' = IF frontier = {} /\ Rechecked THEN "proven" ELSE "down"
  /\ UNCHANGED <<fetch_state, banned, file, on_disk, leaf_store, marks, kills>>

Complete ==
  /\ sync_phase = "state" /\ frontier = {}
  /\ sync_phase' = "ending"
  /\ UNCHANGED <<fetch_state, banned, file, on_disk, checkpoint, leaf_store, marks, kills>>

\* A signal, a limit, or no progress.
Interrupt ==
  /\ sync_phase = "state" /\ kills < MaxKills
  /\ sync_phase' = "ending" /\ kills' = kills + 1
  /\ UNCHANGED <<fetch_state, banned, file, on_disk, checkpoint, leaf_store, marks>>

\* The process is killed: of the leaves not synced any number are in the file.
Kill ==
  /\ sync_phase \in {"state", "saving", "ending", "closing", "converting"} /\ kills < MaxKills
  /\ sync_phase' = IF sync_phase = "converting" THEN "proven" ELSE "down"
  /\ kills' = kills + 1
  /\ \E n \in on_disk .. Len(file) : file' = SubSeq(file, 1, n)
  /\ UNCHANGED <<fetch_state, banned, on_disk, checkpoint, leaf_store, marks>>

\* Mutant: what was written after the checkpoint stays in the file.
CutNothing == file

\* LeafFile::open at the checkpoint's length.
CutTo == SubSeq(file, 1, checkpoint.len)

\* The next run, from the checkpoint; without one, from the root and an empty file.
ResumeFetch ==
  /\ sync_phase = "down"
  /\ Len(file) >= checkpoint.len
  /\ sync_phase' = "state"
  /\ file' = CutTo /\ on_disk' = checkpoint.len
  /\ FetchFrom(checkpoint.frontier)
  /\ banned' = {}
  /\ UNCHANGED <<checkpoint, leaf_store, marks, kills>>

-----------------------------------------------------------------------------
(* cold_start.rs: the store made from a proven file *)

Convert ==
  /\ sync_phase = "proven" /\ leaf_store = {} /\ "bookmark" \notin marks
  /\ Rechecked
  /\ sync_phase' = "converting"
  /\ UNCHANGED <<fetch_state, banned, file, on_disk, checkpoint, leaf_store, marks, kills>>

\* Mutant: the bookmark goes with the first batch, not with the last.
BookmarkWith(batch) == {"bookmark"}

\* The bookmark is in the batch that has the last leaves.
BookmarkIn(batch) == IF leaf_store \union batch = Leaves THEN {"bookmark"} ELSE {}

WriteBatch ==
  /\ sync_phase = "converting" /\ "bookmark" \notin marks
  /\ \E batch \in SUBSET (Leaves \ leaf_store) \ {{}} :
       leaf_store' = leaf_store \union batch /\ marks' = marks \union BookmarkIn(batch)
  /\ UNCHANGED <<sync_phase, fetch_state, banned, file, on_disk, checkpoint, kills>>

\* Then the resume ticket, the clean-shutdown marker and the sync marker, in that order.
WriteMark ==
  /\ sync_phase = "converting" /\ leaf_store = Leaves
  /\ \E m \in {"ticket", "clean", "sync"} :
       /\ marks' = marks \union {m}
       /\ m = "clean" => "ticket" \in marks
       /\ m = "sync" => "clean" \in marks
       /\ sync_phase' = IF m = "sync" THEN "ready" ELSE sync_phase
  /\ UNCHANGED <<fetch_state, banned, file, on_disk, checkpoint, leaf_store, kills>>

\* The operator moves a torn store aside; the files beside it stay.
MoveAside ==
  /\ sync_phase = "proven" /\ leaf_store # {}
  /\ leaf_store' = {} /\ marks' = marks \ {"bookmark"}
  /\ UNCHANGED <<sync_phase, fetch_state, banned, file, on_disk, checkpoint, kills>>

StateNext ==
  \/ \E a \in StatePeers : AskState(a) \/ Answers(a) \/ AnswersWell(a) \/ Release(a)
  \/ Sync \/ Save \/ Complete \/ Interrupt \/ Kill \/ ResumeFetch
  \/ Convert \/ WriteBatch \/ WriteMark \/ MoveAside

StateSpec == StateInit /\ [][StateNext]_state_vars

-----------------------------------------------------------------------------
(* Properties *)

\* Leaves in a file and leaves below what is wanted: each leaf once, none forgotten.
Partition(f, wanted) ==
  /\ \A i, j \in DOMAIN f : f[i] = f[j] => i = j
  /\ {f[i] : i \in DOMAIN f} = Leaves \ LeavesBelow(wanted)

\* Whatever peers answer, and wherever the process dies, each leaf is in the file once or
\* still wanted, in memory and in what a resume would start from (peer_state.rs
\* StateTreeFetch::offer, LeafFile::open, Checkpoint).
EachLeafOnce ==
  /\ sync_phase \in {"state", "saving", "ending", "closing"} => Partition(file, frontier)
  /\ Len(file) >= checkpoint.len
  /\ Partition(SubSeq(file, 1, checkpoint.len), checkpoint.frontier)

\* Every wanted position is queued or in a live request, never both, and none lies below
\* another (peer_state.rs settle, release, take).
NothingForgotten ==
  sync_phase = "state" =>
    /\ \A p \in frontier : Over[p] \intersect frontier = {}
    /\ queued \subseteq frontier
    /\ \A p \in frontier : (p \in queued) # (inflight[p] # NoTicket /\ p \in tickets[inflight[p]])

\* A store a warm start would take (its bookmark and its ticket are there) is the whole
\* state, though a conversion died in the middle and files of an earlier one remain.
StartableIsWhole == {"bookmark", "ticket"} \subseteq marks => leaf_store = Leaves

\* The state is fetched and proven in the end, however the process is stopped and the
\* unsound peers answer, if a sound one keeps answering.
FetchCompletes == <>(sync_phase \in {"proven", "converting", "ready"})

StateFairness ==
  /\ \A a \in Sound : SF_state_vars(AskState(a)) /\ SF_state_vars(AnswersWell(a))
  /\ \A a \in StatePeers : SF_state_vars(Release(a))
  /\ WF_state_vars(Save) /\ SF_state_vars(Complete) /\ WF_state_vars(ResumeFetch)
  /\ WF_state_vars(sync_phase = "ending" /\ Sync)

\* The download's three promises together: no leaf twice or lost, no place forgotten, and
\* nothing half converted is started from (peer_state.rs, cold_start.rs).
DownloadSound == EachLeafOnce /\ NothingForgotten /\ StartableIsWhole
===============================================================================
