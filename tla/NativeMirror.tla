----------------------------- MODULE NativeMirror -----------------------------
(***************************************************************************)
(* The native writer's mirror: the ledger state, decoded, in memory.       *)
(*                                                                         *)
(* Our engine applies each ledger to the mirror and, when its writes agree *)
(* with the metadata, offers them to the ledger loop.  The loop tells the  *)
(* mirror what landed (commit) or that nothing did (abort).  The mirror is *)
(* built by a thread from a snapshot of state.rocks while the loop goes on *)
(* landing ledgers; those wait in a queue and are replayed when the build  *)
(* is done.  Bytes of ours that fail the state hash drop the mirror, and   *)
(* repeated failures turn the writer off.                                  *)
(*                                                                         *)
(* This is the writer of Phase B (XRPL_NATIVE_WRITER=1).  The loop is in   *)
(* WsSync: here it is the calls it makes, and the store between two        *)
(* ledgers is Chain[landed].  An entry of the mirror is the value it was   *)
(* decoded from; Encoded says what encoding it again gives.                *)
(***************************************************************************)
EXTENDS Integers, FiniteSets

CONSTANTS
  Keys, Singletons,   \* the objects; those no metadata names by right
  Vals, Absent,       \* contents, in the network's bytes; no object
  NoBytes,            \* an entry that will not encode
  None,
  MaxSeq, Chain,      \* bound: the last ledger; the network's states
  Named,              \* the objects each ledger's metadata names
  Undecodable,        \* contents the codec cannot read
  Encoded,            \* the bytes each content encodes to once decoded
  Peers,              \* XRPL_LEDGER_SOURCE=peers
  ScanErrors,         \* can the scan of the store fail to read an entry
  PendingCap, BadKeysCap, BreakerFails, BreakerWindow

Value == Vals \cup {Absent}
State == [Keys -> Value]
Seqs  == 0 .. MaxSeq
Writes == UNION {[S -> Value] : S \in SUBSET Keys}   \* what a ledger writes

Results == {"running", "mirror", "none"}              \* of the build thread

\* The keys the network changed in ledger seq.
Changed(seq) == {k \in Keys : Chain[seq][k] # Chain[seq - 1][k]}

ASSUME MirrorConstants ==
  /\ IsFiniteSet(Keys) /\ Singletons \subseteq Keys
  /\ Absent \notin Vals /\ NoBytes \notin Value 
  /\ None \notin Seqs \cup [seq : Seqs, undo : Writes] \cup [at : Seqs, result : Results]
  /\ MaxSeq \in Nat /\ Chain \in [Seqs -> State]
  /\ Named \in [1 .. MaxSeq -> SUBSET Keys]
  /\ \A s \in 1 .. MaxSeq :
       /\ Changed(s) \ Singletons \subseteq Named[s]
       /\ \A k \in Named[s] \ (Changed(s) \cup Singletons) : Chain[s][k] = Absent
  /\ Undecodable \subseteq Vals
  /\ Encoded \in [Value -> Value \cup {NoBytes}]
  /\ \A v \in Value : Encoded[v] = Absent <=> v = Absent
  /\ {Peers, ScanErrors} \subseteq BOOLEAN
  /\ {PendingCap, BadKeysCap, BreakerFails, BreakerWindow} \subseteq Nat \ {0}

VARIABLES
  \* the ledger loop
  pc, caller,       \* where it is; who polled the build
  landed,           \* the last ledger it wrote and verified
  offer,            \* the overlay we vouched for, or None
  \* the mirror
  hydrated, mirror, at_seq, bad_keys, bad_overflow,
  \* the build: the snapshot's ledger and the thread's result; the queue
  hydrating, pending, queued,
  \* the writer
  held, distrust, writer_fails, writer_tripped, own_state,
  \* history: our last apply that landed; every ledger our bytes failed on
  made, failed

mirrorVars == <<hydrated, mirror, at_seq, bad_keys, bad_overflow>>
buildVars  == <<hydrating, pending, queued>>
writerVars == <<held, distrust, writer_fails, writer_tripped, own_state>>
history    == <<made, failed>>
vars == <<pc, caller, landed, offer, mirrorVars, buildVars, writerVars, history>>

-------------------------------------------------------------------------------
\* Helpers

Overwrite(s, w) == [k \in Keys |-> IF k \in DOMAIN w THEN w[k] ELSE s[k]]

Empty  == [k \in Keys |-> Absent]
Nothing == [k \in {} |-> Absent]

\* Contents that decode and encode back to themselves.
Clean(v) == v \notin Undecodable /\ Encoded[v] = v

Deleted(seq) == {k \in Named[seq] : Chain[seq][k] = Absent}

\* What the loop writes when the bytes are the network's.
NetworkWrites(seq) == [k \in Named[seq] \cup Singletons |-> Chain[seq][k]]

\* Mutant: the cap is not looked at.
NoteAll(bad, overflow, keys) == bad_keys' = bad \cup keys /\ bad_overflow' = overflow

\* note_bad: the keys are kept up to the cap, past it nothing is vouched for.
NoteBad(bad, overflow, keys) ==
  \E kept \in SUBSET keys :
    /\ kept # {} => Cardinality(bad) < BadKeysCap /\ Cardinality(bad \cup kept) <= BadKeysCap
    /\ kept # keys => Cardinality(bad \cup kept) = BadKeysCap
    /\ bad_keys' = bad \cup kept
    /\ bad_overflow' = (overflow \/ kept # keys)

\* drop_mirror
DropMirror ==
  /\ hydrated' = FALSE /\ mirror' = Empty
  /\ hydrating' = None /\ pending' = {} /\ queued' = {}
  /\ held' = None /\ bad_keys' = {} /\ bad_overflow' = FALSE
  /\ UNCHANGED at_seq

\* reconcile: our writes are undone and the ones that landed applied; an
\* entry that does not encode back to its bytes is never vouched for.
Reconcile(seq, undone, written) ==
  /\ hydrated' = TRUE /\ at_seq' = seq
  /\ mirror' = Overwrite(undone, written)
  /\ NoteBad(bad_keys, bad_overflow, {k \in DOMAIN written : Encoded[written[k]] # written[k]})

CannotFollow(written) == \E k \in DOMAIN written : written[k] \in Undecodable

Init ==
  /\ pc = "next" /\ caller = "propose" /\ landed = 0 /\ offer = None
  /\ hydrated = FALSE /\ mirror = Empty /\ at_seq = 0
  /\ bad_keys = {} /\ bad_overflow = FALSE
  /\ hydrating = None /\ pending = {} /\ queued = {}
  /\ held = None /\ distrust = None /\ writer_fails = {} /\ writer_tripped = FALSE
  /\ own_state = [seq |-> None, ours |-> FALSE]
  /\ made = [seq |-> None, pre |-> Empty, post |-> Empty] /\ failed = {}

-------------------------------------------------------------------------------
(* Building the mirror *)

\* The build thread ends: with a mirror, or with none (an empty scan, a panic).
BuildEnds ==
  /\ hydrating # None /\ hydrating.result = "running"
  /\ \E r \in {"mirror", "none"} : hydrating' = [hydrating EXCEPT !.result = r]
  /\ UNCHANGED <<pc, caller, landed, offer, mirrorVars, pending, queued, writerVars, history>>

\* hydrate: a snapshot of the store at its bookmark, scanned by a thread;
\* nothing when memory is short or the thread does not start.
Hydrate ==
  /\ hydrated' = FALSE /\ mirror' = Empty /\ pending' = {}
  /\ hydrating' \in {None, [at |-> landed, result |-> "running"]}

\* The loop takes the next ledger.  It hydrates when there is no mirror, the
\* writer is on, and can_hydrate's lag and cooldown allow.
Begin ==
  /\ pc = "next" /\ landed < MaxSeq
  /\ pc' = "poll" /\ caller' = "propose"
  /\ \/ UNCHANGED <<hydrated, mirror, hydrating, pending>>
     \/ ~hydrated /\ hydrating = None /\ ~writer_tripped /\ Hydrate
  /\ UNCHANGED <<landed, offer, at_seq, bad_keys, bad_overflow, queued, writerVars, history>>

Finished == hydrating # None /\ hydrating.result # "running"

\* poll_hydrate: nothing has ended.
PollNothing ==
  /\ pc = "poll" /\ ~Finished
  /\ pc' = caller
  /\ UNCHANGED <<caller, landed, offer, mirrorVars, buildVars, writerVars, history>>

\* poll_hydrate: the build has no mirror.
PollNoMirror ==
  /\ pc = "poll" /\ Finished /\ hydrating.result = "none"
  /\ hydrating' = None /\ pending' = {}
  /\ pc' = caller
  /\ UNCHANGED <<caller, landed, offer, mirrorVars, queued, writerVars, history>>

\* Mutant: what landed during the build is forgotten.
NoBacklog == {}

\* What landed during the build.
Backlog == pending

\* What the scan of ledger seq read, but for the entries it lost.
Scanned(seq, lost) == [k \in Keys |-> IF k \in lost THEN Absent ELSE Chain[seq][k]]

\* install_hydrate: the snapshot is the mirror, but for the entries that do
\* not decode; those that do not encode back are noted too.
Install ==
  /\ pc = "poll" /\ Finished /\ hydrating.result = "mirror"
  /\ \E lost \in IF ScanErrors THEN SUBSET Keys ELSE {{}} :
       LET snap == Scanned(hydrating.at, lost) IN
       /\ mirror' = [k \in Keys |-> IF snap[k] \in Undecodable THEN Absent ELSE snap[k]]
       /\ NoteBad({}, FALSE, {k \in Keys : ~Clean(snap[k])})
  /\ hydrated' = TRUE /\ at_seq' = hydrating.at
  /\ hydrating' = None /\ queued' = Backlog /\ pending' = {}
  /\ pc' = "replay"
  /\ UNCHANGED <<caller, landed, offer, writerVars, history>>

\* Mutant: a queued ledger is replayed onto whatever the mirror holds.
NotInOrder(p) == TRUE

\* The queue is replayed by sequence.
InOrder(p) == \A q \in queued : p.seq <= q.seq

\* One queued ledger: skipped when the snapshot has it, applied when it is the
\* mirror's next, and the end of the mirror when one is missing.
Replay ==
  /\ pc = "replay"
  /\ \E p \in queued :
       /\ InOrder(p)
       /\ IF p.seq <= at_seq
            THEN queued' = queued \ {p} /\ UNCHANGED <<mirrorVars, hydrating, pending, held>>
            ELSE IF at_seq + 1 # p.seq \/ CannotFollow(p.written)
            THEN DropMirror
            ELSE /\ Reconcile(p.seq, mirror, p.written)
                 /\ queued' = queued \ {p} /\ UNCHANGED <<hydrating, pending, held>>
  /\ UNCHANGED <<pc, caller, landed, offer, distrust, writer_fails, writer_tripped, own_state, history>>

ReplayEnds ==
  /\ pc = "replay" /\ queued = {}
  /\ pc' = caller
  /\ UNCHANGED <<caller, landed, offer, mirrorVars, buildVars, writerVars, history>>

-------------------------------------------------------------------------------
(* The writer *)

Cur == landed + 1              \* the ledger in flight

\* revert: the mirror without the proposal it holds.
Undone == IF held = None THEN mirror ELSE Overwrite(mirror, held.undo)

\* Mutant: a ledger our bytes failed on is proposed again.
ReadyAgain == hydrated /\ at_seq + 1 = Cur /\ ~writer_tripped

\* propose applies the ledger only to its parent, and not after our bytes for
\* it have failed.
Ready == hydrated /\ at_seq + 1 = Cur /\ distrust # Cur /\ ~writer_tripped

\* propose: no mirror to apply on; a mirror at another ledger is dropped.
Unready ==
  /\ pc = "propose" /\ ~Ready
  /\ IF hydrated /\ at_seq + 1 # Cur
       THEN DropMirror
       ELSE mirror' = Undone /\ held' = None
            /\ UNCHANGED <<hydrated, at_seq, bad_keys, bad_overflow, buildVars>>
  /\ pc' = "offered" /\ offer' = None
  /\ UNCHANGED <<caller, landed, distrust, writer_fails, writer_tripped, own_state, history>>

\* The objects of the overlay: what we changed, and what the metadata deletes
\* and we do not have (created and deleted in one ledger).
Written(pre, post) ==
  {k \in Keys \ Singletons :
     \/ pre[k] # post[k] /\ (Encoded[pre[k]] # Encoded[post[k]] \/ Encoded[post[k]] = NoBytes)
     \/ k \in Deleted(Cur) /\ post[k] = Absent}

\* vouch: our results agree, every entry encodes, the mirror could load every
\* entry concerned, and we wrote just the objects the metadata names, there or
\* deleted as it says.
Vouched(pre, post, agree) ==
  LET ours == Written(pre, post) IN
  /\ agree /\ ~bad_overflow
  /\ \A k \in ours : Encoded[post[k]] # NoBytes
  /\ bad_keys \cap (ours \cup Named[Cur]) = {}
  /\ ours = Named[Cur] \ Singletons
  /\ \A k \in ours : post[k] = Absent <=> k \in Deleted(Cur)

\* singleton_writes: the system objects our apply changed.
SingletonWrites(pre, post) ==
  [k \in {s \in Singletons : /\ Encoded[post[s]] # NoBytes
                             /\ Encoded[pre[s]] # Encoded[post[s]]} |-> Encoded[post[k]]]

\* What the loop writes of an overlay we vouched for: the system objects are
\* ours from peers, and the network's otherwise.
OurWrites(pre, post) ==
  LET sys == IF Peers THEN SingletonWrites(pre, post)
                      ELSE [k \in Singletons |-> Chain[Cur][k]]
  IN [k \in Written(pre, post) \cup DOMAIN sys |->
        IF k \in Singletons THEN sys[k] ELSE Encoded[post[k]]]

\* propose: the engine applies the ledger to the mirror, rightly or not, with
\* results that agree with the metadata's or not; its writes stay in the
\* mirror until the ledger is settled.
Propose ==
  /\ pc = "propose" /\ Ready
  /\ \E post \in State, agree \in BOOLEAN :
       /\ mirror' = post
       /\ held' = [seq |-> Cur, undo |-> [k \in {j \in Keys : post[j] # Undone[j]} |-> Undone[k]]]
       /\ offer' = IF Vouched(Undone, post, agree) THEN OurWrites(Undone, post) ELSE None
  /\ pc' = "offered"
  /\ UNCHANGED <<caller, landed, hydrated, at_seq, bad_keys, bad_overflow, buildVars,
                 distrust, writer_fails, writer_tripped, own_state, history>>

Deliverable == offer # None /\ Overwrite(Chain[landed], offer) = Chain[Cur]

\* The loop landed the ledger: commit begins.
Lands(ours, written) ==
  /\ landed' = Cur /\ pc' = "poll" /\ caller' = "commit"
  /\ offer' = written
  /\ own_state' = [seq |-> Cur, ours |-> ours]
  /\ UNCHANGED <<mirrorVars, buildVars, held, distrust, writer_fails, writer_tripped, failed>>

\* Our bytes had the network's state hash.
OursLand ==
  /\ pc = "offered" /\ Deliverable
  /\ Lands(TRUE, offer)
  /\ made' = [seq |-> Cur, pre |-> Undone, post |-> mirror]

\* The network's bytes were written: we offered none, or ours had failed.
NetworkLands ==
  /\ (pc = "offered" /\ offer = None) \/ pc = "redo"
  /\ Lands(FALSE, NetworkWrites(Cur)) /\ UNCHANGED made

\* Mutant: the proposal's writes stay in the mirror.
NotUndone == UNCHANGED mirror

\* The held proposal is undone.
TakeBack == mirror' = Undone

\* abort(seq, false): the ledger did not land, it will be driven again.
HeldBack ==
  /\ pc \in {"offered", "redo"}
  /\ TakeBack /\ held' = None
  /\ pc' = "next" /\ offer' = None
  /\ UNCHANGED <<caller, landed, hydrated, at_seq, bad_keys, bad_overflow, buildVars,
                 distrust, writer_fails, writer_tripped, own_state, history>>

\* Mutant: every failure so far is forgotten at the next.
OnlyLast(fails, seq) == {seq}

\* The failures within the window, and this one.  (A Vec in the code: no
\* ledger is in it twice, FailsOncePerLedger.)
Recent(fails, seq) == {s \in fails : seq - s < BreakerWindow} \cup {seq}

\* abort(seq, true): our bytes failed the state hash.  The mirror is dropped,
\* the ledger is redone from the network's bytes, and too many failures turn
\* the writer off.
Mismatch ==
  /\ pc = "offered" /\ offer # None /\ ~Deliverable
  /\ distrust' = Cur
  /\ writer_fails' = Recent(writer_fails, Cur)
  /\ writer_tripped' = (writer_tripped \/ Cardinality(writer_fails') >= BreakerFails)
  /\ failed' = failed \cup {Cur}
  /\ DropMirror
  /\ pc' = "redo" /\ offer' = None
  /\ UNCHANGED <<caller, landed, own_state, made>>

-------------------------------------------------------------------------------
(* commit: the ledger landed, the mirror follows *)

Settled == distrust' = IF distrust = landed THEN None ELSE distrust

\* No mirror yet: the ledger waits for the build, or the build is given up.
Queue ==
  /\ pc = "commit" /\ ~hydrated
  /\ held' = None /\ Settled
  /\ IF hydrating = None
       THEN UNCHANGED <<mirrorVars, buildVars>>
       ELSE IF Cardinality(pending) >= PendingCap
       THEN /\ hydrating' = None /\ pending' = {} /\ mirror' = Empty
            /\ bad_keys' = {} /\ bad_overflow' = FALSE
            /\ UNCHANGED <<hydrated, at_seq, queued>>
       ELSE /\ pending' = pending \cup {[seq |-> landed, written |-> offer]}
            /\ UNCHANGED <<mirrorVars, hydrating, queued>>
  /\ own_state' = [own_state EXCEPT !.ours = FALSE]
  /\ pc' = "next" /\ offer' = None
  /\ UNCHANGED <<caller, landed, writer_fails, writer_tripped, history>>

\* Mutant: the system objects are not compared.
AllOurs(undo) == TRUE

\* singletons_differ: every system object written stands in the mirror as our
\* apply left it, and each one we changed is among the written.
SingletonsOurs(undo) ==
  /\ \A k \in DOMAIN offer \cap Singletons : Encoded[mirror[k]] = offer[k]
  /\ \A k \in (DOMAIN undo \cap Singletons) \ DOMAIN offer : Encoded[undo[k]] = Encoded[mirror[k]]

\* The mirror undoes our writes and takes the written ones; or it is at
\* another ledger, or cannot read what was written, and is dropped.
Follow ==
  /\ pc = "commit" /\ hydrated
  /\ IF at_seq + 1 # landed
       THEN DropMirror /\ own_state' = [own_state EXCEPT !.ours = FALSE] /\ UNCHANGED distrust
       ELSE /\ own_state' = [own_state EXCEPT !.ours =
                               @ /\ SingletonsOurs(IF held = None THEN Nothing ELSE held.undo)]
            /\ Settled
            /\ IF CannotFollow(offer)
                 THEN DropMirror
                 ELSE Reconcile(landed, Undone, offer) /\ held' = None /\ UNCHANGED buildVars
  /\ pc' = "next" /\ offer' = None
  /\ UNCHANGED <<caller, landed, writer_fails, writer_tripped, history>>

Next ==
  \/ BuildEnds
  \/ Begin \/ PollNothing \/ PollNoMirror \/ Install \/ Replay \/ ReplayEnds
  \/ Unready \/ Propose
  \/ OursLand \/ NetworkLands \/ HeldBack \/ Mismatch
  \/ Queue \/ Follow

Spec == Init /\ [][Next]_vars

-------------------------------------------------------------------------------
(* Properties *)

SeqOrNone == Seqs \cup {None}

\* Every variable keeps its type, the queue its cap (PENDING_CAP) and the set
\* of bad keys its own (BAD_KEYS_CAP).
TypeOK ==
  /\ pc \in {"next", "poll", "replay", "propose", "offered", "redo", "commit"}
  /\ caller \in {"propose", "commit"} /\ landed \in Seqs
  /\ offer = None \/ offer \in Writes
  /\ hydrated \in BOOLEAN /\ mirror \in State /\ at_seq \in Seqs
  /\ bad_keys \subseteq Keys /\ Cardinality(bad_keys) <= BadKeysCap /\ bad_overflow \in BOOLEAN
  /\ hydrating = None \/ hydrating \in [at : Seqs, result : Results]
  /\ \A q \in pending \cup queued : q \in [seq : Seqs, written : Writes]
  /\ Cardinality(pending) <= PendingCap
  /\ held = None \/ held \in [seq : Seqs, undo : Writes]
  /\ distrust \in SeqOrNone /\ writer_fails \subseteq Seqs /\ writer_tripped \in BOOLEAN
  /\ own_state \in [seq : SeqOrNone, ours : BOOLEAN]
  /\ made \in [seq : SeqOrNone, pre : State, post : State] /\ failed \subseteq Seqs

\* The mirror without the proposal it holds is the ledger at_seq names,
\* entry for entry, and knows each entry it could not load: through the
\* build, the replay of the queue, proposals kept, undone and redone.
MirrorIsLedger ==
  hydrated =>
    \A k \in Keys :
      IF Clean(Chain[at_seq][k]) THEN Undone[k] = Chain[at_seq][k]
                                 ELSE k \in bad_keys \/ bad_overflow

\* Once the queue is replayed, a mirror is at the parent of the ledger that
\* propose applies or commit follows: the gap that drops it never comes from
\* the build, however many ledgers landed meanwhile.
NoGap ==
  /\ pc = "propose" /\ hydrated => at_seq + 1 = Cur
  /\ pc = "commit" /\ hydrated => at_seq + 1 = landed

\* The replay of the queue ends with a mirror unless the codec cannot read
\* what some queued ledger wrote.
ReplayCompletes ==
  [][pc = "replay" /\ hydrated /\ ~hydrated' => \E q \in queued : CannotFollow(q.written)]_vars

\* Our bytes fail on a ledger at most once: the retry is the network's, even
\* if a new mirror was built before it (distrust).
FailsOncePerLedger ==
  [][pc = "offered" /\ pc' = "redo" => Cur \notin failed]_vars

\* The breaker: no window of BREAKER_WINDOW ledgers sees more than
\* BREAKER_FAILS failures of our bytes.
BreakerHolds ==
  \A s \in Seqs : Cardinality({f \in failed : f \in s - BreakerWindow + 1 .. s}) <= BreakerFails

\* A ledger recorded as all our own (state_not_ours = None) is one whose
\* every object that it or our engine changed, the system objects included,
\* our engine had right.
OwnMeansOurs ==
  own_state.ours /\ pc = "next" =>
    /\ made.seq = own_state.seq
    /\ \A k \in Keys :
         k \in Changed(made.seq) \/ Encoded[made.pre[k]] # Encoded[made.post[k]] =>
           Encoded[made.post[k]] = Chain[made.seq][k]
===============================================================================
