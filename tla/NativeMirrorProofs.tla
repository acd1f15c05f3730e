-------------------------- MODULE NativeMirrorProofs --------------------------
(***************************************************************************)
(* Theorems about the native writer: its mirror, for every chain, set of    *)
(* keys, codec and cap (NativeMirror), and its own build of a ledger, for    *)
(* every set of transactions and whatever they need of one another           *)
(* (LedgerBuild).                                                           *)
(***************************************************************************)
EXTENDS NativeMirror, LedgerBuild, FiniteSetTheorems, SequenceTheorems, WellFoundedInduction, TLAPS

-------------------------------------------------------------------------------
(* The inductive invariant *)

\* The last ledger the mirror has been told of.
Followed ==
  IF caller = "commit" /\ pc \in {"poll", "replay", "commit"} THEN landed - 1 ELSE landed

\* Writes that take ledger seq - 1 to ledger seq.
Moves(seq, w) ==
  seq \in 1 .. MaxSeq /\ w \in Writes /\ Overwrite(Chain[seq - 1], w) = Chain[seq]

\* Where the loop is, and what it has in hand there.
PhaseInv ==
  /\ pc # "replay" => queued = {}
  /\ pc = "propose" => caller = "propose"
  /\ pc = "commit" => caller = "commit"
  /\ pc \in {"propose", "offered", "redo"} => landed < MaxSeq
  /\ pc \in {"poll", "replay"} /\ caller = "propose" => landed < MaxSeq
  /\ pc \in {"poll", "replay", "commit"} /\ caller = "commit" => Moves(landed, offer)
  /\ pc \in {"offered"} \/ (caller = "commit" /\ pc \in {"poll", "replay", "commit"}) \/ offer = None

\* A mirror or a build, not both; a proposal only in a mirror.
BuildInv ==
  /\ hydrated \/ pc = "replay" => hydrating = None
  /\ hydrating = None => pending = {}
  /\ held # None =>
       /\ hydrated /\ held.seq = Followed + 1
       /\ pc = "offered" \/ (caller = "commit" /\ pc \in {"poll", "commit"})
  /\ IsFiniteSet(pending)

\* The ledgers the snapshot, or the mirror, lacks are in the queue.
QueueInv ==
  /\ \A q \in pending \cup queued : Moves(q.seq, q.written) /\ q.seq <= Followed
  /\ queued # {} => hydrated
  /\ hydrating # None =>
       /\ hydrating.at <= Followed
       /\ \A n \in hydrating.at + 1 .. Followed : \E q \in pending : q.seq = n
  /\ hydrated =>
       /\ at_seq <= Followed
       /\ pc = "replay" => \A n \in at_seq + 1 .. Followed : \E q \in queued : q.seq = n
       /\ pc # "replay" => at_seq = Followed

IInv == TypeOK /\ PhaseInv /\ BuildInv /\ QueueInv

-------------------------------------------------------------------------------
(* The data *)

LEMMA OverwriteState ==
  ASSUME NEW s \in State, NEW w \in Writes
  PROVE  Overwrite(s, w) \in State
  BY DEF State, Writes, Overwrite

\* The network's bytes take a ledger to the next.
LEMMA NetworkMoves ==
  ASSUME NEW seq \in 1 .. MaxSeq
  PROVE  Moves(seq, NetworkWrites(seq))
<1>1. seq \in Seqs /\ seq - 1 \in Seqs /\ Chain[seq] \in State /\ Chain[seq - 1] \in State
  BY MirrorConstants DEF Seqs
<1>2. Named[seq] \cup Singletons \in SUBSET Keys
  BY MirrorConstants
<1>3. NetworkWrites(seq) \in [Named[seq] \cup Singletons -> Value]
  BY <1>1, <1>2 DEF NetworkWrites, State
<1>4. NetworkWrites(seq) \in Writes
  BY <1>2, <1>3 DEF Writes
<1>5. ASSUME NEW k \in Keys
      PROVE  Overwrite(Chain[seq - 1], NetworkWrites(seq))[k] = Chain[seq][k]
  <2>1. k \notin Named[seq] \cup Singletons => Chain[seq][k] = Chain[seq - 1][k]
    BY MirrorConstants DEF Changed
  <2>2. QED
    BY <2>1 DEF Overwrite, NetworkWrites
<1>6. Overwrite(Chain[seq - 1], NetworkWrites(seq)) \in State
  BY <1>1, <1>4, OverwriteState
<1>7. Overwrite(Chain[seq - 1], NetworkWrites(seq)) = Chain[seq]
  BY <1>1, <1>5, <1>6 DEF State
<1>8. QED
  BY <1>4, <1>7 DEF Moves

\* What we vouch for encodes.
LEMMA OurWritesType ==
  ASSUME NEW pre \in State, NEW post \in State, NEW agree, Cur \in 1 .. MaxSeq,
         Vouched(pre, post, agree)
  PROVE  OurWrites(pre, post) \in Writes
<1> DEFINE sys == IF Peers THEN SingletonWrites(pre, post)
                           ELSE [k \in Singletons |-> Chain[Cur][k]]
<1>1. Singletons \subseteq Keys /\ Chain[Cur] \in State
  BY MirrorConstants DEF Seqs
<1>2. ASSUME NEW k \in Keys PROVE post[k] \in Value /\ Encoded[post[k]] \in Value \cup {NoBytes}
  BY MirrorConstants DEF State
<1>3. DOMAIN sys \subseteq Singletons
  BY DEF SingletonWrites
<1>4. ASSUME NEW k \in DOMAIN sys PROVE sys[k] \in Value
  <2>1. CASE Peers
    BY <2>1, <1>1, <1>2 DEF SingletonWrites
  <2>2. CASE ~Peers
    BY <2>2, <1>1 DEF State
  <2>3. QED
    BY <2>1, <2>2
<1>5. \A k \in Written(pre, post) : k \in Keys \ Singletons /\ Encoded[post[k]] \in Value
  BY <1>2 DEF Vouched, Written
<1>6. Written(pre, post) \cup DOMAIN sys \in SUBSET Keys
  BY <1>1, <1>3, <1>5
<1>7. OurWrites(pre, post) = [k \in Written(pre, post) \cup DOMAIN sys |->
                               IF k \in Singletons THEN sys[k] ELSE Encoded[post[k]]]
  BY DEF OurWrites
<1>8. OurWrites(pre, post) \in [Written(pre, post) \cup DOMAIN sys -> Value]
  <2> HIDE DEF sys
  <2>1. \A k \in Written(pre, post) \cup DOMAIN sys :
          (IF k \in Singletons THEN sys[k] ELSE Encoded[post[k]]) \in Value
    BY <1>3, <1>4, <1>5
  <2>2. QED
    BY <1>7, <2>1
<1>9. QED
  BY <1>6, <1>8 DEF Writes

\* Noting bad keys forgets none, and stays within the cap.
LEMMA NoteBadNotes ==
  ASSUME NEW bad \in SUBSET Keys, NEW overflow \in BOOLEAN, NEW keys \in SUBSET Keys,
         Cardinality(bad) <= BadKeysCap, NoteBad(bad, overflow, keys)
  PROVE  /\ bad_keys' \subseteq Keys /\ Cardinality(bad_keys') <= BadKeysCap
         /\ bad_overflow' \in BOOLEAN
         /\ bad \subseteq bad_keys' /\ (overflow => bad_overflow')
         /\ \A k \in keys : k \in bad_keys' \/ bad_overflow'
<1>1. PICK kept \in SUBSET keys :
        /\ kept # {} => Cardinality(bad) < BadKeysCap /\ Cardinality(bad \cup kept) <= BadKeysCap
        /\ kept # keys => Cardinality(bad \cup kept) = BadKeysCap
        /\ bad_keys' = bad \cup kept
        /\ bad_overflow' = (overflow \/ kept # keys)
  BY DEF NoteBad
<1>2. Cardinality(bad_keys') <= BadKeysCap
  <2>1. CASE kept = {}
    <3>1. bad_keys' = bad
      BY <1>1, <2>1
    <3>2. QED
      BY <3>1
  <2>2. CASE kept # {}
    BY <1>1, <2>2
  <2>3. QED
    BY <2>1, <2>2
<1>3. \A k \in keys : k \in bad_keys' \/ bad_overflow'
  BY <1>1
<1>4. QED
  BY <1>1, <1>2, <1>3

\* An entry of mirror m is ledger n's, or known to be bad.
Entry(m, n, bad, overflow, k) ==
  IF Clean(Chain[n][k]) THEN m[k] = Chain[n][k] ELSE k \in bad \/ overflow

\* Following a ledger's writes from its parent gives the ledger.
LEMMA ReconcileFollows ==
  ASSUME TypeOK, NEW seq, NEW w, Moves(seq, w), NEW m \in State,
         \A k \in Keys : Entry(m, seq - 1, bad_keys, bad_overflow, k),
         ~CannotFollow(w), Reconcile(seq, m, w)
  PROVE  /\ \A k \in Keys : Entry(mirror', seq, bad_keys', bad_overflow', k)
         /\ mirror' \in State /\ bad_keys' \subseteq Keys /\ Cardinality(bad_keys') <= BadKeysCap
         /\ bad_overflow' \in BOOLEAN
<1> DEFINE ks == {k \in DOMAIN w : Encoded[w[k]] # w[k]}
<1>0. w \in Writes /\ DOMAIN w \subseteq Keys /\ seq \in 1 .. MaxSeq
  BY DEF Moves, Writes
<1>1. ks \in SUBSET Keys /\ bad_keys \in SUBSET Keys /\ Cardinality(bad_keys) <= BadKeysCap
  BY <1>0 DEF TypeOK
<1>2. bad_overflow \in BOOLEAN
  BY DEF TypeOK
<1>3. NoteBad(bad_keys, bad_overflow, ks)
  BY DEF Reconcile
<1>4. /\ bad_keys' \subseteq Keys /\ Cardinality(bad_keys') <= BadKeysCap
      /\ bad_overflow' \in BOOLEAN
      /\ bad_keys \subseteq bad_keys' /\ (bad_overflow => bad_overflow')
      /\ \A k \in ks : k \in bad_keys' \/ bad_overflow'
  <2> HIDE DEF ks
  <2>1. QED
    BY <1>1, <1>2, <1>3, NoteBadNotes
<1>5. ASSUME NEW k \in Keys PROVE Entry(mirror', seq, bad_keys', bad_overflow', k)
  <2>1. mirror'[k] = IF k \in DOMAIN w THEN w[k] ELSE m[k]
    BY DEF Reconcile, Overwrite
  <2>2. Chain[seq][k] = IF k \in DOMAIN w THEN w[k] ELSE Chain[seq - 1][k]
    <3>1. Chain[seq] = Overwrite(Chain[seq - 1], w)
      BY DEF Moves
    <3>2. QED
      BY <3>1 DEF Overwrite
  <2>3. CASE k \in DOMAIN w
    <3>1. w[k] \notin Undecodable
      BY <2>3 DEF CannotFollow
    <3>2. Clean(Chain[seq][k]) \/ k \in ks
      BY <2>2, <2>3, <3>1 DEF Clean
    <3>3. QED
      BY <3>2, <2>1, <2>2, <2>3, <1>4, Zenon DEF Entry
  <2>4. CASE k \notin DOMAIN w
    <3>1. Chain[seq][k] = Chain[seq - 1][k] /\ mirror'[k] = m[k]
      BY <2>1, <2>2, <2>4
    <3>2. Entry(m, seq - 1, bad_keys, bad_overflow, k)
      OBVIOUS
    <3>3. QED
      BY <3>1, <3>2, <1>4, Zenon DEF Entry
  <2>5. QED
    BY <2>3, <2>4
<1>6. mirror' \in State
  BY <1>0, OverwriteState DEF Reconcile
<1>7. QED
  BY <1>4, <1>5, <1>6

\* Installing a snapshot.
LEMMA InstallFollows ==
  ASSUME NEW snap \in State,
         mirror' = [k \in Keys |-> IF snap[k] \in Undecodable THEN Absent ELSE snap[k]],
         NoteBad({}, FALSE, {k \in Keys : ~Clean(snap[k])})
  PROVE  /\ \A k \in Keys : IF Clean(snap[k]) THEN mirror'[k] = snap[k] ELSE k \in bad_keys' \/ bad_overflow'
         /\ mirror' \in State /\ bad_keys' \subseteq Keys /\ Cardinality(bad_keys') <= BadKeysCap
         /\ bad_overflow' \in BOOLEAN
<1> DEFINE ks == {k \in Keys : ~Clean(snap[k])}
<1>1. Cardinality({}) <= BadKeysCap
  BY FS_EmptySet, MirrorConstants
<1>2. /\ bad_keys' \subseteq Keys /\ Cardinality(bad_keys') <= BadKeysCap
      /\ bad_overflow' \in BOOLEAN
      /\ \A k \in ks : k \in bad_keys' \/ bad_overflow'
  <2>1. ks \in SUBSET Keys /\ {} \in SUBSET Keys /\ FALSE \in BOOLEAN
    OBVIOUS
  <2>2. NoteBad({}, FALSE, ks)
    OBVIOUS
  <2> HIDE DEF ks
  <2>3. QED
    BY <1>1, <2>1, <2>2, NoteBadNotes
<1>3. ASSUME NEW k \in Keys
      PROVE  IF Clean(snap[k]) THEN mirror'[k] = snap[k] ELSE k \in bad_keys' \/ bad_overflow'
  <2>1. CASE Clean(snap[k])
    BY <2>1 DEF Clean
  <2>2. CASE ~Clean(snap[k])
    BY <2>2, <1>2, Zenon
  <2>3. QED
    BY <2>1, <2>2
<1>4. mirror' \in State
  BY MirrorConstants DEF State, Value
<1>5. QED
  BY <1>2, <1>3, <1>4

-------------------------------------------------------------------------------
(* Types *)

LEMMA InitInv == Init => IInv
<1> SUFFICES ASSUME Init PROVE IInv
  OBVIOUS
<1>1. Empty \in State
  BY DEF Empty, State, Value
<1>2. Cardinality({}) = 0 /\ IsFiniteSet({})
  BY FS_EmptySet
<1>3. TypeOK
  <2>1. hydrated \in BOOLEAN /\ bad_overflow \in BOOLEAN /\ writer_tripped \in BOOLEAN
    BY Zenon DEF Init
  <2>2. own_state \in [seq : SeqOrNone, ours : BOOLEAN]
    BY DEF Init, SeqOrNone
  <2>3. QED
    BY <1>1, <1>2, <2>1, <2>2, MirrorConstants DEF Init, TypeOK, Seqs, SeqOrNone
<1>4. PhaseInv /\ BuildInv
  BY <1>2 DEF Init, PhaseInv, BuildInv
<1>5. QueueInv
  BY DEF Init, QueueInv
<1>6. QED
  BY <1>3, <1>4, <1>5 DEF IInv

\* The flags.
Flags == hydrated \in BOOLEAN /\ bad_overflow \in BOOLEAN /\ writer_tripped \in BOOLEAN

LEMMA UndoneState == TypeOK => Undone \in State
<1> SUFFICES ASSUME TypeOK PROVE Undone \in State
  OBVIOUS
<1>1. CASE held = None
  BY <1>1 DEF TypeOK, Undone
<1>2. CASE held # None
  BY <1>2, OverwriteState DEF TypeOK, Undone
<1>3. QED
  BY <1>1, <1>2

LEMMA DroppedTypes ==
  ASSUME TypeOK, DropMirror
  PROVE  /\ mirror' \in State /\ at_seq' \in Seqs /\ bad_keys' \subseteq Keys
         /\ Cardinality(bad_keys') <= BadKeysCap /\ hydrating' = None
         /\ pending' = {} /\ queued' = {} /\ Cardinality(pending') <= PendingCap
         /\ held' = None /\ hydrated' = FALSE /\ bad_overflow' = FALSE
<1>1. Cardinality({}) = 0
  BY FS_EmptySet
<1>2. Empty \in State
  BY DEF Empty, State, Value
<1>3. QED
  BY <1>1, <1>2, MirrorConstants DEF DropMirror, TypeOK

LEMMA TypeStep == IInv /\ [Next]_vars => TypeOK'
<1> SUFFICES ASSUME IInv, [Next]_vars PROVE TypeOK'
  OBVIOUS
<1>0. TypeOK /\ PhaseInv /\ BuildInv /\ QueueInv
  BY DEF IInv
<1> USE DEF mirrorVars, buildVars, writerVars, history
<1>1. CASE BuildEnds
  BY <1>1, <1>0 DEF BuildEnds, TypeOK, Results
<1>2. CASE Begin
  <2>1. Empty \in State /\ Cardinality({}) = 0
    BY FS_EmptySet DEF Empty, State, Value
  <2>2. CASE UNCHANGED <<hydrated, mirror, hydrating, pending>>
    BY <1>2, <1>0, <2>2 DEF Begin, TypeOK
  <2>3. CASE Hydrate
    <3>1. hydrating' = None \/ hydrating' \in [at : Seqs, result : Results]
      BY <2>3, <1>0 DEF Hydrate, TypeOK, Results
    <3>2. pending' = {} /\ mirror' \in State /\ Cardinality(pending') <= PendingCap
      BY <2>1, <2>3, MirrorConstants DEF Hydrate
    <3>3. QED
      BY <1>2, <1>0, <2>3, <3>1, <3>2 DEF Begin, Hydrate, TypeOK
  <2>4. QED
    BY <1>2, <2>2, <2>3 DEF Begin
<1>3. CASE PollNothing
  BY <1>3, <1>0 DEF PollNothing, TypeOK
<1>4. CASE PollNoMirror
  <2>1. Cardinality({}) = 0
    BY FS_EmptySet
  <2>2. QED
    BY <1>4, <1>0, <2>1, MirrorConstants DEF PollNoMirror, TypeOK
<1>5. CASE Install
  <2>1. hydrating.at \in Seqs
    BY <1>5, <1>0 DEF Install, Finished, TypeOK
  <2>2. mirror' \in State /\ bad_keys' \subseteq Keys /\ Cardinality(bad_keys') <= BadKeysCap
        /\ bad_overflow' \in BOOLEAN
    <3>1. PICK lost \in SUBSET Keys :
            LET snap == Scanned(hydrating.at, lost) IN
              /\ mirror' = [k \in Keys |-> IF snap[k] \in Undecodable THEN Absent ELSE snap[k]]
              /\ NoteBad({}, FALSE, {k \in Keys : ~Clean(snap[k])})
      BY <1>5 DEF Install
    <3>2. Scanned(hydrating.at, lost) \in State
      BY <2>1, MirrorConstants DEF Scanned, State, Value
    <3>3. QED
      BY <3>1, <3>2, InstallFollows
  <2>3. Cardinality({}) = 0
    BY FS_EmptySet
  <2>4. QED
    BY <1>5, <1>0, <2>1, <2>2, <2>3, MirrorConstants DEF Install, Backlog, TypeOK
<1>6. CASE Replay
  <2>1. PICK p \in queued :
         IF p.seq <= at_seq
            THEN queued' = queued \ {p} /\ UNCHANGED <<mirrorVars, hydrating, pending, held>>
            ELSE IF at_seq + 1 # p.seq \/ CannotFollow(p.written)
            THEN DropMirror
            ELSE /\ Reconcile(p.seq, mirror, p.written)
                 /\ queued' = queued \ {p} /\ UNCHANGED <<hydrating, pending, held>>
    BY <1>6 DEF Replay
  <2>2. UNCHANGED <<pc, caller, landed, offer, distrust, writer_fails, writer_tripped, own_state, history>>
    BY <1>6 DEF Replay
  <2>3. CASE p.seq <= at_seq
    BY <2>1, <2>2, <2>3, <1>0 DEF TypeOK
  <2>4. CASE DropMirror
    BY <2>2, <2>4, <1>0, DroppedTypes DEF TypeOK
  <2>5. CASE Reconcile(p.seq, mirror, p.written)
             /\ queued' = queued \ {p} /\ UNCHANGED <<hydrating, pending, held>>
    <3>1. p.written \in Writes /\ p.seq \in Seqs
      BY <1>0 DEF TypeOK
    <3>2. mirror' \in State
      BY <3>1, <2>5, <1>0, OverwriteState DEF Reconcile, TypeOK
    <3>3. {k \in DOMAIN p.written : Encoded[p.written[k]] # p.written[k]} \in SUBSET Keys
      BY <3>1 DEF Writes
    <3>4. bad_keys' \subseteq Keys /\ Cardinality(bad_keys') <= BadKeysCap /\ bad_overflow' \in BOOLEAN
      BY <2>5, <3>3, <1>0, NoteBadNotes DEF Reconcile, TypeOK
    <3>5. QED
      BY <3>1, <3>2, <3>4, <2>2, <2>5, <1>0 DEF Reconcile, TypeOK
  <2>6. QED
    BY <2>1, <2>3, <2>4, <2>5
<1>7. CASE ReplayEnds
  BY <1>7, <1>0 DEF ReplayEnds, TypeOK
<1>8. CASE Unready
  <2>1. CASE DropMirror
    BY <1>8, <2>1, <1>0, DroppedTypes DEF Unready, TypeOK
  <2>2. CASE mirror' = Undone /\ held' = None
             /\ UNCHANGED <<hydrated, at_seq, bad_keys, bad_overflow, buildVars>>
    BY <1>8, <2>2, <1>0, UndoneState DEF Unready, TypeOK
  <2>3. QED
    BY <1>8, <2>1, <2>2 DEF Unready
<1>9. CASE Propose
  <2>1. PICK post \in State, agree \in BOOLEAN :
          /\ mirror' = post
          /\ held' = [seq |-> Cur, undo |-> [k \in {j \in Keys : post[j] # Undone[j]} |-> Undone[k]]]
          /\ offer' = IF Vouched(Undone, post, agree) THEN OurWrites(Undone, post) ELSE None
    BY <1>9 DEF Propose
  <2>2. Cur \in 1 .. MaxSeq
    BY <1>9, <1>0, MirrorConstants DEF Propose, PhaseInv, TypeOK, Cur, Seqs
  <2>3. offer' = None \/ offer' \in Writes
    BY <2>1, <2>2, <1>0, UndoneState, OurWritesType
  <2>4. held' \in [seq : Seqs, undo : Writes]
    <3>1. [k \in {j \in Keys : post[j] # Undone[j]} |-> Undone[k]]
            \in [{j \in Keys : post[j] # Undone[j]} -> Value]
      BY <1>0, UndoneState DEF State
    <3>2. {j \in Keys : post[j] # Undone[j]} \in SUBSET Keys
      OBVIOUS
    <3>3. [k \in {j \in Keys : post[j] # Undone[j]} |-> Undone[k]] \in Writes
      BY <3>1, <3>2 DEF Writes
    <3>4. Cur \in Seqs
      BY <2>2 DEF Seqs
    <3>5. QED
      BY <2>1, <3>3, <3>4
  <2>5. QED
    BY <1>9, <2>1, <2>3, <2>4, <1>0 DEF Propose, TypeOK
<1>10. CASE OursLand
  <2>1. Cur \in Seqs
    BY <1>10, <1>0, MirrorConstants DEF OursLand, PhaseInv, TypeOK, Cur, Seqs
  <2>2. own_state' \in [seq : SeqOrNone, ours : BOOLEAN]
    BY <1>10, <2>1 DEF OursLand, Lands, SeqOrNone
  <2>3. made' \in [seq : SeqOrNone, pre : State, post : State]
    BY <1>10, <2>1, <1>0, UndoneState DEF OursLand, TypeOK, SeqOrNone
  <2>4. QED
    BY <1>10, <2>1, <2>2, <2>3, <1>0 DEF OursLand, Deliverable, Lands, TypeOK
<1>11. CASE NetworkLands
  <2>1. Cur \in Seqs /\ Cur \in 1 .. MaxSeq
    BY <1>11, <1>0, MirrorConstants DEF NetworkLands, PhaseInv, TypeOK, Cur, Seqs
  <2>2. own_state' \in [seq : SeqOrNone, ours : BOOLEAN]
    BY <1>11, <2>1 DEF NetworkLands, Lands, SeqOrNone
  <2>3. NetworkWrites(Cur) \in Writes
    BY <2>1, NetworkMoves DEF Moves
  <2>4. QED
    BY <1>11, <2>1, <2>2, <2>3, <1>0 DEF NetworkLands, Lands, TypeOK
<1>12. CASE HeldBack
  BY <1>12, <1>0, UndoneState DEF HeldBack, TakeBack, TypeOK
<1>13. CASE Mismatch
  <2>1. Cur \in Seqs
    BY <1>13, <1>0, MirrorConstants DEF Mismatch, PhaseInv, TypeOK, Cur, Seqs
  <2>2. writer_fails' \subseteq Seqs
    BY <1>13, <2>1, <1>0 DEF Mismatch, Recent, TypeOK
  <2>3. writer_tripped' \in BOOLEAN
    BY <1>13, Zenon DEF Mismatch
  <2>4. QED
    BY <1>13, <2>1, <2>2, <2>3, <1>0, DroppedTypes DEF Mismatch, TypeOK, SeqOrNone
<1>14. CASE Queue
  <2>1. own_state' \in [seq : SeqOrNone, ours : BOOLEAN]
    BY <1>14, <1>0 DEF Queue, TypeOK
  <2>2. distrust' \in SeqOrNone
    BY <1>14, <1>0 DEF Queue, Settled, TypeOK, SeqOrNone
  <2>3. Empty \in State /\ Cardinality({}) = 0
    BY FS_EmptySet DEF Empty, State, Value
  <2>4. CASE hydrating = None
    BY <1>14, <2>1, <2>2, <2>4, <1>0 DEF Queue, TypeOK
  <2>5. CASE hydrating # None /\ Cardinality(pending) >= PendingCap
    <3>1. pending' = {} /\ mirror' \in State /\ Cardinality(pending') <= PendingCap
          /\ bad_keys' \subseteq Keys /\ Cardinality(bad_keys') <= BadKeysCap
      <4>1. pending' = {} /\ mirror' = Empty /\ bad_keys' = {}
        BY <1>14, <2>5 DEF Queue
      <4>2. Cardinality(pending') = 0 /\ Cardinality(bad_keys') = 0
        BY <4>1, <2>3
      <4>3. QED
        BY <4>1, <4>2, <2>3, MirrorConstants
    <3>2. hydrating' = None /\ bad_overflow' = FALSE /\ UNCHANGED <<hydrated, at_seq, queued>>
      BY <1>14, <2>5 DEF Queue
    <3>3. QED
      BY <1>14, <2>1, <2>2, <3>1, <3>2, <1>0 DEF Queue, TypeOK
  <2>6. CASE hydrating # None /\ ~(Cardinality(pending) >= PendingCap)
    <3>1. pending' = pending \cup {[seq |-> landed, written |-> offer]}
          /\ UNCHANGED <<mirrorVars, hydrating, queued>>
      BY <1>14, <2>6 DEF Queue
    <3>2. offer \in Writes
      BY <1>14, <1>0 DEF Queue, PhaseInv, Moves
    <3>3. [seq |-> landed, written |-> offer] \in [seq : Seqs, written : Writes]
      BY <3>2, <1>0 DEF TypeOK
    <3>4. Cardinality(pending') <= PendingCap
      <4>1. Cardinality(pending) \in Nat /\ Cardinality(pending') \in {Cardinality(pending), Cardinality(pending) + 1}
        BY <3>1, <1>0, FS_AddElement, FS_CardinalityType DEF BuildInv
      <4>2. QED
        BY <4>1, <2>6, MirrorConstants
    <3>5. \A q \in pending' \cup queued' : q \in [seq : Seqs, written : Writes]
      BY <3>1, <3>3, <1>0 DEF TypeOK
    <3>6. QED
      BY <1>14, <2>1, <2>2, <3>1, <3>4, <3>5, <1>0 DEF Queue, TypeOK
  <2>7. QED
    BY <2>4, <2>5, <2>6
<1>15. CASE Follow
  <2>1. own_state' \in [seq : SeqOrNone, ours : BOOLEAN]
    <3>1. PICK b \in BOOLEAN : own_state' = [own_state EXCEPT !.ours = b]
      <4>1. CASE at_seq + 1 # landed
        BY <1>15, <4>1 DEF Follow
      <4>2. CASE ~(at_seq + 1 # landed)
        <5>1. own_state.ours \in BOOLEAN
          BY <1>0 DEF TypeOK
        <5>2. own_state' = [own_state EXCEPT !.ours =
                  @ /\ SingletonsOurs(IF held = None THEN Nothing ELSE held.undo)]
          BY <1>15, <4>2 DEF Follow
        <5>3. (own_state.ours /\ SingletonsOurs(IF held = None THEN Nothing ELSE held.undo)) \in BOOLEAN
          BY Zenon
        <5>4. QED
          BY <5>2, <5>3, Zenon
      <4>3. QED
        BY <4>1, <4>2
    <3>2. QED
      BY <3>1, <1>0 DEF TypeOK
  <2>2. distrust' \in SeqOrNone
    BY <1>15, <1>0 DEF Follow, Settled, TypeOK, SeqOrNone
  <2>3. UNCHANGED <<caller, landed, writer_fails, writer_tripped, history>> /\ pc' = "next" /\ offer' = None
    BY <1>15 DEF Follow
  <2>4. CASE DropMirror
    BY <2>1, <2>2, <2>3, <2>4, <1>0, DroppedTypes DEF TypeOK
  <2>5. CASE Reconcile(landed, Undone, offer) /\ held' = None /\ UNCHANGED buildVars
    <3>1. offer \in Writes /\ landed \in Seqs
      BY <1>15, <1>0 DEF Follow, PhaseInv, Moves, TypeOK
    <3>2. mirror' \in State
      BY <3>1, <2>5, <1>0, UndoneState, OverwriteState DEF Reconcile
    <3>3. {k \in DOMAIN offer : Encoded[offer[k]] # offer[k]} \in SUBSET Keys
      BY <3>1 DEF Writes
    <3>4. bad_keys' \subseteq Keys /\ Cardinality(bad_keys') <= BadKeysCap /\ bad_overflow' \in BOOLEAN
      BY <2>5, <3>3, <1>0, NoteBadNotes DEF Reconcile, TypeOK
    <3>5. QED
      BY <2>1, <2>2, <2>3, <3>1, <3>2, <3>4, <2>5, <1>0 DEF Reconcile, TypeOK
  <2>6. QED
    BY <1>15, <2>4, <2>5 DEF Follow
<1>16. CASE UNCHANGED vars
  BY <1>16, <1>0 DEF vars, TypeOK
<1>17. QED
  BY <1>1, <1>2, <1>3, <1>4, <1>5, <1>6, <1>7, <1>8, <1>9, <1>10, <1>11, <1>12, <1>13, <1>14,
     <1>15, <1>16 DEF Next

-------------------------------------------------------------------------------
(* The loop's place, the build and the queue *)

LEMMA PhaseStep == IInv /\ [Next]_vars => PhaseInv'
<1> SUFFICES ASSUME IInv, [Next]_vars PROVE PhaseInv'
  OBVIOUS
<1>0. TypeOK /\ PhaseInv /\ BuildInv /\ QueueInv
  BY DEF IInv
<1>t. landed \in Nat /\ landed <= MaxSeq /\ MaxSeq \in Nat
  BY <1>0, MirrorConstants DEF TypeOK, Seqs
<1> USE DEF mirrorVars, buildVars, writerVars, history
<1>1. CASE BuildEnds
  BY <1>1, <1>0 DEF BuildEnds, PhaseInv, Moves
<1>2. CASE Begin
  BY <1>2, <1>0 DEF Begin, PhaseInv
<1>3. CASE PollNothing
  BY <1>3, <1>0 DEF PollNothing, PhaseInv, Moves, TypeOK
<1>4. CASE PollNoMirror
  BY <1>4, <1>0 DEF PollNoMirror, PhaseInv, Moves, TypeOK
<1>5. CASE Install
  BY <1>5, <1>0 DEF Install, PhaseInv, Moves
<1>6. CASE Replay
  <2>1. pc = "replay" /\ UNCHANGED <<pc, caller, landed, offer>>
    BY <1>6 DEF Replay
  <2>2. QED
    BY <2>1, <1>0 DEF PhaseInv, Moves
<1>7. CASE ReplayEnds
  BY <1>7, <1>0 DEF ReplayEnds, PhaseInv, Moves, TypeOK
<1>8. CASE Unready
  <2>1. queued' = {}
    BY <1>8, <1>0 DEF Unready, DropMirror, PhaseInv
  <2>2. QED
    BY <1>8, <1>0, <2>1 DEF Unready, PhaseInv
<1>9. CASE Propose
  BY <1>9, <1>0 DEF Propose, PhaseInv
<1>10. CASE OursLand
  <2>1. Cur \in 1 .. MaxSeq /\ Cur - 1 = landed
    BY <1>10, <1>0, <1>t DEF OursLand, PhaseInv, Cur
  <2>2. offer \in Writes
    BY <1>10, <1>0 DEF OursLand, Deliverable, TypeOK
  <2>3. Moves(Cur, offer)
    BY <1>10, <2>1, <2>2 DEF OursLand, Deliverable, Moves
  <2>4. landed' = Cur /\ pc' = "poll" /\ caller' = "commit" /\ offer' = offer /\ UNCHANGED queued
        /\ pc = "offered"
    BY <1>10 DEF OursLand, Lands
  <2>5. Moves(landed', offer')
    BY <2>3, <2>4
  <2>6. QED
    BY <2>4, <2>5, <1>0 DEF PhaseInv
<1>11. CASE NetworkLands
  <2>1. Cur \in 1 .. MaxSeq
    BY <1>11, <1>0, <1>t DEF NetworkLands, PhaseInv, Cur
  <2>2. Moves(Cur, NetworkWrites(Cur))
    BY <2>1, NetworkMoves
  <2>3. landed' = Cur /\ pc' = "poll" /\ caller' = "commit" /\ offer' = NetworkWrites(Cur)
        /\ UNCHANGED queued /\ pc \in {"offered", "redo"}
    BY <1>11 DEF NetworkLands, Lands
  <2>4. Moves(landed', offer')
    BY <2>2, <2>3
  <2>5. QED
    BY <2>3, <2>4, <1>0 DEF PhaseInv
<1>12. CASE HeldBack
  BY <1>12, <1>0 DEF HeldBack, PhaseInv
<1>13. CASE Mismatch
  BY <1>13, <1>0 DEF Mismatch, DropMirror, PhaseInv
<1>14. CASE Queue
  BY <1>14, <1>0 DEF Queue, PhaseInv
<1>15. CASE Follow
  <2>1. queued' = {}
    BY <1>15, <1>0 DEF Follow, DropMirror, PhaseInv
  <2>2. QED
    BY <1>15, <1>0, <2>1 DEF Follow, PhaseInv
<1>16. CASE UNCHANGED vars
  BY <1>16, <1>0 DEF vars, PhaseInv, Moves
<1>17. QED
  BY <1>1, <1>2, <1>3, <1>4, <1>5, <1>6, <1>7, <1>8, <1>9, <1>10, <1>11, <1>12, <1>13, <1>14,
     <1>15, <1>16 DEF Next

\* Dropping the mirror leaves nothing behind.
LEMMA DroppedBuild == DropMirror => BuildInv'
<1>1. IsFiniteSet({})
  BY FS_EmptySet
<1>2. QED
  BY <1>1 DEF DropMirror, BuildInv

LEMMA BuildStep == IInv /\ [Next]_vars => BuildInv'
<1> SUFFICES ASSUME IInv, [Next]_vars PROVE BuildInv'
  OBVIOUS
<1>0. TypeOK /\ PhaseInv /\ BuildInv /\ QueueInv
  BY DEF IInv
<1>t. landed \in Nat /\ landed <= MaxSeq /\ MaxSeq \in Nat
  BY <1>0, MirrorConstants DEF TypeOK, Seqs
<1>e. IsFiniteSet({})
  BY FS_EmptySet
<1> USE DEF mirrorVars, buildVars, writerVars, history
<1>1. CASE BuildEnds
  <2>1. hydrating # None /\ hydrating' # None /\ UNCHANGED <<pc, caller, landed, held, hydrated, pending>>
    BY <1>1, <1>0, MirrorConstants DEF BuildEnds, TypeOK, Results
  <2>2. QED
    BY <2>1, <1>0 DEF BuildInv, Followed
<1>2. CASE Begin
  <2>1. held = None
    BY <1>2, <1>0 DEF Begin, BuildInv
  <2>2. CASE UNCHANGED <<hydrated, mirror, hydrating, pending>>
    BY <1>2, <1>0, <2>1, <2>2 DEF Begin, BuildInv
  <2>3. CASE Hydrate
    BY <1>2, <1>e, <2>1, <2>3 DEF Begin, Hydrate, BuildInv
  <2>4. QED
    BY <1>2, <2>2, <2>3 DEF Begin
<1>3. CASE PollNothing
  BY <1>3, <1>0 DEF PollNothing, BuildInv, PhaseInv, Followed, TypeOK
<1>4. CASE PollNoMirror
  BY <1>4, <1>0, <1>e DEF PollNoMirror, Finished, BuildInv
<1>5. CASE Install
  BY <1>5, <1>0, <1>e DEF Install, Finished, BuildInv
<1>6. CASE Replay
  <2>1. CASE DropMirror
    BY <2>1, DroppedBuild
  <2>2. CASE UNCHANGED <<hydrating, pending, held>> /\ hydrated' \in {hydrated, TRUE}
    <3>1. held = None
      BY <1>6, <1>0 DEF Replay, BuildInv
    <3>2. hydrating = None
      BY <1>6, <1>0 DEF Replay, BuildInv
    <3>3. QED
      BY <2>2, <3>1, <3>2, <1>0 DEF BuildInv
  <2>3. QED
    BY <1>6, <2>1, <2>2 DEF Replay, Reconcile
<1>7. CASE ReplayEnds
  BY <1>7, <1>0 DEF ReplayEnds, BuildInv, PhaseInv, Followed, TypeOK
<1>8. CASE Unready
  <2>1. CASE DropMirror
    BY <2>1, DroppedBuild
  <2>2. CASE held' = None /\ UNCHANGED <<hydrated, buildVars>>
    BY <1>8, <2>2, <1>0 DEF Unready, BuildInv
  <2>3. QED
    BY <1>8, <2>1, <2>2 DEF Unready
<1>9. CASE Propose
  <2>1. hydrated /\ hydrated' /\ UNCHANGED <<buildVars, landed, caller>> /\ pc' = "offered"
    BY <1>9 DEF Propose, Ready
  <2>2. held'.seq = Cur
    BY <1>9 DEF Propose
  <2>3. Followed' = landed
    BY <2>1 DEF Followed
  <2>4. QED
    BY <2>1, <2>2, <2>3, <1>0 DEF BuildInv, Cur
<1>10. CASE OursLand
  <2>1. landed' = Cur /\ pc' = "poll" /\ caller' = "commit" /\ UNCHANGED <<held, hydrated, buildVars>>
        /\ pc = "offered"
    BY <1>10 DEF OursLand, Lands
  <2>2. Followed' = landed /\ Followed = landed
    BY <2>1, <1>t DEF Followed, Cur
  <2>3. QED
    BY <2>1, <2>2, <1>0 DEF BuildInv
<1>11. CASE NetworkLands
  <2>1. landed' = Cur /\ pc' = "poll" /\ caller' = "commit" /\ UNCHANGED <<held, hydrated, buildVars>>
        /\ pc \in {"offered", "redo"}
    BY <1>11 DEF NetworkLands, Lands
  <2>2. Followed' = landed /\ Followed = landed
    BY <2>1, <1>t DEF Followed, Cur
  <2>3. QED
    BY <2>1, <2>2, <1>0 DEF BuildInv
<1>12. CASE HeldBack
  BY <1>12, <1>0 DEF HeldBack, BuildInv
<1>13. CASE Mismatch
  BY <1>13, DroppedBuild DEF Mismatch
<1>14. CASE Queue
  <2>1. CASE hydrating = None
    BY <1>14, <2>1, <1>0 DEF Queue, BuildInv
  <2>2. CASE hydrating # None /\ Cardinality(pending) >= PendingCap
    BY <1>14, <2>2, <1>0, <1>e DEF Queue, BuildInv
  <2>3. CASE hydrating # None /\ ~(Cardinality(pending) >= PendingCap)
    <3>1. IsFiniteSet(pending')
      BY <1>14, <2>3, <1>0, FS_AddElement DEF Queue, BuildInv
    <3>2. QED
      BY <1>14, <2>3, <3>1, <1>0 DEF Queue, BuildInv
  <2>4. QED
    BY <2>1, <2>2, <2>3
<1>15. CASE Follow
  <2>1. CASE DropMirror
    BY <2>1, DroppedBuild
  <2>2. CASE held' = None /\ UNCHANGED buildVars
    BY <1>15, <2>2, <1>0 DEF Follow, BuildInv
  <2>3. QED
    BY <1>15, <2>1, <2>2 DEF Follow
<1>16. CASE UNCHANGED vars
  BY <1>16, <1>0 DEF vars, BuildInv, Followed
<1>17. QED
  BY <1>1, <1>2, <1>3, <1>4, <1>5, <1>6, <1>7, <1>8, <1>9, <1>10, <1>11, <1>12, <1>13, <1>14,
     <1>15, <1>16 DEF Next

LEMMA FollowedType == TypeOK /\ PhaseInv => Followed \in Seqs
<1> SUFFICES ASSUME TypeOK, PhaseInv PROVE Followed \in Seqs
  OBVIOUS
<1>1. landed \in 0 .. MaxSeq /\ MaxSeq \in Nat
  BY MirrorConstants DEF TypeOK, Seqs
<1>2. caller = "commit" /\ pc \in {"poll", "replay", "commit"} => landed \in 1 .. MaxSeq
  BY DEF PhaseInv, Moves
<1>3. QED
  BY <1>1, <1>2 DEF Followed, Seqs

\* A dropped mirror has no queue to answer for.
LEMMA DroppedQueue == DropMirror => QueueInv'
  BY DEF DropMirror, QueueInv

LEMMA QueueStep == IInv /\ [Next]_vars => QueueInv'
<1> SUFFICES ASSUME IInv, [Next]_vars PROVE QueueInv'
  OBVIOUS
<1>0. TypeOK /\ PhaseInv /\ BuildInv /\ QueueInv
  BY DEF IInv
<1>t. landed \in Nat /\ landed <= MaxSeq /\ MaxSeq \in Nat /\ Followed \in Seqs /\ at_seq \in Nat
      /\ \A q \in pending \cup queued : q.seq \in Nat
  BY <1>0, FollowedType, MirrorConstants DEF TypeOK, Seqs
<1> USE DEF mirrorVars, buildVars, writerVars, history
<1>1. CASE BuildEnds
  <2>1. hydrating # None /\ hydrating'.at = hydrating.at
    BY <1>1, <1>0 DEF BuildEnds, TypeOK
  <2>2. Followed' = Followed
    BY <1>1 DEF BuildEnds, Followed
  <2>3. QED
    BY <1>1, <2>1, <2>2, <1>0 DEF BuildEnds, QueueInv, Moves
<1>2. CASE Begin
  <2>1. Followed' = Followed /\ Followed = landed /\ queued = {} /\ UNCHANGED <<queued, at_seq>>
        /\ pc = "next" /\ pc' = "poll"
    BY <1>2, <1>0 DEF Begin, Followed, PhaseInv
  <2>2. CASE UNCHANGED <<hydrated, mirror, hydrating, pending>>
    BY <2>1, <2>2, <1>0 DEF QueueInv, Moves
  <2>3. CASE Hydrate
    BY <2>1, <2>3, <1>t DEF Hydrate, QueueInv
  <2>4. QED
    BY <1>2, <2>2, <2>3 DEF Begin
<1>3. CASE PollNothing
  <2>1. Followed' = Followed
    BY <1>3, <1>0 DEF PollNothing, Followed, TypeOK
  <2>2. QED
    BY <1>3, <2>1, <1>0 DEF PollNothing, QueueInv, Moves, TypeOK
<1>4. CASE PollNoMirror
  <2>1. Followed' = Followed
    BY <1>4, <1>0 DEF PollNoMirror, Followed, TypeOK
  <2>2. ~hydrated /\ ~hydrated'
    BY <1>4, <1>0 DEF PollNoMirror, Finished, BuildInv
  <2>3. QED
    BY <1>4, <2>1, <2>2, <1>0 DEF PollNoMirror, QueueInv, Moves
<1>5. CASE Install
  <2>1. Followed' = Followed /\ pc' = "replay"
    BY <1>5 DEF Install, Followed
  <2>2. hydrating # None /\ at_seq' = hydrating.at /\ hydrating' = None /\ queued' = pending /\ pending' = {}
        /\ hydrated'
    BY <1>5 DEF Install, Finished, Backlog
  <2>3. QED
    BY <2>1, <2>2, <1>0 DEF QueueInv, Moves
<1>6. CASE Replay
  <2>1. PICK p \in queued :
         /\ InOrder(p)
         /\ IF p.seq <= at_seq
            THEN queued' = queued \ {p} /\ UNCHANGED <<mirrorVars, hydrating, pending, held>>
            ELSE IF at_seq + 1 # p.seq \/ CannotFollow(p.written)
            THEN DropMirror
            ELSE /\ Reconcile(p.seq, mirror, p.written)
                 /\ queued' = queued \ {p} /\ UNCHANGED <<hydrating, pending, held>>
    BY <1>6 DEF Replay
  <2>2. UNCHANGED <<pc, caller, landed>> /\ pc = "replay" /\ Followed' = Followed
    BY <1>6 DEF Replay, Followed
  <2>3. hydrating = None /\ pending = {}
    BY <2>2, <1>0 DEF BuildInv
  <2>4. CASE p.seq <= at_seq
    <3>1. queued' = queued \ {p} /\ UNCHANGED <<mirrorVars, hydrating, pending>>
      BY <2>1, <2>4
    <3>2. hydrated => \A n \in at_seq + 1 .. Followed : \E q \in queued' : q.seq = n
      BY <3>1, <2>2, <2>4, <1>0, <1>t DEF QueueInv
    <3>3. QED
      BY <3>1, <3>2, <2>2, <2>3, <1>0 DEF QueueInv, Moves
  <2>5. CASE DropMirror
    BY <2>5, DroppedQueue
  <2>6. CASE /\ at_seq + 1 = p.seq /\ Reconcile(p.seq, mirror, p.written)
             /\ queued' = queued \ {p} /\ UNCHANGED <<hydrating, pending, held>>
    <3>1. hydrated' /\ at_seq' = p.seq /\ p.seq <= Followed
      BY <2>6, <1>0 DEF Reconcile, QueueInv
    <3>2. at_seq <= Followed
      BY <3>1, <2>6, <1>t DEF Seqs
    <3>3. ASSUME NEW n \in p.seq + 1 .. Followed, hydrated PROVE \E q \in queued' : q.seq = n
      <4>1. n \in at_seq + 1 .. Followed /\ n # p.seq
        BY <2>6, <1>t DEF Seqs
      <4>2. QED
        BY <4>1, <3>3, <2>2, <2>6, <1>0 DEF QueueInv
    <3>4. hydrated
      BY <1>0 DEF QueueInv
    <3>5. QED
      BY <3>1, <3>3, <3>4, <2>2, <2>3, <2>6, <1>0 DEF QueueInv, Moves
  <2>7. QED
    BY <2>1, <2>4, <2>5, <2>6
<1>7. CASE ReplayEnds
  <2>1. Followed' = Followed
    BY <1>7, <1>0 DEF ReplayEnds, Followed, TypeOK
  <2>2. hydrated => at_seq = Followed
    BY <1>7, <1>0, <1>t DEF ReplayEnds, QueueInv, Seqs
  <2>3. QED
    BY <1>7, <2>1, <2>2, <1>0 DEF ReplayEnds, QueueInv, Moves, TypeOK
<1>8. CASE Unready
  <2>1. CASE DropMirror
    BY <2>1, DroppedQueue
  <2>2. CASE UNCHANGED <<hydrated, at_seq, buildVars>>
    <3>1. Followed' = Followed /\ pc # "replay" /\ pc' # "replay"
      BY <1>8 DEF Unready, Followed
    <3>2. QED
      BY <2>2, <3>1, <1>0 DEF QueueInv, Moves
  <2>3. QED
    BY <1>8, <2>1, <2>2 DEF Unready
<1>9. CASE Propose
  <2>1. Followed' = Followed
    BY <1>9 DEF Propose, Followed
  <2>2. QED
    BY <1>9, <2>1, <1>0 DEF Propose, QueueInv, Moves
<1>10. CASE OursLand
  <2>1. landed' = Cur /\ pc' = "poll" /\ caller' = "commit" /\ UNCHANGED <<at_seq, hydrated, buildVars>>
        /\ pc = "offered"
    BY <1>10 DEF OursLand, Lands
  <2>2. Followed' = Followed
    BY <2>1, <1>t DEF Followed, Cur
  <2>3. QED
    BY <2>1, <2>2, <1>0 DEF QueueInv, Moves
<1>11. CASE NetworkLands
  <2>1. landed' = Cur /\ pc' = "poll" /\ caller' = "commit" /\ UNCHANGED <<at_seq, hydrated, buildVars>>
        /\ pc \in {"offered", "redo"}
    BY <1>11 DEF NetworkLands, Lands
  <2>2. Followed' = Followed
    BY <2>1, <1>t DEF Followed, Cur
  <2>3. QED
    BY <2>1, <2>2, <1>0 DEF QueueInv, Moves
<1>12. CASE HeldBack
  <2>1. Followed' = Followed
    BY <1>12 DEF HeldBack, Followed
  <2>2. QED
    BY <1>12, <2>1, <1>0 DEF HeldBack, QueueInv, Moves
<1>13. CASE Mismatch
  BY <1>13, DroppedQueue DEF Mismatch
<1>14. CASE Queue
  <2>1. Followed' = landed /\ Followed = landed - 1 /\ pc' = "next" /\ ~hydrated
    BY <1>14, <1>0 DEF Queue, Followed, PhaseInv
  <2>2. queued = {} /\ queued' = {} /\ ~hydrated'
    BY <1>14, <1>0 DEF Queue, PhaseInv
  <2>3. CASE hydrating = None
    BY <1>14, <2>1, <2>2, <2>3, <1>0 DEF Queue, BuildInv, QueueInv
  <2>4. CASE hydrating # None /\ Cardinality(pending) >= PendingCap
    BY <1>14, <2>1, <2>2, <2>4 DEF Queue, QueueInv
  <2>5. CASE hydrating # None /\ ~(Cardinality(pending) >= PendingCap)
    <3>1. pending' = pending \cup {[seq |-> landed, written |-> offer]} /\ hydrating' = hydrating
      BY <1>14, <2>5 DEF Queue
    <3>2. Moves(landed, offer)
      BY <1>14, <1>0 DEF Queue, PhaseInv
    <3>3. \A q \in pending' : Moves(q.seq, q.written) /\ q.seq <= landed
      BY <3>1, <3>2, <2>1, <1>0, <1>t DEF QueueInv
    <3>4. hydrating.at \in Nat /\ hydrating.at <= landed - 1
      BY <2>1, <2>5, <1>0, MirrorConstants DEF QueueInv, TypeOK, Seqs
    <3>5. ASSUME NEW n \in hydrating.at + 1 .. landed PROVE \E q \in pending' : q.seq = n
      <4>1. CASE n = landed
        <5>1. [seq |-> landed, written |-> offer] \in pending'
          BY <3>1
        <5>2. [seq |-> landed, written |-> offer].seq = n
          BY <4>1
        <5>3. QED
          BY <5>1, <5>2
      <4>2. CASE n # landed
        <5>1. n \in hydrating.at + 1 .. Followed
          BY <2>1, <3>4, <4>2, <1>t
        <5>2. QED
          BY <5>1, <3>1, <2>5, <1>0 DEF QueueInv
      <4>3. QED
        BY <4>1, <4>2
    <3>6. QED
      BY <2>1, <2>2, <3>1, <3>3, <3>4, <3>5, <1>t DEF QueueInv, Moves
  <2>6. QED
    BY <2>3, <2>4, <2>5
<1>15. CASE Follow
  <2>1. CASE DropMirror
    BY <2>1, DroppedQueue
  <2>2. CASE Reconcile(landed, Undone, offer) /\ UNCHANGED buildVars
    <3>1. Followed' = landed /\ pc' = "next" /\ hydrated
      BY <1>15 DEF Follow, Followed
    <3>2. hydrating = None /\ pending = {} /\ queued = {}
      BY <1>15, <3>1, <1>0 DEF Follow, BuildInv, PhaseInv
    <3>3. QED
      BY <2>2, <3>1, <3>2, <1>t DEF Reconcile, QueueInv
  <2>3. QED
    BY <1>15, <2>1, <2>2 DEF Follow
<1>16. CASE UNCHANGED vars
  BY <1>16, <1>0 DEF vars, QueueInv, Followed, Moves
<1>17. QED
  BY <1>1, <1>2, <1>3, <1>4, <1>5, <1>6, <1>7, <1>8, <1>9, <1>10, <1>11, <1>12, <1>13, <1>14,
     <1>15, <1>16 DEF Next

-------------------------------------------------------------------------------
(* The mirror *)

MirrorHas(m, n, bad, overflow) == \A k \in Keys : Entry(m, n, bad, overflow, k)

LEMMA MirrorIsEntries == MirrorIsLedger <=> (hydrated => MirrorHas(Undone, at_seq, bad_keys, bad_overflow))
  BY DEF MirrorIsLedger, MirrorHas, Entry

LEMMA MirrorIsEntriesNext ==
  MirrorIsLedger' <=> (hydrated' => MirrorHas(Undone', at_seq', bad_keys', bad_overflow'))
  BY DEF MirrorIsLedger, MirrorHas, Entry

\* What does not touch the mirror, nor what it holds, leaves it the ledger.
LEMMA MirrorKept ==
  ASSUME MirrorIsLedger, UNCHANGED <<hydrated, at_seq, bad_keys, bad_overflow>>, Undone' = Undone
  PROVE  MirrorIsLedger'
  BY DEF MirrorIsLedger

\* A proposal can be undone.
LEMMA ProposeHolds == IInv /\ Propose => held' # None /\ Undone' = Undone
<1> SUFFICES ASSUME IInv, Propose PROVE held' # None /\ Undone' = Undone
  OBVIOUS
<1>0. TypeOK /\ PhaseInv
  BY DEF IInv
<1>1. PICK post \in State :
        /\ mirror' = post
        /\ held' = [seq |-> Cur, undo |-> [k \in {j \in Keys : post[j] # Undone[j]} |-> Undone[k]]]
  BY DEF Propose
<1>2. held' # None
  <2>1. [k \in {j \in Keys : post[j] # Undone[j]} |-> Undone[k]] \in Writes
    <3>1. [k \in {j \in Keys : post[j] # Undone[j]} |-> Undone[k]]
            \in [{j \in Keys : post[j] # Undone[j]} -> Value]
      BY <1>0, UndoneState DEF State
    <3>2. {j \in Keys : post[j] # Undone[j]} \in SUBSET Keys
      OBVIOUS
    <3>3. QED
      BY <3>1, <3>2 DEF Writes
  <2>2. Cur \in Seqs
    BY <1>0, MirrorConstants DEF Propose, PhaseInv, TypeOK, Cur, Seqs
  <2>3. QED
    BY <1>1, <2>1, <2>2, MirrorConstants
<1>3. Undone' = Overwrite(post, held'.undo)
  BY <1>1, <1>2 DEF Undone
<1>4. Overwrite(post, held'.undo) = Undone
  BY <1>0, <1>1, UndoneState DEF Overwrite, State
<1>5. QED
  BY <1>2, <1>3, <1>4

LEMMA MirrorStep ==
  ASSUME ~ScanErrors, IInv, MirrorIsLedger, [Next]_vars
  PROVE  MirrorIsLedger'
<1>0. TypeOK /\ PhaseInv /\ BuildInv /\ QueueInv /\ MirrorIsLedger
  BY DEF IInv
<1>t. landed \in Nat /\ Followed \in Seqs /\ at_seq \in Nat
      /\ \A q \in pending \cup queued : q.seq \in Nat
  BY <1>0, FollowedType, MirrorConstants DEF TypeOK, Seqs
<1>d. ASSUME DropMirror PROVE MirrorIsLedger'
  BY <1>d DEF DropMirror, MirrorIsLedger
<1> USE DEF mirrorVars, buildVars, writerVars, history
<1>1. CASE UNCHANGED <<mirrorVars, held>>
  <2>1. Undone' = Undone
    BY <1>1 DEF Undone
  <2>2. QED
    BY <1>1, <2>1, <1>0, MirrorKept
<1>2. CASE BuildEnds \/ PollNothing \/ PollNoMirror \/ ReplayEnds \/ OursLand \/ NetworkLands \/ UNCHANGED vars
  BY <1>1, <1>2 DEF BuildEnds, PollNothing, PollNoMirror, ReplayEnds, OursLand, NetworkLands, Lands, vars
<1>3. CASE Begin
  <2>1. CASE UNCHANGED <<hydrated, mirror, hydrating, pending>>
    BY <1>1, <1>3, <2>1 DEF Begin
  <2>2. CASE Hydrate
    BY <2>2 DEF Hydrate, MirrorIsLedger
  <2>3. QED
    BY <1>3, <2>1, <2>2 DEF Begin
<1>4. CASE Install
  <2>1. held' = None
    BY <1>4, <1>0 DEF Install, Finished, BuildInv
  <2>2. hydrating.at \in Seqs
    BY <1>4, <1>0 DEF Install, Finished, TypeOK
  <2>3. MirrorHas(mirror', hydrating.at, bad_keys', bad_overflow')
    <3> DEFINE snap == Scanned(hydrating.at, {})
    <3>1. snap = Chain[hydrating.at] /\ Chain[hydrating.at] \in State
      BY <2>2, MirrorConstants DEF State, Scanned
    <3>2. /\ mirror' = [k \in Keys |-> IF snap[k] \in Undecodable THEN Absent ELSE snap[k]]
          /\ NoteBad({}, FALSE, {k \in Keys : ~Clean(snap[k])})
      BY <1>4 DEF Install
    <3> HIDE DEF snap
    <3>3. QED
      BY <3>1, <3>2, InstallFollows DEF MirrorHas, Entry
  <2>4. Undone' = mirror' /\ at_seq' = hydrating.at
    BY <1>4, <2>1 DEF Install, Undone
  <2>5. QED
    BY <2>3, <2>4, MirrorIsEntriesNext
<1>5. CASE Replay
  <2>1. PICK p \in queued :
         /\ InOrder(p)
         /\ IF p.seq <= at_seq
            THEN queued' = queued \ {p} /\ UNCHANGED <<mirrorVars, hydrating, pending, held>>
            ELSE IF at_seq + 1 # p.seq \/ CannotFollow(p.written)
            THEN DropMirror
            ELSE /\ Reconcile(p.seq, mirror, p.written)
                 /\ queued' = queued \ {p} /\ UNCHANGED <<hydrating, pending, held>>
    BY <1>5 DEF Replay
  <2>2. CASE UNCHANGED <<mirrorVars, held>>
    BY <1>1, <2>2
  <2>3. CASE /\ at_seq + 1 = p.seq /\ ~CannotFollow(p.written)
             /\ Reconcile(p.seq, mirror, p.written) /\ UNCHANGED held
    <3>1. held = None /\ held' = None
      BY <1>5, <2>3, <1>0 DEF Replay, BuildInv
    <3>2. Undone = mirror /\ Undone' = mirror'
      BY <3>1 DEF Undone
    <3>3. hydrated /\ Moves(p.seq, p.written) /\ p.seq - 1 = at_seq /\ mirror \in State
      BY <2>3, <1>0, <1>t DEF QueueInv, TypeOK
    <3>4. MirrorHas(mirror, p.seq - 1, bad_keys, bad_overflow)
      BY <3>2, <3>3, <1>0, MirrorIsEntries
    <3>5. MirrorHas(mirror', p.seq, bad_keys', bad_overflow')
      BY <2>3, <3>3, <3>4, <1>0, ReconcileFollows DEF MirrorHas
    <3>6. at_seq' = p.seq
      BY <2>3 DEF Reconcile
    <3>7. QED
      BY <3>2, <3>5, <3>6, MirrorIsEntriesNext
  <2>4. QED
    BY <2>1, <2>2, <2>3, <1>d
<1>6. CASE Unready
  <2>1. CASE mirror' = Undone /\ held' = None /\ UNCHANGED <<hydrated, at_seq, bad_keys, bad_overflow>>
    <3>1. Undone' = Undone
      BY <2>1 DEF Undone
    <3>2. QED
      BY <2>1, <3>1, <1>0, MirrorKept
  <2>2. QED
    BY <1>6, <2>1, <1>d DEF Unready
<1>7. CASE Propose
  <2>1. Undone' = Undone
    BY <1>7, ProposeHolds
  <2>2. QED
    BY <1>7, <2>1, <1>0, MirrorKept DEF Propose
<1>8. CASE HeldBack
  <2>1. Undone' = Undone
    BY <1>8 DEF HeldBack, TakeBack, Undone
  <2>2. QED
    BY <1>8, <2>1, <1>0, MirrorKept DEF HeldBack
<1>9. CASE Mismatch
  BY <1>9, <1>d DEF Mismatch
<1>10. CASE Queue
  <2>1. ~hydrated'
    BY <1>10 DEF Queue
  <2>2. QED
    BY <2>1 DEF MirrorIsLedger
<1>11. CASE Follow
  <2>1. CASE /\ ~CannotFollow(offer) /\ Reconcile(landed, Undone, offer) /\ held' = None
             /\ at_seq + 1 = landed
    <3>1. Undone' = mirror' /\ at_seq' = landed
      BY <2>1 DEF Undone, Reconcile
    <3>2. hydrated /\ Moves(landed, offer) /\ landed - 1 = at_seq /\ Undone \in State
      BY <1>11, <2>1, <1>0, <1>t, UndoneState DEF Follow, PhaseInv
    <3>3. MirrorHas(Undone, landed - 1, bad_keys, bad_overflow)
      BY <3>2, <1>0, MirrorIsEntries
    <3>4. MirrorHas(mirror', landed, bad_keys', bad_overflow')
      BY <2>1, <3>2, <3>3, <1>0, ReconcileFollows DEF MirrorHas
    <3>5. QED
      BY <3>1, <3>4, MirrorIsEntriesNext
  <2>2. QED
    BY <1>11, <2>1, <1>d DEF Follow
<1>12. QED
  BY <1>2, <1>3, <1>4, <1>5, <1>6, <1>7, <1>8, <1>9, <1>10, <1>11 DEF Next

LEMMA InvStep == IInv /\ [Next]_vars => IInv'
  BY TypeStep, PhaseStep, BuildStep, QueueStep DEF IInv

\* Every variable keeps its type, the queue and the bad keys their caps, for
\* every chain, codec and engine.
THEOREM TypeCorrect == Spec => []TypeOK
<1>1. IInv => TypeOK
  BY DEF IInv
<1>2. QED
  BY <1>1, InitInv, InvStep, PTL DEF Spec

\* The mirror without the proposal it holds is the ledger at_seq names
\* (hydrate, poll_hydrate, propose, commit, abort, reconcile), if the scan of
\* the store reads every entry.
THEOREM MirrorFollows ==
  ASSUME ~ScanErrors
  PROVE  Spec => []MirrorIsLedger
<1>1. Init => MirrorIsLedger
  BY DEF Init, MirrorIsLedger
<1>2. IInv /\ MirrorIsLedger /\ [Next]_vars => MirrorIsLedger'
  BY MirrorStep
<1>3. QED
  BY <1>1, <1>2, InitInv, InvStep, PTL DEF Spec

\* propose and commit find a mirror at the parent of their ledger.
THEOREM NeverGaps == Spec => []NoGap
<1>1. IInv => NoGap
  <2> SUFFICES ASSUME IInv PROVE NoGap
    OBVIOUS
  <2>1. landed \in Nat
    BY MirrorConstants DEF IInv, TypeOK, Seqs
  <2>2. QED
    BY <2>1 DEF IInv, QueueInv, PhaseInv, Followed, NoGap, Cur
<1>2. QED
  BY <1>1, InitInv, InvStep, PTL DEF Spec

\* poll_hydrate's replay of the queue loses the mirror only to the codec.
THEOREM ReplayKeepsMirror == Spec => ReplayCompletes
<1>1. IInv /\ [Next]_vars =>
        [pc = "replay" /\ hydrated /\ ~hydrated' => \E q \in queued : CannotFollow(q.written)]_vars
  <2> SUFFICES ASSUME IInv, Next, pc = "replay", hydrated, ~hydrated'
               PROVE  \E q \in queued : CannotFollow(q.written)
    OBVIOUS
  <2>1. BuildEnds \/ Replay \/ ReplayEnds
    BY DEF Next, Begin, PollNothing, PollNoMirror, Install, Unready, Propose, OursLand,
           NetworkLands, HeldBack, Mismatch, Queue, Follow
  <2>2. Replay
    BY <2>1 DEF BuildEnds, ReplayEnds, mirrorVars
  <2>3. PICK p \in queued :
         /\ InOrder(p)
         /\ IF p.seq <= at_seq
            THEN queued' = queued \ {p} /\ UNCHANGED <<mirrorVars, hydrating, pending, held>>
            ELSE IF at_seq + 1 # p.seq \/ CannotFollow(p.written)
            THEN DropMirror
            ELSE /\ Reconcile(p.seq, mirror, p.written)
                 /\ queued' = queued \ {p} /\ UNCHANGED <<hydrating, pending, held>>
    BY <2>2 DEF Replay
  <2>4. p.seq \in Nat /\ at_seq \in Nat /\ Followed \in Nat /\ p.seq <= Followed
        /\ \A q \in queued : q.seq \in Nat
    BY MirrorConstants, FollowedType DEF IInv, TypeOK, QueueInv, Seqs
  <2>5. p.seq > at_seq /\ (at_seq + 1 # p.seq \/ CannotFollow(p.written))
    <3>1. ~(p.seq <= at_seq)
      BY <2>3, Zenon DEF mirrorVars
    <3>2. ~Reconcile(p.seq, mirror, p.written)
      BY Zenon DEF Reconcile
    <3>3. QED
      BY <2>3, <2>4, <3>1, <3>2
  <2>6. at_seq + 1 \in at_seq + 1 .. Followed
    BY <2>4, <2>5
  <2>7. PICK q \in queued : q.seq = at_seq + 1
    BY <2>6 DEF IInv, QueueInv
  <2>8. at_seq + 1 = p.seq
    BY <2>3, <2>4, <2>5, <2>7 DEF InOrder
  <2>9. QED
    BY <2>5, <2>8
<1>2. QED
  BY <1>1, InitInv, InvStep, PTL DEF Spec, ReplayCompletes

-------------------------------------------------------------------------------
(* The breaker *)

\* Our bytes' failures, and what the writer remembers of them.
FailInv ==
  /\ writer_fails \subseteq failed /\ failed \subseteq 1 .. landed + 1 /\ IsFiniteSet(failed)
  /\ Cur \in failed => distrust = Cur
  /\ pc = "offered" /\ offer # None => Cur \notin failed /\ ~writer_tripped
  /\ \A f \in failed \ writer_fails : Cur - f >= BreakerWindow
  /\ writer_tripped \/ Cardinality(writer_fails) < BreakerFails
  /\ writer_tripped => ~hydrated /\ hydrating = None

LEMMA FailInit == Init => FailInv /\ BreakerHolds
<1> SUFFICES ASSUME Init PROVE FailInv /\ BreakerHolds
  OBVIOUS
<1>1. Cardinality({}) = 0 /\ IsFiniteSet({})
  BY FS_EmptySet
<1>2. FailInv
  BY <1>1, MirrorConstants DEF Init, FailInv
<1>3. ASSUME NEW s \in Seqs
      PROVE  Cardinality({f \in failed : f \in s - BreakerWindow + 1 .. s}) <= BreakerFails
  <2>1. {f \in failed : f \in s - BreakerWindow + 1 .. s} = {}
    BY DEF Init
  <2>2. Cardinality({f \in failed : f \in s - BreakerWindow + 1 .. s}) = 0
    BY <1>1, <2>1, Zenon
  <2>3. 0 <= BreakerFails
    BY MirrorConstants
  <2>4. QED
    BY <2>2, <2>3, Zenon
<1>4. QED
  BY <1>2, <1>3 DEF BreakerHolds

\* A failure of our bytes.
LEMMA MismatchFails ==
  ASSUME IInv, FailInv, BreakerHolds, Mismatch
  PROVE  FailInv' /\ BreakerHolds'
<1>1. Cur \in Nat /\ landed \in Nat /\ Cur = landed + 1 /\ Cur' = Cur /\ landed' = landed
  BY MirrorConstants DEF IInv, TypeOK, Seqs, Mismatch, Cur
<1>2. /\ writer_fails' = {s \in writer_fails : Cur - s < BreakerWindow} \cup {Cur}
      /\ failed' = failed \cup {Cur} /\ distrust' = Cur /\ pc' = "redo" /\ offer' = None
      /\ hydrated' = FALSE /\ hydrating' = None
  BY DEF Mismatch, Recent, DropMirror
<1>3. writer_fails \subseteq failed /\ IsFiniteSet(failed) /\ IsFiniteSet(writer_fails)
      /\ failed \subseteq 1 .. landed + 1
  BY FS_Subset DEF FailInv
<1>4. ~writer_tripped /\ Cardinality(writer_fails) < BreakerFails /\ Cur \notin failed
  BY DEF Mismatch, FailInv
<1>5. IsFiniteSet(failed') /\ IsFiniteSet(writer_fails') /\ Cardinality(writer_fails') <= BreakerFails
  <2> DEFINE recent == {s \in writer_fails : Cur - s < BreakerWindow}
  <2>1. IsFiniteSet(recent) /\ Cardinality(recent) <= Cardinality(writer_fails)
    BY <1>3, FS_Subset
  <2>2. Cardinality(recent) \in Nat /\ Cardinality(writer_fails) \in Nat
    BY <1>3, <2>1, FS_CardinalityType
  <2>3. Cardinality(recent \cup {Cur}) <= Cardinality(recent) + 1 /\ IsFiniteSet(recent \cup {Cur})
    BY <2>1, <2>2, FS_AddElement
  <2>4. IsFiniteSet(failed \cup {Cur})
    BY <1>3, FS_AddElement
  <2>5. Cardinality(recent \cup {Cur}) \in Nat
    BY <2>3, FS_CardinalityType
  <2>6. writer_fails' = recent \cup {Cur}
    BY <1>2
  <2> HIDE DEF recent
  <2>7. BreakerFails \in Nat
    BY MirrorConstants
  <2>8. Cardinality(recent \cup {Cur}) <= BreakerFails
    BY <1>4, <2>1, <2>2, <2>3, <2>5, <2>7
  <2>9. QED
    BY <1>2, <2>3, <2>4, <2>6, <2>8, Zenon
<1>6. writer_tripped' \/ Cardinality(writer_fails') < BreakerFails
  <2>1. writer_tripped' <=> (writer_tripped \/ Cardinality(writer_fails') >= BreakerFails)
    BY DEF Mismatch
  <2>2. Cardinality(writer_fails') \in Nat
    BY <1>5, FS_CardinalityType
  <2>3. QED
    BY <2>1, <2>2, MirrorConstants
<1>7. \A f \in failed' \ writer_fails' : Cur' - f >= BreakerWindow
  BY <1>1, <1>2, <1>3, MirrorConstants DEF FailInv
<1>8. FailInv'
  <2>0. writer_fails' \subseteq failed'
    BY <1>2, <1>3
  <2>1. failed' \subseteq 1 .. landed' + 1
    <3>1. Cur \in 1 .. landed + 1
      BY <1>1
    <3>2. QED
      BY <1>1, <1>2, <1>3, <3>1, Zenon
  <2>2. Cur' \in failed' => distrust' = Cur'
    BY <1>1, <1>2
  <2>3. ~(pc' = "offered") /\ ~hydrated' /\ hydrating' = None
    BY <1>2
  <2>4. /\ pc' = "offered" /\ offer' # None => Cur' \notin failed' /\ ~writer_tripped'
        /\ writer_tripped' => ~hydrated' /\ hydrating' = None
    BY <2>3
  <2>5. IsFiniteSet(failed')
    BY <1>5
  <2>6. QED
    BY <1>6, <1>7, <2>0, <2>1, <2>2, <2>4, <2>5 DEF FailInv
<1>9. ASSUME NEW s \in Seqs
      PROVE  Cardinality({f \in failed' : f \in s - BreakerWindow + 1 .. s}) <= BreakerFails
  <2> DEFINE in(S) == {f \in S : f \in s - BreakerWindow + 1 .. s}
  <2>0. s \in Nat /\ BreakerWindow \in Nat
    BY MirrorConstants DEF Seqs
  <2>1. CASE Cur \notin s - BreakerWindow + 1 .. s
    <3>1. in(failed') = in(failed)
      BY <1>2, <2>1
    <3>2. QED
      BY <3>1 DEF BreakerHolds
  <2>2. CASE Cur \in s - BreakerWindow + 1 .. s
    <3>1. in(failed') \subseteq writer_fails'
      <4> SUFFICES ASSUME NEW f \in failed', f \in s - BreakerWindow + 1 .. s
                   PROVE  f \in writer_fails'
        OBVIOUS
      <4>1. f \in Nat /\ f <= Cur /\ Cur - f < BreakerWindow
        BY <1>1, <1>2, <1>3, <2>0, <2>2
      <4>2. ~(Cur' - f >= BreakerWindow)
        BY <1>1, <2>0, <4>1
      <4>3. QED
        BY <1>7, <4>2, Zenon
    <3>2. Cardinality(in(failed')) <= Cardinality(writer_fails') /\ IsFiniteSet(in(failed'))
      BY <3>1, <1>5, FS_Subset
    <3>3. Cardinality(in(failed')) \in Nat /\ Cardinality(writer_fails') \in Nat
      BY <3>2, <1>5, FS_CardinalityType
    <3>4. QED
      BY <3>2, <3>3, <1>5, MirrorConstants
  <2>3. QED
    BY <2>1, <2>2
<1>10. QED
  BY <1>8, <1>9 DEF BreakerHolds

LEMMA FailStep == IInv /\ FailInv /\ BreakerHolds /\ [Next]_vars => FailInv' /\ BreakerHolds'
<1> SUFFICES ASSUME IInv, FailInv, BreakerHolds, [Next]_vars PROVE FailInv' /\ BreakerHolds'
  OBVIOUS
<1>0. TypeOK /\ PhaseInv /\ BuildInv /\ QueueInv
  BY DEF IInv
<1>t. landed \in Nat
  BY <1>0, MirrorConstants DEF TypeOK, Seqs
<1>b. ASSUME UNCHANGED failed PROVE BreakerHolds'
  BY <1>b DEF BreakerHolds
<1> USE DEF mirrorVars, buildVars, writerVars, history
<1>1. CASE Mismatch
  BY <1>1, MismatchFails
<1>2. CASE BuildEnds
  <2>1. UNCHANGED failed /\ FailInv'
    BY <1>2 DEF BuildEnds, FailInv, Cur
  <2>2. QED
    BY <2>1, <1>b
<1>3. CASE Begin
  <2>1. UNCHANGED failed /\ FailInv'
    BY <1>3 DEF Begin, Hydrate, FailInv, Cur
  <2>2. QED
    BY <2>1, <1>b
<1>4. CASE PollNothing \/ PollNoMirror \/ ReplayEnds
  <2>1. UNCHANGED failed /\ FailInv'
    BY <1>4, <1>0 DEF PollNothing, PollNoMirror, ReplayEnds, FailInv, Cur, TypeOK
  <2>2. QED
    BY <2>1, <1>b
<1>5. CASE Install
  <2>1. ~writer_tripped
    BY <1>5 DEF Install, Finished, FailInv
  <2>2. UNCHANGED failed /\ FailInv'
    BY <1>5, <2>1 DEF Install, FailInv, Cur
  <2>3. QED
    BY <2>2, <1>b
<1>6. CASE Replay
  <2>1. queued # {} /\ pc = "replay" /\ UNCHANGED <<pc, landed, distrust, writer_fails, writer_tripped, failed>>
    BY <1>6 DEF Replay
  <2>2. ~writer_tripped
    BY <2>1, <1>0 DEF QueueInv, FailInv
  <2>3. FailInv'
    BY <2>1, <2>2 DEF FailInv, Cur
  <2>4. QED
    BY <2>1, <2>3, <1>b
<1>7. CASE Unready
  <2>1. /\ UNCHANGED <<landed, distrust, writer_fails, writer_tripped, failed>> /\ offer' = None
        /\ writer_tripped => ~hydrated' /\ hydrating' = None
    BY <1>7 DEF Unready, DropMirror, FailInv
  <2>2. FailInv'
    BY <2>1 DEF FailInv, Cur
  <2>3. QED
    BY <2>1, <2>2, <1>b
<1>8. CASE Propose
  <2>1. /\ UNCHANGED <<landed, distrust, writer_fails, writer_tripped, failed, hydrated, hydrating>>
        /\ distrust # Cur /\ ~writer_tripped
    BY <1>8 DEF Propose, Ready
  <2>2. FailInv'
    BY <2>1 DEF FailInv, Cur
  <2>3. QED
    BY <2>1, <2>2, <1>b
<1>9. CASE OursLand \/ NetworkLands
  <2>1. /\ UNCHANGED <<distrust, writer_fails, writer_tripped, failed, hydrated, hydrating>>
        /\ pc' = "poll" /\ landed' = landed + 1
    BY <1>9 DEF OursLand, NetworkLands, Lands, Cur
  <2>2. \A f \in failed : f \in Nat /\ f <= landed + 1
    BY <1>t DEF FailInv
  <2>3. Cur' \notin failed' /\ failed' \subseteq 1 .. landed' + 1
    BY <1>t, <2>1, <2>2 DEF FailInv, Cur
  <2>4. \A f \in failed' \ writer_fails' : Cur' - f >= BreakerWindow
    BY <1>t, <2>1, <2>2, MirrorConstants DEF FailInv, Cur
  <2>5. FailInv'
    BY <2>1, <2>3, <2>4 DEF FailInv
  <2>6. QED
    BY <2>1, <2>5, <1>b
<1>10. CASE HeldBack
  <2>1. UNCHANGED failed /\ FailInv'
    BY <1>10 DEF HeldBack, FailInv, Cur
  <2>2. QED
    BY <2>1, <1>b
<1>11. CASE Queue
  <2>1. /\ UNCHANGED <<landed, writer_fails, writer_tripped, failed, hydrated>> /\ offer' = None
        /\ hydrating' \in {None, hydrating} /\ pc' = "next"
        /\ distrust = Cur => distrust' = Cur
    BY <1>11, <1>t DEF Queue, Settled, Cur
  <2>2. FailInv'
    BY <2>1 DEF FailInv, Cur
  <2>3. QED
    BY <2>1, <2>2, <1>b
<1>12. CASE Follow
  <2>1. /\ UNCHANGED <<landed, writer_fails, writer_tripped, failed>> /\ offer' = None /\ pc' = "next"
        /\ distrust = Cur => distrust' = Cur
    BY <1>12, <1>t DEF Follow, Settled, Cur
  <2>2. ~writer_tripped
    BY <1>12 DEF Follow, FailInv
  <2>3. FailInv'
    BY <2>1, <2>2 DEF FailInv, Cur
  <2>4. QED
    BY <2>1, <2>3, <1>b
<1>13. CASE UNCHANGED vars
  <2>1. UNCHANGED failed /\ FailInv'
    BY <1>13 DEF vars, FailInv, Cur
  <2>2. QED
    BY <2>1, <1>b
<1>14. QED
  BY <1>1, <1>2, <1>3, <1>4, <1>5, <1>6, <1>7, <1>8, <1>9, <1>10, <1>11, <1>12, <1>13 DEF Next

\* Our bytes fail on a ledger at most once (distrust).
THEOREM FailsOnce == Spec => FailsOncePerLedger
<1>1. FailInv /\ [Next]_vars => [pc = "offered" /\ pc' = "redo" => Cur \notin failed]_vars
  <2> SUFFICES ASSUME FailInv, Next, pc = "offered", pc' = "redo" PROVE Cur \notin failed
    OBVIOUS
  <2>1. Mismatch
    BY DEF Next, BuildEnds, Begin, PollNothing, PollNoMirror, Install, Replay, ReplayEnds, Unready,
           Propose, OursLand, NetworkLands, Lands, HeldBack, Queue, Follow
  <2>2. QED
    BY <2>1 DEF Mismatch, FailInv
<1>2. QED
  BY <1>1, InitInv, InvStep, FailInit, FailStep, PTL DEF Spec, FailsOncePerLedger

\* The breaker: no window of BREAKER_WINDOW ledgers has more than
\* BREAKER_FAILS failures of our bytes.
THEOREM BreakerWorks == Spec => []BreakerHolds
  BY InitInv, InvStep, FailInit, FailStep, PTL DEF Spec
-------------------------------------------------------------------------------
(* A ledger of our own *)

Committing == caller = "commit" /\ pc \in {"poll", "replay", "commit"}

\* Of the keys in S, each one that the network or our engine changed in
\* ledger seq, our engine had right.
RightIn(S, seq, pre, post) ==
  \A k \in S : k \in Changed(seq) \/ Encoded[pre[k]] # Encoded[post[k]] =>
                 Encoded[post[k]] = Chain[seq][k]

\* The offer is the overlay of the proposal held; while its ledger is being
\* committed all is right but the system objects, and then all is.
OwnInv ==
  /\ pc = "offered" /\ offer # None => held # None /\ offer = OurWrites(Undone, mirror)
  /\ own_state.ours /\ Committing =>
       /\ held # None /\ own_state.seq = landed
       /\ made = [seq |-> landed, pre |-> Undone, post |-> mirror]
       /\ RightIn(Keys \ Singletons, landed, Undone, mirror)
  /\ own_state.ours /\ ~Committing =>
       made.seq = own_state.seq /\ RightIn(Keys, made.seq, made.pre, made.post)

\* Our bytes had the state hash: what the overlay wrote is right, and what it
\* did not write neither of us changed.
LEMMA OfferIsRight ==
  ASSUME TypeOK, Deliverable, offer = OurWrites(Undone, mirror)
  PROVE  RightIn(Keys \ Singletons, Cur, Undone, mirror)
<1> SUFFICES ASSUME NEW k \in Keys \ Singletons,
                    k \in Changed(Cur) \/ Encoded[Undone[k]] # Encoded[mirror[k]]
             PROVE  Encoded[mirror[k]] = Chain[Cur][k]
  BY DEF RightIn
<1>1. Cur - 1 = landed
  BY MirrorConstants DEF TypeOK, Seqs, Cur
<1>2. Overwrite(Chain[landed], offer)[k] = Chain[Cur][k]
  BY DEF Deliverable
<1>3. k \in DOMAIN offer => offer[k] = Encoded[mirror[k]]
  BY DEF OurWrites
<1>4. k \in Written(Undone, mirror) => k \in DOMAIN offer
  BY DEF OurWrites
<1>5. CASE k \in DOMAIN offer
  BY <1>2, <1>3, <1>5 DEF Overwrite
<1>6. CASE k \notin DOMAIN offer
  <2>1. Chain[landed][k] = Chain[Cur][k]
    BY <1>2, <1>6 DEF Overwrite
  <2>2. Encoded[Undone[k]] # Encoded[mirror[k]]
    BY <1>1, <2>1 DEF Changed
  <2>3. QED
    BY <1>4, <1>6, <2>2 DEF Written
<1>7. QED
  BY <1>5, <1>6

\* The system objects compared at commit: with the rest, all is right.
LEMMA SingletonsRight ==
  ASSUME TypeOK, held # None, Moves(landed, offer), SingletonsOurs(held.undo),
         RightIn(Keys \ Singletons, landed, Undone, mirror)
  PROVE  RightIn(Keys, landed, Undone, mirror)
<1> SUFFICES ASSUME NEW k \in Singletons, k \in Keys,
                    k \in Changed(landed) \/ Encoded[Undone[k]] # Encoded[mirror[k]]
             PROVE  Encoded[mirror[k]] = Chain[landed][k]
  BY DEF RightIn
<1>1. Overwrite(Chain[landed - 1], offer)[k] = Chain[landed][k]
  BY DEF Moves
<1>2. CASE k \in DOMAIN offer
  BY <1>1, <1>2 DEF SingletonsOurs, Overwrite
<1>3. CASE k \notin DOMAIN offer
  <2>1. Chain[landed - 1][k] = Chain[landed][k]
    BY <1>1, <1>3 DEF Overwrite
  <2>2. Encoded[Undone[k]] # Encoded[mirror[k]]
    BY <2>1 DEF Changed
  <2>3. k \in DOMAIN held.undo /\ Undone[k] = held.undo[k]
    BY <2>2 DEF Undone, Overwrite
  <2>4. QED
    BY <1>3, <2>2, <2>3 DEF SingletonsOurs
<1>4. QED
  BY <1>2, <1>3

LEMMA OwnInit == Init => OwnInv
  BY DEF Init, OwnInv

LEMMA OwnStep == IInv /\ OwnInv /\ [Next]_vars => OwnInv'
<1> SUFFICES ASSUME IInv, OwnInv, [Next]_vars PROVE OwnInv'
  OBVIOUS
<1>0. TypeOK /\ PhaseInv /\ BuildInv /\ QueueInv
  BY DEF IInv
<1>h. Finished \/ pc = "replay" => held = None
  BY <1>0 DEF Finished, BuildInv
<1>k. ASSUME own_state'.ours => own_state.ours, own_state'.seq = own_state.seq, made' = made,
             ~Committing, ~Committing',
             ~(pc' = "offered" /\ offer' # None)
      PROVE  OwnInv'
  BY <1>k DEF OwnInv
<1> USE DEF mirrorVars, buildVars, writerVars, history
<1>1. CASE BuildEnds \/ UNCHANGED vars
  <2>1. UNCHANGED <<pc, caller, landed, offer, mirror, held, own_state, made>>
    BY <1>1 DEF BuildEnds, vars
  <2>2. UNCHANGED <<Undone, Committing>> /\ OurWrites(Undone, mirror)' = OurWrites(Undone, mirror)
    BY <2>1 DEF Undone, Committing, OurWrites, SingletonWrites, Written, Deleted, Cur
  <2>3. QED
    BY <2>1, <2>2 DEF OwnInv
<1>2. CASE Begin
  BY <1>2, <1>k DEF Begin, Committing
<1>3. CASE PollNothing
  <2>1. UNCHANGED <<landed, offer, mirror, held, own_state, made>> /\ Undone' = Undone
    BY <1>3 DEF PollNothing, Undone
  <2>2. Committing' = Committing /\ pc' # "offered"
    BY <1>3, <1>0 DEF PollNothing, Committing, TypeOK
  <2>3. QED
    BY <2>1, <2>2 DEF OwnInv
<1>4. CASE PollNoMirror \/ Install \/ Replay \/ ReplayEnds
  <2>1. held = None
    BY <1>4, <1>h DEF PollNoMirror, Install, Replay, ReplayEnds
  <2>2. own_state' = own_state /\ made' = made
    BY <1>4 DEF PollNoMirror, Install, Replay, ReplayEnds
  <2>3. own_state.ours => ~Committing
    BY <2>1 DEF OwnInv
  <2>4. Committing' = Committing /\ pc' # "offered"
    BY <1>4, <1>0 DEF PollNoMirror, Install, Replay, ReplayEnds, Committing, TypeOK
  <2>5. QED
    BY <2>2, <2>3, <2>4 DEF OwnInv
<1>5. CASE Unready
  BY <1>5, <1>k DEF Unready, Committing
<1>6. CASE Propose
  <2>1. held' # None /\ Undone' = Undone
    BY <1>6, ProposeHolds
  <2>2. PICK post \in State, agree \in BOOLEAN :
          mirror' = post /\ offer' = IF Vouched(Undone, post, agree) THEN OurWrites(Undone, post) ELSE None
    BY <1>6 DEF Propose
  <2>3. offer' # None => offer' = OurWrites(Undone, mirror')
    BY <2>2
  <2>4. landed' = landed
    BY <1>6 DEF Propose
  <2>5. OurWrites(Undone, mirror)' = OurWrites(Undone, mirror')
    BY <2>1, <2>4 DEF OurWrites, SingletonWrites, Written, Deleted, Cur
  <2>6. own_state' = own_state /\ made' = made /\ ~Committing /\ ~Committing'
    BY <1>6 DEF Propose, Committing
  <2>7. QED
    BY <2>1, <2>3, <2>5, <2>6 DEF OwnInv
<1>7. CASE OursLand
  <2>1. /\ own_state' = [seq |-> Cur, ours |-> TRUE] /\ landed' = Cur /\ Committing' /\ pc' # "offered"
        /\ made' = [seq |-> Cur, pre |-> Undone, post |-> mirror]
        /\ UNCHANGED <<mirror, held>>
    BY <1>7 DEF OursLand, Lands, Committing
  <2>2. Undone' = Undone
    BY <2>1 DEF Undone
  <2>3. offer = OurWrites(Undone, mirror) /\ held # None
    BY <1>7 DEF OursLand, Deliverable, OwnInv
  <2>4. RightIn(Keys \ Singletons, Cur, Undone, mirror)
    BY <1>0, <1>7, <2>3, OfferIsRight DEF OursLand
  <2>5. QED
    BY <2>1, <2>2, <2>3, <2>4 DEF OwnInv
<1>8. CASE NetworkLands
  <2>1. ~own_state'.ours /\ pc' # "offered"
    BY <1>8 DEF NetworkLands, Lands
  <2>2. QED
    BY <2>1 DEF OwnInv
<1>9. CASE HeldBack \/ Mismatch
  BY <1>9, <1>k DEF HeldBack, Mismatch, Committing
<1>10. CASE Queue
  <2>1. ~own_state'.ours /\ pc' # "offered"
    BY <1>10, <1>0 DEF Queue, TypeOK
  <2>2. QED
    BY <2>1 DEF OwnInv
<1>11. CASE Follow
  <2>1. made' = made /\ ~Committing' /\ pc' # "offered" /\ own_state'.seq = own_state.seq
    BY <1>11, <1>0 DEF Follow, Committing, TypeOK
  <2>2. ASSUME own_state'.ours
        PROVE  made.seq = own_state.seq /\ RightIn(Keys, made.seq, made.pre, made.post)
    <3>1. own_state.ours /\ SingletonsOurs(IF held = None THEN Nothing ELSE held.undo)
      BY <1>11, <2>2, <1>0 DEF Follow, TypeOK
    <3>2. Committing /\ Moves(landed, offer)
      BY <1>11, <1>0 DEF Follow, Committing, PhaseInv
    <3>3. /\ held # None /\ own_state.seq = landed
          /\ made = [seq |-> landed, pre |-> Undone, post |-> mirror]
          /\ RightIn(Keys \ Singletons, landed, Undone, mirror)
      BY <3>1, <3>2 DEF OwnInv
    <3>4. RightIn(Keys, landed, Undone, mirror)
      BY <1>0, <3>1, <3>2, <3>3, SingletonsRight
    <3>5. QED
      BY <3>3, <3>4
  <2>3. QED
    BY <2>1, <2>2 DEF OwnInv
<1>12. QED
  BY <1>1, <1>2, <1>3, <1>4, <1>5, <1>6, <1>7, <1>8, <1>9, <1>10, <1>11 DEF Next

\* A ledger recorded as all our own is one whose every object our engine had
\* right, for every chain, codec and engine.
THEOREM OwnIsOurs == Spec => []OwnMeansOurs
<1>1. OwnInv => OwnMeansOurs
  BY DEF OwnInv, OwnMeansOurs, RightIn, Committing
<1>2. QED
  BY <1>1, InitInv, InvStep, OwnInit, OwnStep, PTL DEF Spec

-------------------------------------------------------------------------------
(* The build of a ledger: sets put in order *)

\* A set of natural numbers has a least one.
LEMMA LeastNatural ==
  ASSUME NEW S \in SUBSET Nat, S # {}
  PROVE  \E s \in S : \A t \in S : s <= t
<1>1. PICK s \in S : \A t \in S : ~ (<<t, s>> \in OpToRel(<, Nat))
  BY NatLessThanWellFounded, WFMin
<1>2. ASSUME NEW t \in S PROVE s <= t
  <2>1. s \in Nat /\ t \in Nat /\ ~ (t < s)
    BY <1>1 DEF OpToRel
  <2>2. QED
    BY <2>1
<1>3. QED
  BY <1>2

-------------------------------------------------------------------------------
(* Ranks *)

\* R orders S: of two of its members one is prior, and what is prior to a prior one is.
Orders(R, S) ==
  /\ \A t \in S : <<t, t>> \notin R
  /\ \A t, u \in S : t # u => <<t, u>> \in R \/ <<u, t>> \in R
  /\ \A t, u, x \in S : <<t, u>> \in R /\ <<u, x>> \in R => <<t, x>> \in R

\* Those of S prior to t.
Priors(S, R, t) == {u \in S : <<u, t>> \in R}

\* The priors of the members of an ordered set are as many as one likes, and more of the later one.
LEMMA RankIs ==
  ASSUME NEW S, IsFiniteSet(S), NEW R, Orders(R, S)
  PROVE  /\ Cardinality(S) \in Nat
         /\ \A t \in S : Cardinality(Priors(S, R, t)) \in 0 .. Cardinality(S) - 1
         /\ \A t, u \in S : <<t, u>> \in R <=> Cardinality(Priors(S, R, t)) < Cardinality(Priors(S, R, u))
         /\ \A k \in 0 .. Cardinality(S) - 1 : \E t \in S : Cardinality(Priors(S, R, t)) = k
<1> DEFINE r(t) == Cardinality(Priors(S, R, t))
           N == Cardinality(S)
<1>1. N \in Nat
  BY FS_CardinalityType
<1>2. ASSUME NEW t \in S PROVE r(t) \in 0 .. N - 1
  <2>1. Priors(S, R, t) \subseteq S /\ t \notin Priors(S, R, t)
    BY DEF Priors, Orders
  <2>2. r(t) \in Nat /\ r(t) <= N /\ r(t) # N
    BY <2>1, FS_Subset, FS_CardinalityType
  <2> HIDE DEF r, N
  <2>3. QED
    BY <2>2, <1>1
<1>3. ASSUME NEW t \in S, NEW u \in S, <<t, u>> \in R PROVE r(t) < r(u)
  <2>1. Priors(S, R, t) \subseteq Priors(S, R, u)
    BY <1>3 DEF Priors, Orders
  <2>2. t \in Priors(S, R, u) /\ t \notin Priors(S, R, t)
    BY <1>3 DEF Priors, Orders
  <2>3. IsFiniteSet(Priors(S, R, u))
    BY FS_Subset DEF Priors
  <2>4. r(t) <= r(u) /\ r(t) # r(u)
    BY <2>1, <2>2, <2>3, FS_Subset
  <2>5. r(t) \in Int /\ r(u) \in Int
    BY <1>2, <1>1
  <2> HIDE DEF r
  <2>6. QED
    BY <2>4, <2>5
<1>4. ASSUME NEW t \in S, NEW u \in S PROVE <<t, u>> \in R <=> r(t) < r(u)
  <2>1. r(t) \in Int /\ r(u) \in Int
    BY <1>2, <1>1
  <2>2. <<t, u>> \in R => r(t) < r(u)
    BY <1>3
  <2>3. t = u \/ <<t, u>> \in R \/ r(u) < r(t)
    BY <1>3 DEF Orders
  <2> HIDE DEF r
  <2>4. QED
    BY <2>1, <2>2, <2>3
<1>5. ASSUME NEW k \in 0 .. N - 1 PROVE \E t \in S : r(t) = k
  <2> DEFINE T == {r(t) : t \in S}
             f == [t \in S |-> r(t)]
  <2>1. f \in [S -> T] /\ \A y \in T : \E t \in S : f[t] = y
    OBVIOUS
  <2>2. ASSUME NEW t \in S, NEW u \in S, f[t] = f[u] PROVE t = u
    <3>1. r(t) = r(u) /\ r(t) \in Int
      BY <2>2, <1>2, <1>1
    <3>2. ~ (r(t) < r(u)) /\ ~ (r(u) < r(t))
      <4> HIDE DEF r
      <4>1. QED
        BY <3>1
    <3>3. QED
      BY <3>2, <1>3 DEF Orders
  <2>3. f \in Bijection(S, T)
    BY <2>1, <2>2 DEF Bijection, Injection, Surjection, IsInjective
  <2>4. IsFiniteSet(T) /\ Cardinality(T) = N
    BY <2>3, FS_Bijection DEF ExistsBijection
  <2>5. IsFiniteSet(0 .. N - 1) /\ Cardinality(0 .. N - 1) = N
    <3>1. 0 \in Int /\ N - 1 \in Int /\ (IF 0 > N - 1 THEN 0 ELSE (N - 1) - 0 + 1) = N
      BY <1>1
    <3>2. QED
      BY <3>1, FS_Interval
  <2>6. T \subseteq 0 .. N - 1
    BY <1>2
  <2>7. T = 0 .. N - 1
    <3> HIDE DEF T, N
    <3>1. QED
      BY <2>4, <2>5, <2>6, FS_Subset
  <2>8. QED
    BY <2>7
<1>6. QED
  BY <1>1, <1>2, <1>4, <1>5

\* What is ranked: every member once, each after its priors.
LEMMA RankedIs ==
  ASSUME NEW S, IsFiniteSet(S), NEW R, Orders(R, S)
  PROVE  /\ Cardinality(S) \in Nat
         /\ Ranked(S, R) \in [1 .. Cardinality(S) -> S]
         /\ \A t \in S : \E i \in 1 .. Cardinality(S) : Ranked(S, R)[i] = t
         /\ \A i, j \in 1 .. Cardinality(S) : i < j => <<Ranked(S, R)[i], Ranked(S, R)[j]>> \in R
<1> DEFINE N == Cardinality(S)
           q == Ranked(S, R)
           r(t) == Cardinality(Priors(S, R, t))
<1>1. /\ N \in Nat /\ \A t \in S : r(t) \in 0 .. N - 1
      /\ \A t, u \in S : <<t, u>> \in R <=> r(t) < r(u)
      /\ \A k \in 0 .. N - 1 : \E t \in S : r(t) = k
  BY RankIs
<1>2. q = [i \in 1 .. N |-> CHOOSE t \in S : r(t) = i - 1]
  BY DEF Ranked, Priors
<1> HIDE DEF N, q, r
<1>3. ASSUME NEW i \in 1 .. N PROVE q[i] \in S /\ r(q[i]) = i - 1
  <2>1. i - 1 \in 0 .. N - 1
    BY <1>1
  <2>2. \E t \in S : r(t) = i - 1
    BY <1>1, <2>1
  <2>3. q[i] = CHOOSE t \in S : r(t) = i - 1
    BY <1>2
  <2>4. QED
    BY <2>2, <2>3
<1>4. q \in [1 .. N -> S]
  BY <1>2, <1>3
<1>5. ASSUME NEW i \in 1 .. N, NEW j \in 1 .. N, i < j PROVE <<q[i], q[j]>> \in R
  <2>1. r(q[i]) < r(q[j])
    <3>1. i - 1 < j - 1
      BY <1>5, <1>1
    <3>2. QED
      BY <3>1, <1>3
  <2>2. QED
    BY <2>1, <1>1, <1>3
<1>6. ASSUME NEW t \in S PROVE \E i \in 1 .. N : q[i] = t
  <2> DEFINE i == r(t) + 1
  <2>1. i \in 1 .. N /\ i - 1 = r(t) /\ r(t) \in Int
    BY <1>1
  <2> HIDE DEF i
  <2>2. q[i] \in S /\ r(q[i]) = r(t)
    BY <2>1, <1>3
  <2>3. ~ (r(q[i]) < r(t)) /\ ~ (r(t) < r(q[i]))
    BY <2>1, <2>2
  <2>4. q[i] = t
    BY <2>2, <2>3, <1>1 DEF Orders
  <2>5. QED
    BY <2>1, <2>4
<1>7. QED
  BY <1>1, <1>4, <1>5, <1>6 DEF N, q

\* A sequence each of whose members is prior to the later ones is what it holds, ranked.
Sorted(q, R) == \A i, j \in DOMAIN q : i < j => <<q[i], q[j]>> \in R

\* A list in order is the ranking of what it holds.
LEMMA SortedIsRanked ==
  ASSUME NEW S, NEW R, Orders(R, S), NEW q \in Seq(S), Sorted(q, R)
  PROVE  /\ q = Ranked(Range(q), R) /\ IsFiniteSet(Range(q)) /\ Cardinality(Range(q)) = Len(q)
<1> DEFINE n == Len(q)
           T == Range(q)
<1>1. n \in Nat /\ q \in [1 .. n -> S] /\ DOMAIN q = 1 .. n
  BY LenProperties
<1>2. T \subseteq S /\ \A i \in 1 .. n : q[i] \in T
  BY <1>1 DEF Range
<1>3. ASSUME NEW i \in 1 .. n, NEW j \in 1 .. n PROVE <<q[i], q[j]>> \in R <=> i < j
  <2>1. i \in Int /\ j \in Int /\ q[i] \in S /\ q[j] \in S
    BY <1>1
  <2>2. i < j => <<q[i], q[j]>> \in R
    BY <1>1 DEF Sorted
  <2>3. j < i => <<q[j], q[i]>> \in R
    BY <1>1 DEF Sorted
  <2>4. <<q[j], q[i]>> \in R => ~ (<<q[i], q[j]>> \in R)
    BY <2>1 DEF Orders
  <2>5. i = j => ~ (<<q[i], q[j]>> \in R)
    BY <2>1 DEF Orders
  <2>6. i < j \/ j < i \/ i = j
    BY <2>1
  <2>7. QED
    BY <2>2, <2>3, <2>4, <2>5, <2>6, <2>1
<1>4. ASSUME NEW i \in 1 .. n, NEW j \in 1 .. n, q[i] = q[j] PROVE i = j
  <2>1. <<q[i], q[i]>> \notin R
    BY <1>1 DEF Orders
  <2>2. <<q[i], q[j]>> \notin R /\ <<q[j], q[i]>> \notin R
    BY <1>4, <2>1
  <2>3. ~ (i < j) /\ ~ (j < i) /\ i \in Int /\ j \in Int
    BY <1>3, <2>2
  <2>4. QED
    BY <2>3
<1> DEFINE g == [i \in 1 .. n |-> q[i]]
<1>5. g \in Bijection(1 .. n, T)
  <2>1. g \in [1 .. n -> T] /\ \A t \in T : \E i \in 1 .. n : g[i] = t
    BY <1>1, <1>2 DEF Range
  <2>2. \A i, j \in 1 .. n : g[i] = g[j] => i = j
    BY <1>4
  <2> HIDE DEF g
  <2>3. QED
    BY <2>1, <2>2 DEF Bijection, Injection, Surjection, IsInjective
<1>6. IsFiniteSet(T) /\ Cardinality(T) = n
  <2>1. IsFiniteSet(1 .. n) /\ Cardinality(1 .. n) = n
    <3>1. 1 \in Int /\ n \in Int /\ (IF 1 > n THEN 0 ELSE n - 1 + 1) = n
      BY <1>1
    <3>2. QED
      BY <3>1, FS_Interval
  <2> HIDE DEF n, T
  <2>2. ExistsBijection(1 .. n, T)
    BY <1>5 DEF ExistsBijection
  <2>3. QED
    BY <2>1, <2>2, FS_Bijection
<1>7. ASSUME NEW i \in 1 .. n PROVE Cardinality({u \in T : <<u, q[i]>> \in R}) = i - 1
  <2> DEFINE P == {u \in T : <<u, q[i]>> \in R}
             h == [j \in 1 .. i - 1 |-> q[j]]
  <2>1. i - 1 \in Nat /\ \A j \in 1 .. i - 1 : j \in 1 .. n /\ j < i
    BY <1>1
  <2>2. h \in [1 .. i - 1 -> P]
    BY <2>1, <1>2, <1>3
  <2>3. ASSUME NEW u \in P PROVE \E j \in 1 .. i - 1 : h[j] = u
    <3>1. PICK j \in 1 .. n : q[j] = u
      BY <1>1 DEF Range
    <3>2. j < i
      BY <3>1, <1>3
    <3>3. j \in 1 .. i - 1
      BY <3>2, <1>1
    <3>4. QED
      BY <3>1, <3>3
  <2>4. \A j, k \in 1 .. i - 1 : h[j] = h[k] => j = k
    BY <2>1, <1>4
  <2>5. h \in Bijection(1 .. i - 1, P)
    <3> HIDE DEF h, P
    <3>1. QED
      BY <2>2, <2>3, <2>4 DEF Bijection, Injection, Surjection, IsInjective
  <2>6. IsFiniteSet(1 .. i - 1) /\ Cardinality(1 .. i - 1) = i - 1
    <3>1. 1 \in Int /\ i - 1 \in Int /\ (IF 1 > i - 1 THEN 0 ELSE (i - 1) - 1 + 1) = i - 1
      BY <2>1
    <3>2. QED
      BY <3>1, FS_Interval
  <2> HIDE DEF P, h
  <2>7. ExistsBijection(1 .. i - 1, P)
    BY <2>5 DEF ExistsBijection
  <2>8. Cardinality(P) = i - 1
    BY <2>6, <2>7, FS_Bijection
  <2>9. QED
    BY <2>8 DEF P
<1>8. ASSUME NEW i \in 1 .. n PROVE (CHOOSE t \in T : Cardinality({u \in T : <<u, t>> \in R}) = i - 1) = q[i]
  <2> DEFINE c(t) == Cardinality({u \in T : <<u, t>> \in R})
  <2>1. q[i] \in T /\ c(q[i]) = i - 1
    BY <1>2, <1>7
  <2>2. ASSUME NEW t \in T, c(t) = i - 1 PROVE t = q[i]
    <3>1. PICK j \in 1 .. n : q[j] = t
      BY <1>1 DEF Range
    <3>2. c(q[j]) = j - 1
      BY <1>7
    <3> HIDE DEF c
    <3>3. i - 1 = j - 1
      BY <2>2, <3>1, <3>2
    <3>4. i = j
      BY <3>3, <1>1
    <3>5. QED
      BY <3>1, <3>4
  <2> HIDE DEF c
  <2>3. (CHOOSE t \in T : c(t) = i - 1) = q[i]
    BY <2>1, <2>2
  <2>4. QED
    BY <2>3 DEF c
<1>9. q = [i \in 1 .. n |-> q[i]]
  BY <1>1
<1>10. Ranked(T, R) = [i \in 1 .. n |-> CHOOSE t \in T : Cardinality({u \in T : <<u, t>> \in R}) = i - 1]
  BY <1>6 DEF Ranked
<1>11. Ranked(T, R) = [i \in 1 .. n |-> q[i]]
  BY <1>8, <1>10
<1>12. QED
  BY <1>6, <1>9, <1>11

-------------------------------------------------------------------------------
(* The order of a set *)

\* What Less says, part by part.
LEMMA LessIs ==
  ASSUME NEW a, NEW b
  PROVE  Less(a, b) <=> \/ a[1] < b[1]
                        \/ a[1] = b[1] /\ a[2] < b[2]
                        \/ a[1] = b[1] /\ a[2] = b[2] /\ a[3] < b[3]
                        \/ a[1] = b[1] /\ a[2] = b[2] /\ a[3] = b[3] /\ a[4] < b[4]
<1> DEFINE At(i) == a[i] < b[i] /\ \A j \in 1 .. i - 1 : a[j] = b[j]
<1>1. Less(a, b) <=> At(1) \/ At(2) \/ At(3) \/ At(4)
  BY 1 .. 4 = {1, 2, 3, 4} DEF Less
<1>2. At(1) <=> a[1] < b[1]
  BY 1 .. 1 - 1 = {}
<1>3. At(2) <=> a[2] < b[2] /\ a[1] = b[1]
  BY 1 .. 2 - 1 = {1}
<1>4. At(3) <=> a[3] < b[3] /\ a[1] = b[1] /\ a[2] = b[2]
  BY 1 .. 3 - 1 = {1, 2}
<1>5. At(4) <=> a[4] < b[4] /\ a[1] = b[1] /\ a[2] = b[2] /\ a[3] = b[3]
  BY 1 .. 4 - 1 = {1, 2, 3}
<1> HIDE DEF At
<1>6. QED
  BY <1>1, <1>2, <1>3, <1>4, <1>5

\* The network's key and ours put two transactions in the same order.
LEMMA SameOrder ==
  ASSUME NEW B \in SUBSET BuildTxs, NEW t \in BuildTxs, NEW u \in BuildTxs
  PROVE  Before(t, u, SaltOf(B)) <=> Less(NetKey(t, SaltOf(B)), NetKey(u, SaltOf(B)))
<1> DEFINE a == NetKey(t, SaltOf(B))
           b == NetKey(u, SaltOf(B))
           x == XorBits(Account[t], SaltOf(B))
           y == XorBits(Account[u], SaltOf(B))
<1>1. x \in Nat /\ y \in Nat /\ (x = y <=> Account[t] = Account[u])
  BY SaltAssumption
<1>2. Proxy[t].ticket \in BOOLEAN /\ Proxy[u].ticket \in BOOLEAN /\ Proxy[t].n \in Nat /\ Proxy[u].n \in Nat
  BY BuildAssumption
<1>3. a[1] = x /\ b[1] = y /\ a[3] = Proxy[t].n /\ b[3] = Proxy[u].n /\ a[4] = t /\ b[4] = u
  BY DEF NetKey
<1>4. a[2] = (IF Proxy[t].ticket THEN 1 ELSE 0) /\ b[2] = (IF Proxy[u].ticket THEN 1 ELSE 0)
  BY DEF NetKey
<1>5. (a[2] < b[2] <=> ~Proxy[t].ticket /\ Proxy[u].ticket) /\ (a[2] = b[2] <=> Proxy[t].ticket = Proxy[u].ticket)
  BY <1>2, <1>4
<1>6. Before(t, u, SaltOf(B)) <=>
        \/ x < y
        \/ /\ Account[t] = Account[u]
           /\ \/ ~Proxy[t].ticket /\ Proxy[u].ticket
              \/ Proxy[t].ticket = Proxy[u].ticket /\ (Proxy[t].n < Proxy[u].n \/ (Proxy[t].n = Proxy[u].n /\ t < u))
  BY DEF Before, account_key
<1> HIDE DEF a, b, x, y
<1>7. Less(a, b) <=> \/ x < y
                     \/ x = y /\ a[2] < b[2]
                     \/ x = y /\ a[2] = b[2] /\ Proxy[t].n < Proxy[u].n
                     \/ x = y /\ a[2] = b[2] /\ Proxy[t].n = Proxy[u].n /\ t < u
  BY <1>3, LessIs
<1>8. Before(t, u, SaltOf(B)) <=> Less(a, b)
  BY <1>1, <1>5, <1>6, <1>7
<1>9. QED
  BY <1>8 DEF a, b

\* Either orders any set of transactions.
LEMMA LessOrders ==
  ASSUME NEW B \in SUBSET BuildTxs, NEW S \in SUBSET BuildTxs
  PROVE  Orders({p \in S \X S : Less(NetKey(p[1], SaltOf(B)), NetKey(p[2], SaltOf(B)))}, S)
<1> DEFINE R == {p \in S \X S : Less(NetKey(p[1], SaltOf(B)), NetKey(p[2], SaltOf(B)))}
           K(t) == NetKey(t, SaltOf(B))
<1>1. ASSUME NEW t \in S PROVE K(t)[1] \in Int /\ K(t)[2] \in Int /\ K(t)[3] \in Int /\ K(t)[4] \in Int /\ K(t)[4] = t
  <2>1. t \in Nat /\ Proxy[t].n \in Nat /\ XorBits(Account[t], SaltOf(B)) \in Nat
    BY BuildAssumption, SaltAssumption
  <2>2. K(t)[1] = XorBits(Account[t], SaltOf(B)) /\ K(t)[2] = (IF Proxy[t].ticket THEN 1 ELSE 0) /\ K(t)[3] = Proxy[t].n /\ K(t)[4] = t
    BY DEF NetKey
  <2> HIDE DEF K
  <2>3. QED
    BY <2>1, <2>2
<1>2. ASSUME NEW t \in S, NEW u \in S PROVE <<t, u>> \in R <=> Less(K(t), K(u))
  OBVIOUS
<1> HIDE DEF R, K
<1>3. ASSUME NEW t \in S PROVE <<t, t>> \notin R
  BY <1>1, <1>2, LessIs
<1>4. ASSUME NEW t \in S, NEW u \in S, t # u PROVE <<t, u>> \in R \/ <<u, t>> \in R
  <2> DEFINE a == K(t)
             b == K(u)
  <2>1. a[1] \in Int /\ a[2] \in Int /\ a[3] \in Int /\ a[4] \in Int /\ b[1] \in Int /\ b[2] \in Int /\ b[3] \in Int /\ b[4] \in Int /\ a[4] # b[4]
    BY <1>1, <1>4
  <2> HIDE DEF a, b
  <2>2. Less(a, b) \/ Less(b, a)
    BY <2>1, LessIs
  <2>3. QED
    BY <2>2, <1>2 DEF a, b
<1>5. ASSUME NEW t \in S, NEW u \in S, NEW v \in S, <<t, u>> \in R, <<u, v>> \in R PROVE <<t, v>> \in R
  <2> DEFINE a == K(t)
             b == K(u)
             c == K(v)
  <2>1. a[1] \in Int /\ a[2] \in Int /\ a[3] \in Int /\ a[4] \in Int
    BY <1>1
  <2>2. b[1] \in Int /\ b[2] \in Int /\ b[3] \in Int /\ b[4] \in Int
    BY <1>1
  <2>3. c[1] \in Int /\ c[2] \in Int /\ c[3] \in Int /\ c[4] \in Int
    BY <1>1
  <2>4. Less(a, b) /\ Less(b, c)
    BY <1>5, <1>2
  <2> HIDE DEF a, b, c
  <2>5. PICK a1 \in Int, a2 \in Int, a3 \in Int, a4 \in Int : a[1] = a1 /\ a[2] = a2 /\ a[3] = a3 /\ a[4] = a4
    BY <2>1
  <2>6. PICK b1 \in Int, b2 \in Int, b3 \in Int, b4 \in Int : b[1] = b1 /\ b[2] = b2 /\ b[3] = b3 /\ b[4] = b4
    BY <2>2
  <2>7. PICK c1 \in Int, c2 \in Int, c3 \in Int, c4 \in Int : c[1] = c1 /\ c[2] = c2 /\ c[3] = c3 /\ c[4] = c4
    BY <2>3
  <2>8. a1 < b1 \/ (a1 = b1 /\ a2 < b2) \/ (a1 = b1 /\ a2 = b2 /\ a3 < b3) \/ (a1 = b1 /\ a2 = b2 /\ a3 = b3 /\ a4 < b4)
    BY <2>4, <2>5, <2>6, LessIs
  <2>9. b1 < c1 \/ (b1 = c1 /\ b2 < c2) \/ (b1 = c1 /\ b2 = c2 /\ b3 < c3) \/ (b1 = c1 /\ b2 = c2 /\ b3 = c3 /\ b4 < c4)
    BY <2>4, <2>6, <2>7, LessIs
  <2>10. a1 < c1 \/ (a1 = c1 /\ a2 < c2) \/ (a1 = c1 /\ a2 = c2 /\ a3 < c3) \/ (a1 = c1 /\ a2 = c2 /\ a3 = c3 /\ a4 < c4)
    BY <2>8, <2>9
  <2>11. Less(a, c)
    BY <2>10, <2>5, <2>7, LessIs
  <2>12. QED
    BY <2>11, <1>2 DEF a, c
<1>6. QED
  BY <1>3, <1>4, <1>5 DEF Orders, R, K

\* close.rs orders any part of a set as the network's keys do.
LEMMA BeforeOrders ==
  ASSUME NEW B \in SUBSET BuildTxs, NEW S \in SUBSET BuildTxs
  PROVE  /\ {p \in S \X S : Before(p[1], p[2], SaltOf(B))} = {p \in S \X S : Less(NetKey(p[1], SaltOf(B)), NetKey(p[2], SaltOf(B)))}
         /\ Orders({p \in S \X S : Before(p[1], p[2], SaltOf(B))}, S)
<1>1. ASSUME NEW p \in S \X S PROVE Before(p[1], p[2], SaltOf(B)) <=> Less(NetKey(p[1], SaltOf(B)), NetKey(p[2], SaltOf(B)))
  BY SameOrder
<1>2. {p \in S \X S : Before(p[1], p[2], SaltOf(B))} = {p \in S \X S : Less(NetKey(p[1], SaltOf(B)), NetKey(p[2], SaltOf(B)))}
  BY <1>1
<1>3. QED
  BY <1>2, LessOrders

\* So is the order of numbers.
LEMMA LowerOrders ==
  ASSUME NEW S \in SUBSET Nat
  PROVE  Orders(Lower(S), S)
<1>1. \A t, u \in S : <<t, u>> \in Lower(S) <=> t < u
  BY DEF Lower
<1>2. \A t \in S : t \in Int
  OBVIOUS
<1>3. \A t \in S : ~ (t < t)
  BY <1>2
<1>4. \A t, u \in S : t # u => t < u \/ u < t
  BY <1>2
<1>5. \A t, u, v \in S : t < u /\ u < v => t < v
  BY <1>2
<1>6. QED
  BY <1>1, <1>3, <1>4, <1>5 DEF Orders

-------------------------------------------------------------------------------
(* The network's passes *)

\* The results that apply; what a ledger lists; the network's order of a set.
Applied == {"tes", "tec", "kept"}
Listing == [tx : BuildTxs, code : Applied]
NetRel(S) == {p \in S \X S : Less(NetKey(p[1], SaltOf(S)), NetKey(p[2], SaltOf(S)))}

\* The transactions of a list, and those of them that are no Batch's.
Txs(order) == {order[i].tx : i \in DOMAIN order}
\* The transactions listed that are no Batch's.
Tops(order) == Txs(order) \ Inners

\* What the engine may say.
LEMMA ResultIs ==
  ASSUME NEW t \in BuildTxs, NEW before
  PROVE  Result(t, before) \in Applied \cup {"ter", "tef"}
BY BuildAssumption DEF Result, Applied

\* A set of transactions is finite, and so are the inner ones of each.
LEMMA TxsFinite ==
  ASSUME NEW S \in SUBSET BuildTxs
  PROVE  IsFiniteSet(S) /\ Cardinality(S) \in Nat /\ S \in SUBSET Nat
BY BuildAssumption, FS_Subset, FS_CardinalityType

\* What a Batch brings are transactions.
LEMMA InnersAre == \A t \in BuildTxs : Inner[t] \subseteq Inners /\ Inner[t] \subseteq BuildTxs
BY BuildAssumption DEF Inners

\* A transaction that applied is listed first, and what it brought with it after it.
LEMMA ListedIs ==
  ASSUME NEW t \in BuildTxs, NEW code \in Applied
  PROVE  /\ Listed(t, code) \in Seq(Listing) /\ Len(Listed(t, code)) \in Nat \ {0}
         /\ Listed(t, code)[1] = [tx |-> t, code |-> code]
         /\ \A i \in 2 .. Len(Listed(t, code)) : Listed(t, code)[i].tx \in Inner[t] /\ Listed(t, code)[i].code = "tes"
         /\ Txs(Listed(t, code)) = {t} \cup (IF code = "tes" THEN Inner[t] ELSE {})
<1> DEFINE I == Inner[t]
           q == Ranked(I, Lower(I))
           n == IF code = "tes" THEN Cardinality(I) ELSE 0
           r == [i \in 1 .. n |-> [tx |-> q[i], code |-> "tes"]]
           s == <<[tx |-> t, code |-> code]>>
           l == Listed(t, code)
<1>1. I \subseteq BuildTxs /\ I \subseteq Nat /\ IsFiniteSet(I)
  BY InnersAre, TxsFinite
<1>2. /\ Cardinality(I) \in Nat /\ q \in [1 .. Cardinality(I) -> I]
      /\ \A u \in I : \E i \in 1 .. Cardinality(I) : q[i] = u
  BY <1>1, LowerOrders, RankedIs
<1> HIDE DEF I, q
<1>3. n \in Nat /\ \A i \in 1 .. n : i \in 1 .. Cardinality(I) /\ q[i] \in I
  BY <1>2
<1>4. r \in [1 .. n -> Listing]
  BY <1>1, <1>3 DEF Listing, Applied
<1>5. r \in Seq(Listing) /\ Len(r) = n
  <2>2. DOMAIN r = 1 .. n
    OBVIOUS
  <2> HIDE DEF r, n
  <2>1. r \in Seq(Listing)
    BY <1>3, <1>4, SeqDef
  <2>3. Len(r) = n
    BY <2>1, <2>2, <1>3
  <2>4. QED
    BY <2>1, <2>3
<1>6. s \in Seq(Listing) /\ Len(s) = 1 /\ s[1] = [tx |-> t, code |-> code]
  BY DEF Listing
<1>7. l = s \o r
  BY DEF Listed, I, q
<1>8. \A i \in 1 .. n : r[i].tx = q[i] /\ r[i].code = "tes"
  <2> HIDE DEF n
  <2>1. SUFFICES ASSUME NEW i \in 1 .. n PROVE r[i].tx = q[i] /\ r[i].code = "tes"
    OBVIOUS
  <2>2. r[i] = [tx |-> q[i], code |-> "tes"]
    OBVIOUS
  <2>3. QED
    BY <2>2
<1> HIDE DEF r, s, n, l
<1>9. l \in Seq(Listing) /\ Len(l) = 1 + n /\ \A i \in 1 .. 1 + n : l[i] = IF i <= 1 THEN s[i] ELSE r[i - 1]
  <2>1. s \in Seq(Listing) /\ r \in Seq(Listing)
    BY <1>5, <1>6
  <2>2. /\ s \o r \in Seq(Listing) /\ Len(s \o r) = Len(s) + Len(r)
        /\ \A i \in 1 .. Len(s) + Len(r) : (s \o r)[i] = IF i <= Len(s) THEN s[i] ELSE r[i - Len(s)]
    BY <2>1, ConcatProperties
  <2>3. QED
    BY <2>2, <1>5, <1>6, <1>7
<1>10. l[1] = [tx |-> t, code |-> code] /\ DOMAIN l = 1 .. 1 + n
  <2>1. 1 \in 1 .. 1 + n /\ 1 <= 1
    BY <1>3
  <2>2. QED
    BY <2>1, <1>6, <1>9, LenProperties
<1>11. ASSUME NEW i \in 2 .. 1 + n PROVE l[i] = r[i - 1] /\ i - 1 \in 1 .. n
  <2>1. i \in 1 .. 1 + n /\ ~ (i <= 1) /\ i - 1 \in 1 .. n
    BY <1>3
  <2>2. QED
    BY <2>1, <1>9
<1>12. \A i \in 2 .. 1 + n : l[i].tx \in I /\ l[i].code = "tes"
  BY <1>3, <1>8, <1>11
<1>13. Txs(l) = {t} \cup (IF code = "tes" THEN I ELSE {})
  <2>1. ASSUME NEW i \in 1 .. 1 + n PROVE l[i].tx \in {t} \cup (IF code = "tes" THEN I ELSE {})
    <3>1. CASE i = 1
      BY <3>1, <1>10
    <3>2. CASE i # 1
      <4>1. i \in 2 .. 1 + n
        BY <3>2, <1>3
      <4>2. code = "tes"
        BY <4>1, <1>3 DEF n
      <4>3. QED
        BY <4>1, <4>2, <1>12
    <3>3. QED
      BY <3>1, <3>2
  <2>2. t \in Txs(l)
    <3>1. 1 \in 1 .. 1 + n
      BY <1>3
    <3>2. QED
      BY <3>1, <1>10 DEF Txs
  <2>3. ASSUME code = "tes", NEW u \in I PROVE u \in Txs(l)
    <3>1. PICK i \in 1 .. Cardinality(I) : q[i] = u
      BY <1>2
    <3>2. n = Cardinality(I)
      BY <2>3 DEF n
    <3>3. i \in 1 .. n /\ i + 1 \in 2 .. 1 + n /\ (i + 1) - 1 = i /\ i + 1 \in 1 .. 1 + n
      BY <3>2, <1>3
    <3>4. l[i + 1] = r[i]
      BY <3>3, <1>11
    <3>5. l[i + 1].tx = u
      BY <3>4, <3>3, <3>1, <1>8
    <3>6. QED
      BY <3>3, <3>5, <1>10 DEF Txs
  <2>4. QED
    BY <2>1, <2>2, <2>3, <1>10 DEF Txs
<1>14. QED
  BY <1>3, <1>9, <1>10, <1>12, <1>13 DEF l, I

\* w is where a pass stands with rest still to try: what is listed is of S or a Batch's, each of S once;
\* the results are those listed, and the earlier ones; what waits is in order, before all of the rest.
Running(S, B, w, rest) ==
  /\ w = [before |-> w.before, wait |-> w.wait, order |-> w.order]
  /\ w.order \in Seq(Listing) /\ w.wait \in Seq(S)
  /\ w.before = [x \in DOMAIN B \cup Txs(w.order) |-> w.before[x]]
  /\ \A i \in DOMAIN w.order : w.before[w.order[i].tx] = w.order[i].code
  /\ \A x \in DOMAIN B \ Txs(w.order) : w.before[x] = B[x]
  /\ Tops(w.order) \subseteq S
  /\ \A i, j \in DOMAIN w.order : w.order[i].tx = w.order[j].tx /\ w.order[i].tx \notin Inners => i = j
  /\ \A i \in DOMAIN w.order : w.order[i].tx \in Inners => w.order[i].code = "tes"
  /\ Sorted(w.wait, NetRel(S)) /\ \A x \in Range(w.wait), y \in rest : <<x, y>> \in NetRel(S)
  /\ (Range(w.wait) \cup rest) \cap Tops(w.order) = {}

\* What the network does with t.
LEMMA NetStepIs ==
  ASSUME NEW w, w = [before |-> w.before, wait |-> w.wait, order |-> w.order], NEW t, NEW c
  PROVE  LET code == Result(t, w.before) IN
         NetStep(w, t, c) =
           IF code = "ter" \/ (code = "tec" /\ c) THEN [before |-> w.before, wait |-> Append(w.wait, t), order |-> w.order]
           ELSE IF code = "tef" THEN w
           ELSE [before |-> With(w.before, t, code), wait |-> w.wait, order |-> w.order \o Listed(t, code)]
<1> DEFINE code == Result(t, w.before)
           x == w.before
           y == w.wait
           z == w.order
<1> HIDE DEF code
<1>1. w = [before |-> x, wait |-> y, order |-> z]
  OBVIOUS
<1>2. [w EXCEPT !.wait = Append(@, t)] = [w EXCEPT !.wait = Append(y, t)]
  OBVIOUS
<1>3. [w EXCEPT !.before = With(@, t, code), !.order = @ \o Listed(t, code)] = [w EXCEPT !.before = With(x, t, code), !.order = z \o Listed(t, code)]
  BY <1>1
<1>4. NetStep(w, t, c) =
           IF code = "ter" \/ (code = "tec" /\ c) THEN [w EXCEPT !.wait = Append(y, t)]
           ELSE IF code = "tef" THEN w
           ELSE [w EXCEPT !.before = With(x, t, code), !.order = z \o Listed(t, code)]
  BY <1>2, <1>3 DEF NetStep, code
<1> HIDE DEF x, y, z
<1>5. \A p : [w EXCEPT !.wait = p] = [before |-> x, wait |-> p, order |-> z]
  BY <1>1
<1>6. \A p, r : [w EXCEPT !.before = p, !.order = r] = [before |-> p, wait |-> y, order |-> r]
  <2>1. ASSUME NEW p, NEW r PROVE [w EXCEPT !.before = p, !.order = r] = [before |-> p, wait |-> y, order |-> r]
    <3> DEFINE v == [w EXCEPT !.before = p]
    <3>1. v = [before |-> p, wait |-> y, order |-> z]
      BY <1>1
    <3>2. [w EXCEPT !.before = p, !.order = r] = [v EXCEPT !.order = r]
      OBVIOUS
    <3> HIDE DEF v
    <3>3. QED
      BY <3>1, <3>2
  <2>2. QED
    BY <2>1
<1>7. NetStep(w, t, c) =
           IF code = "ter" \/ (code = "tec" /\ c) THEN [before |-> x, wait |-> Append(y, t), order |-> z]
           ELSE IF code = "tef" THEN w
           ELSE [before |-> With(x, t, code), wait |-> y, order |-> z \o Listed(t, code)]
  BY <1>4, <1>5, <1>6
<1>8. QED
  BY <1>7 DEF code, x, y, z

\* Where the members of two joined sequences stand.
LEMMA JoinIs ==
  ASSUME NEW X, NEW p \in Seq(X), NEW q \in Seq(X)
  PROVE  /\ p \o q \in Seq(X) /\ Len(p \o q) = Len(p) + Len(q) /\ Len(p) \in Nat /\ Len(q) \in Nat
         /\ \A i \in DOMAIN p : i \in DOMAIN (p \o q) /\ (p \o q)[i] = p[i]
         /\ \A i \in DOMAIN q : Len(p) + i \in DOMAIN (p \o q) /\ (p \o q)[Len(p) + i] = q[i]
         /\ \A i \in DOMAIN (p \o q) :
              \/ i \in DOMAIN p /\ (p \o q)[i] = p[i]
              \/ \E j \in DOMAIN q : i = Len(p) + j /\ (p \o q)[i] = q[j]
<1> DEFINE m == Len(p)
           n == Len(q)
           l == p \o q
<1>1. m \in Nat /\ n \in Nat /\ DOMAIN p = 1 .. m /\ DOMAIN q = 1 .. n
  BY LenProperties
<1>2. l \in Seq(X) /\ Len(l) = m + n /\ \A i \in 1 .. m + n : l[i] = IF i <= m THEN p[i] ELSE q[i - m]
  BY ConcatProperties
<1>3. DOMAIN l = 1 .. m + n
  BY <1>2, LenProperties
<1> HIDE DEF m, n, l
<1>4. ASSUME NEW i \in 1 .. m PROVE i \in 1 .. m + n /\ l[i] = p[i]
  <2>1. i \in 1 .. m + n /\ i <= m
    BY <1>1
  <2>2. QED
    BY <2>1, <1>2
<1>5. ASSUME NEW i \in 1 .. n PROVE m + i \in 1 .. m + n /\ l[m + i] = q[i]
  <2>1. m + i \in 1 .. m + n /\ ~ (m + i <= m) /\ (m + i) - m = i
    BY <1>1
  <2>2. QED
    BY <2>1, <1>2
<1>6. ASSUME NEW i \in 1 .. m + n, ~ (i \in 1 .. m) PROVE \E j \in 1 .. n : i = m + j /\ l[i] = q[j]
  <2>1. i - m \in 1 .. n /\ i = m + (i - m) /\ ~ (i <= m)
    BY <1>6, <1>1
  <2>2. l[i] = q[i - m]
    BY <2>1, <1>2
  <2>3. QED
    BY <2>1, <2>2
<1>7. \A i \in 1 .. m + n : \/ i \in 1 .. m /\ l[i] = p[i]
                            \/ \E j \in 1 .. n : i = m + j /\ l[i] = q[j]
  BY <1>4, <1>6
<1>8. QED
  BY <1>1, <1>2, <1>3, <1>4, <1>5, <1>7 DEF m, n, l

\* One more at the end.
LEMMA AppendIs ==
  ASSUME NEW X, NEW q \in Seq(X), NEW e \in X
  PROVE  /\ Append(q, e) \in Seq(X) /\ Len(Append(q, e)) = Len(q) + 1 /\ Len(q) \in Nat
         /\ DOMAIN q = 1 .. Len(q) /\ DOMAIN Append(q, e) = 1 .. Len(q) + 1
         /\ \A i \in 1 .. Len(q) : Append(q, e)[i] = q[i]
         /\ Append(q, e)[Len(q) + 1] = e
         /\ Range(Append(q, e)) = Range(q) \cup {e}
<1> DEFINE n == Len(q)
           l == Append(q, e)
<1>1. n \in Nat /\ DOMAIN q = 1 .. n
  BY LenProperties
<1>2. l \in Seq(X) /\ Len(l) = n + 1 /\ (\A i \in 1 .. n : l[i] = q[i]) /\ l[n + 1] = e
  OBVIOUS
<1>3. DOMAIN l = 1 .. n + 1
  BY <1>2, LenProperties
<1> HIDE DEF n, l
<1>4. 1 .. n + 1 = 1 .. n \cup {n + 1}
  BY <1>1
<1>5. Range(l) = {l[i] : i \in 1 .. n + 1} /\ Range(q) = {q[i] : i \in 1 .. n}
  BY <1>1, <1>3 DEF Range
<1>6. Range(l) = Range(q) \cup {e}
  BY <1>2, <1>4, <1>5
<1>7. QED
  BY <1>1, <1>2, <1>3, <1>6 DEF n, l

\* A list in order stays so when what is added comes after all of it.
LEMMA SortedAppend ==
  ASSUME NEW X, NEW q \in Seq(X), NEW e \in X, NEW R, Sorted(q, R), \A x \in Range(q) : <<x, e>> \in R
  PROVE  Sorted(Append(q, e), R)
<1> DEFINE n == Len(q)
           l == Append(q, e)
<1>1. /\ n \in Nat /\ DOMAIN q = 1 .. n /\ DOMAIN l = 1 .. n + 1
      /\ (\A i \in 1 .. n : l[i] = q[i]) /\ l[n + 1] = e
  BY AppendIs
<1> HIDE DEF n, l
<1>2. ASSUME NEW i \in 1 .. n + 1, NEW j \in 1 .. n + 1, i < j PROVE <<l[i], l[j]>> \in R
  <2>1. i \in 1 .. n
    BY <1>2, <1>1
  <2>2. CASE j \in 1 .. n
    BY <2>1, <2>2, <1>1, <1>2 DEF Sorted
  <2>3. CASE ~ (j \in 1 .. n)
    <3>1. j = n + 1
      BY <2>3, <1>1
    <3>2. q[i] \in Range(q)
      BY <2>1, <1>1 DEF Range
    <3>3. <<q[i], e>> \in R
      BY <3>2
    <3>4. QED
      BY <2>1, <3>1, <3>3, <1>1
  <2>4. QED
    BY <2>2, <2>3
<1>3. QED
  BY <1>1, <1>2 DEF Sorted, l

\* What a sequence of a single pass holds when what it listed grows from v's to w's and it tried A.
Grows(v, w, A) ==
  /\ Tops(v.order) \subseteq Tops(w.order) /\ Tops(w.order) \subseteq Tops(v.order) \cup A
  /\ Range(v.wait) \subseteq Range(w.wait) /\ Range(w.wait) \subseteq Range(v.wait) \cup A
  /\ Len(v.order) \in Nat /\ Len(w.order) \in Nat /\ Len(v.order) <= Len(w.order)
  /\ Len(v.order) = Len(w.order) => w.order = v.order
  /\ A \cap Tops(w.order) = {} => w.order = v.order /\ w.before = v.before

\* Two stretches of a build, one after the other.
LEMMA GrowsOn ==
  ASSUME NEW u, NEW v, NEW w, NEW A, NEW C, Grows(u, v, A), Grows(v, w, C)
  PROVE  Grows(u, w, A \cup C)
<1>1. Len(u.order) = Len(w.order) => Len(u.order) = Len(v.order) /\ Len(v.order) = Len(w.order)
  BY DEF Grows
<1>2. Len(u.order) <= Len(w.order)
  BY DEF Grows
<1>3. (A \cup C) \cap Tops(w.order) = {} => C \cap Tops(w.order) = {} /\ A \cap Tops(v.order) = {}
  BY DEF Grows
<1>4. QED
  BY <1>1, <1>2, <1>3 DEF Grows

\* What the network lists when t applies.
Added(w, t, code) == w.order \o Listed(t, code)
\* What t brings with it.
Brought(t, code) == IF code = "tes" THEN Inner[t] ELSE {}
\* Where an entry of the longer list comes from.
AddedAt(w, t, code, i, e) ==
  \/ i \in DOMAIN w.order /\ e = w.order[i] /\ i # Len(w.order) + 1
  \/ i = Len(w.order) + 1 /\ e = [tx |-> t, code |-> code]
  \/ i > Len(w.order) + 1 /\ e.tx \in Inner[t] /\ e.code = "tes" /\ code = "tes"

\* The list, longer by t and what it brings.
OrderGrown(w, t, code) ==
  /\ Added(w, t, code) \in Seq(Listing) /\ Len(Added(w, t, code)) > Len(w.order) /\ Len(w.order) \in Nat
  /\ Txs(Added(w, t, code)) = Txs(w.order) \cup {t} \cup Brought(t, code)
  /\ Tops(Added(w, t, code)) = Tops(w.order) \cup {t}
  /\ \A i \in DOMAIN Added(w, t, code) : AddedAt(w, t, code, i, Added(w, t, code)[i])
  /\ \A i \in DOMAIN w.order : i \in DOMAIN Added(w, t, code) /\ Added(w, t, code)[i] = w.order[i]
  /\ Len(w.order) + 1 \in DOMAIN Added(w, t, code) /\ Added(w, t, code)[Len(w.order) + 1] = [tx |-> t, code |-> code]
  /\ t \notin Txs(w.order) /\ t \notin Inners

\* A transaction that is still to try makes the list longer by itself.
LEMMA OrderGrows ==
  ASSUME NEW S \in SUBSET BuildTxs, NEW B, S \cap (DOMAIN B \cup Inners) = {},
         NEW w, NEW rest \in SUBSET S, Running(S, B, w, rest), NEW t \in rest, NEW code \in Applied
  PROVE  OrderGrown(w, t, code)
<1> DEFINE p == w.order
           l == Listed(t, code)
           m == Len(p)
           o == Added(w, t, code)
<1>0. o = p \o l
  BY DEF Added
<1>1. t \in BuildTxs /\ t \notin Inners /\ t \notin DOMAIN B
  OBVIOUS
<1> HIDE DEF o
<1>2. p \in Seq(Listing)
  BY DEF Running
<1>3. /\ l \in Seq(Listing) /\ Len(l) \in Nat \ {0}
      /\ l[1] = [tx |-> t, code |-> code]
      /\ \A i \in 2 .. Len(l) : l[i].tx \in Inner[t] /\ l[i].code = "tes"
      /\ Txs(l) = {t} \cup (IF code = "tes" THEN Inner[t] ELSE {})
  BY <1>1, ListedIs
<1>4. t \notin Txs(p)
  BY <1>1 DEF Running, Tops
<1> HIDE DEF l
<1>5. /\ o \in Seq(Listing) /\ Len(o) = m + Len(l) /\ m \in Nat
      /\ \A i \in DOMAIN p : i \in DOMAIN o /\ o[i] = p[i]
      /\ \A i \in DOMAIN l : m + i \in DOMAIN o /\ o[m + i] = l[i]
      /\ \A i \in DOMAIN o : \/ i \in DOMAIN p /\ o[i] = p[i]
                             \/ \E j \in DOMAIN l : i = m + j /\ o[i] = l[j]
  <2> DEFINE q == p \o l
  <2>1. /\ q \in Seq(Listing) /\ Len(q) = m + Len(l) /\ m \in Nat
        /\ \A i \in DOMAIN p : i \in DOMAIN q /\ q[i] = p[i]
        /\ \A i \in DOMAIN l : m + i \in DOMAIN q /\ q[m + i] = l[i]
        /\ \A i \in DOMAIN q : \/ i \in DOMAIN p /\ q[i] = p[i]
                               \/ \E j \in DOMAIN l : i = m + j /\ q[i] = l[j]
    BY <1>2, <1>3, JoinIs
  <2>2. o = q
    BY <1>0
  <2> HIDE DEF q, p, m
  <2>3. QED
    BY <2>1, <2>2
<1>6. DOMAIN l = 1 .. Len(l) /\ DOMAIN p = 1 .. m
  BY <1>2, <1>3, LenProperties
<1> HIDE DEF p, m
<1>7. Txs(o) = Txs(p) \cup Txs(l)
  <2>1. \A i \in DOMAIN o : o[i].tx \in Txs(p) \cup Txs(l)
    BY <1>5 DEF Txs
  <2>2. \A i \in DOMAIN p : p[i].tx \in Txs(o)
    BY <1>5 DEF Txs
  <2>3. \A i \in DOMAIN l : l[i].tx \in Txs(o)
    BY <1>5 DEF Txs
  <2>4. QED
    BY <2>1, <2>2, <2>3 DEF Txs
<1>8. Tops(o) = Tops(p) \cup {t}
  BY <1>1, <1>3, <1>7, InnersAre DEF Tops
<1>9. 1 \in DOMAIN l
  BY <1>3, <1>6
<1>10. code # "tes" => Len(l) = 1
  <2>1. SUFFICES ASSUME code # "tes", Len(l) # 1 PROVE FALSE
    OBVIOUS
  <2>2. 2 \in 2 .. Len(l) /\ 2 \in DOMAIN l
    BY <2>1, <1>3, <1>6
  <2>3. l[2].tx \in Inners
    BY <2>2, <1>1, <1>3, InnersAre
  <2>4. Txs(l) = {t}
    BY <2>1, <1>3
  <2>5. l[2].tx = t
    BY <2>2, <2>4 DEF Txs
  <2>6. QED
    BY <2>3, <2>5, <1>1
<1>11. ASSUME NEW i \in DOMAIN o
       PROVE \/ i \in DOMAIN p /\ o[i] = p[i] /\ i # m + 1
             \/ i = m + 1 /\ o[i] = [tx |-> t, code |-> code]
             \/ i > m + 1 /\ o[i].tx \in Inner[t] /\ o[i].code = "tes" /\ code = "tes"
  <2>1. CASE i \in DOMAIN p /\ o[i] = p[i]
    <3>1. i # m + 1
      BY <2>1, <1>5, <1>6
    <3>2. QED
      BY <2>1, <3>1
  <2>2. CASE \E j \in DOMAIN l : i = m + j /\ o[i] = l[j]
    <3>1. PICK j \in DOMAIN l : i = m + j /\ o[i] = l[j]
      BY <2>2
    <3>2. CASE j = 1
      BY <3>1, <3>2, <1>3
    <3>3. CASE j # 1
      <4>1. j \in 2 .. Len(l) /\ i > m + 1 /\ Len(l) # 1
        BY <3>1, <3>3, <1>3, <1>5, <1>6
      <4>2. QED
        BY <3>1, <4>1, <1>3, <1>10
    <3>4. QED
      BY <3>2, <3>3
  <2>3. QED
    BY <2>1, <2>2, <1>5
<1>12. Len(o) > m
  BY <1>3, <1>5
<1>13. m + 1 \in DOMAIN o /\ o[m + 1] = [tx |-> t, code |-> code]
  BY <1>3, <1>5, <1>9
<1>14. Txs(o) = Txs(p) \cup {t} \cup Brought(t, code)
  BY <1>3, <1>7 DEF Brought
<1>15. \A i \in DOMAIN o : AddedAt(w, t, code, i, o[i])
  BY <1>11 DEF AddedAt, p, m
<1>16. QED
  BY <1>1, <1>4, <1>5, <1>8, <1>12, <1>13, <1>14, <1>15 DEF p, m, o, OrderGrown

\* A step of the network leaves it running, and lists or keeps waiting no other than what it tried.
StepTaken(w, t, c) ==
  LET code == Result(t, w.before) IN
  \/ /\ code = "ter" \/ (code = "tec" /\ c)
     /\ NetStep(w, t, c) = [before |-> w.before, wait |-> Append(w.wait, t), order |-> w.order]
  \/ code = "tef" /\ NetStep(w, t, c) = w
  \/ /\ code \in Applied /\ ~ (code = "tec" /\ c)
     /\ NetStep(w, t, c) = [before |-> With(w.before, t, code), wait |-> w.wait, order |-> Added(w, t, code)]

\* Each step of the network's keeps its build in shape, and is one of the three.
LEMMA StepRuns ==
  ASSUME NEW S \in SUBSET BuildTxs, NEW B, S \cap (DOMAIN B \cup Inners) = {},
         NEW w, NEW rest \in SUBSET S, Running(S, B, w, rest), NEW t \in rest,
         \A y \in rest \ {t} : <<t, y>> \in NetRel(S), NEW c
  PROVE  Running(S, B, NetStep(w, t, c), rest \ {t}) /\ Grows(w, NetStep(w, t, c), {t}) /\ StepTaken(w, t, c)
<1> DEFINE code == Result(t, w.before)
           v == NetStep(w, t, c)
<1>1. w = [before |-> w.before, wait |-> w.wait, order |-> w.order]
  BY DEF Running
<1>2. code \in Applied \cup {"ter", "tef"}
  BY ResultIs
<1>3. v = IF code = "ter" \/ (code = "tec" /\ c) THEN [before |-> w.before, wait |-> Append(w.wait, t), order |-> w.order]
          ELSE IF code = "tef" THEN w
          ELSE [before |-> With(w.before, t, code), wait |-> w.wait, order |-> w.order \o Listed(t, code)]
  BY <1>1, NetStepIs
<1>4. t \in S /\ t \in BuildTxs /\ t \notin Inners /\ t \notin DOMAIN B
  OBVIOUS
<1>5. w.order \in Seq(Listing) /\ Len(w.order) \in Nat
  BY LenProperties DEF Running
<1> HIDE DEF v, code
<1>6. CASE code = "ter" \/ (code = "tec" /\ c)
  <2>1. v = [before |-> w.before, wait |-> Append(w.wait, t), order |-> w.order]
    BY <1>3, <1>6
  <2>2. v.before = w.before /\ v.wait = Append(w.wait, t) /\ v.order = w.order /\ v = [before |-> v.before, wait |-> v.wait, order |-> v.order]
    BY <2>1
  <2>3. w.wait \in Seq(S) /\ Sorted(w.wait, NetRel(S)) /\ \A x \in Range(w.wait), y \in rest : <<x, y>> \in NetRel(S)
    BY DEF Running
  <2>4. v.wait \in Seq(S) /\ Range(v.wait) = Range(w.wait) \cup {t}
    BY <2>2, <2>3, <1>4, AppendIs
  <2>5. Sorted(v.wait, NetRel(S))
    BY <2>2, <2>3, <1>4, SortedAppend
  <2>6. \A x \in Range(v.wait), y \in rest \ {t} : <<x, y>> \in NetRel(S)
    BY <2>3, <2>4
  <2>7. (Range(v.wait) \cup (rest \ {t})) \cap Tops(v.order) = {}
    BY <2>2, <2>4 DEF Running
  <2>8. Running(S, B, v, rest \ {t})
    BY <2>2, <2>4, <2>5, <2>6, <2>7 DEF Running
  <2>9. Grows(w, v, {t})
    BY <2>2, <2>4, <1>5 DEF Grows
  <2>10. QED
    BY <2>1, <2>8, <2>9, <1>6 DEF v, code, StepTaken
<1>7. CASE ~ (code = "ter" \/ (code = "tec" /\ c)) /\ code = "tef"
  <2>1. v = w
    BY <1>3, <1>7
  <2>2. Running(S, B, v, rest \ {t})
    BY <2>1 DEF Running
  <2>3. Grows(w, v, {t})
    BY <2>1, <1>5 DEF Grows
  <2>4. QED
    BY <2>1, <2>2, <2>3, <1>7 DEF v, code, StepTaken
<1>8. CASE ~ (code = "ter" \/ (code = "tec" /\ c)) /\ code # "tef"
  <2>1. code \in Applied /\ ~ (code = "tec" /\ c)
    BY <1>2, <1>8
  <2>2. v = [before |-> With(w.before, t, code), wait |-> w.wait, order |-> w.order \o Listed(t, code)]
    BY <1>3, <1>8
  <2>3. v.before = With(w.before, t, code) /\ v.wait = w.wait /\ v.order = w.order \o Listed(t, code) /\ v = [before |-> v.before, wait |-> v.wait, order |-> v.order]
    BY <2>2
  <2> DEFINE o == v.order
             m == Len(w.order)
             I == Brought(t, code)
  <2>4. /\ o \in Seq(Listing) /\ Len(o) > m /\ Len(o) \in Nat
        /\ Txs(o) = Txs(w.order) \cup {t} \cup I /\ Tops(o) = Tops(w.order) \cup {t}
        /\ \A i \in DOMAIN o : AddedAt(w, t, code, i, o[i])
        /\ t \notin Txs(w.order)
    <3>1. o = Added(w, t, code)
      BY <2>3 DEF Added
    <3> HIDE DEF o, I
    <3>2. OrderGrown(w, t, code)
      BY <2>1, OrderGrows
    <3>3. Len(o) \in Nat
      BY <3>1, <3>2, LenProperties DEF OrderGrown
    <3>4. QED
      BY <3>1, <3>2, <3>3 DEF I, OrderGrown
  <2>5. I \subseteq Inners
    BY <1>4, InnersAre DEF Brought
  <2>6. v.before = [x \in DOMAIN w.before \cup {t} \cup I |-> IF x = t THEN code ELSE IF x \in I THEN "tes" ELSE w.before[x]]
    BY <2>3 DEF With, Brought
  <2>7. DOMAIN w.before = DOMAIN B \cup Txs(w.order)
    BY DEF Running
  <2>8. v.before = [x \in DOMAIN B \cup Txs(o) |-> IF x = t THEN code ELSE IF x \in I THEN "tes" ELSE w.before[x]]
    BY <2>4, <2>6, <2>7
  <2> HIDE DEF o, I, m
  <2>9. v.before = [x \in DOMAIN B \cup Txs(o) |-> v.before[x]]
    BY <2>8
  <2>10. \A x \in DOMAIN B \cup Txs(o) : v.before[x] = IF x = t THEN code ELSE IF x \in I THEN "tes" ELSE w.before[x]
    BY <2>8
  <2>11. \A i \in DOMAIN o : o[i].tx \in Inners => o[i].code = "tes"
    BY <2>4, <1>4 DEF Running, AddedAt
  <2>12. ASSUME NEW i \in DOMAIN o PROVE v.before[o[i].tx] = o[i].code
    <3>1. o[i].tx \in Txs(o)
      BY DEF Txs
    <3>2. CASE o[i].tx = t
      <4>1. ~ (i \in DOMAIN w.order /\ o[i] = w.order[i])
        BY <2>4, <3>2 DEF Txs
      <4>2. o[i].tx \notin Inner[t]
        BY <3>2, <1>4, InnersAre
      <4>3. o[i].code = code
        BY <2>4, <4>1, <4>2 DEF AddedAt
      <4>4. QED
        BY <3>1, <3>2, <4>3, <2>10
    <3>3. CASE o[i].tx # t /\ o[i].tx \in I
      BY <3>1, <3>3, <2>5, <2>10, <2>11
    <3>4. CASE o[i].tx # t /\ o[i].tx \notin I
      <4>1. i \in DOMAIN w.order /\ o[i] = w.order[i]
        BY <2>4, <3>4 DEF I, AddedAt, Brought
      <4>2. w.before[w.order[i].tx] = w.order[i].code
        BY <4>1 DEF Running
      <4>3. QED
        BY <3>1, <3>4, <4>1, <4>2, <2>10
    <3>5. QED
      BY <3>2, <3>3, <3>4
  <2>13. ASSUME NEW x \in DOMAIN B \ Txs(o) PROVE v.before[x] = B[x]
    <3>1. x \in DOMAIN B \ Txs(w.order) /\ x # t /\ x \notin I
      BY <2>4
    <3>2. w.before[x] = B[x]
      BY <3>1 DEF Running
    <3>3. QED
      BY <3>1, <3>2, <2>10
  <2>14. ASSUME NEW i \in DOMAIN o, NEW j \in DOMAIN o, o[i].tx = o[j].tx, o[i].tx \notin Inners PROVE i = j
    <3>1. o[i].tx \notin Inner[t] /\ o[j].tx \notin Inner[t]
      BY <2>14, <1>4, InnersAre
    <3>2. (i \in DOMAIN w.order /\ o[i] = w.order[i]) \/ (i = m + 1 /\ o[i] = [tx |-> t, code |-> code])
      BY <3>1, <2>4 DEF AddedAt, m
    <3>3. (j \in DOMAIN w.order /\ o[j] = w.order[j]) \/ (j = m + 1 /\ o[j] = [tx |-> t, code |-> code])
      BY <3>1, <2>4 DEF AddedAt, m
    <3>4. CASE o[i].tx = t
      <4>1. i = m + 1 /\ j = m + 1
        BY <3>2, <3>3, <3>4, <2>14, <2>4 DEF Txs
      <4>2. QED
        BY <4>1
    <3>5. CASE o[i].tx # t
      <4>1. i \in DOMAIN w.order /\ o[i] = w.order[i] /\ j \in DOMAIN w.order /\ o[j] = w.order[j]
        BY <3>2, <3>3, <3>5, <2>14
      <4>2. QED
        BY <4>1, <2>14 DEF Running
    <3>6. QED
      BY <3>4, <3>5
  <2>15. t \notin Range(w.wait)
    <3>1. <<t, t>> \notin NetRel(S)
      BY <1>4, LessOrders DEF NetRel, Orders
    <3>2. QED
      BY <3>1 DEF Running
  <2>16. (Range(v.wait) \cup (rest \ {t})) \cap Tops(o) = {}
    BY <2>3, <2>4, <2>15 DEF Running
  <2>17. Tops(o) \subseteq S
    BY <2>4, <1>4 DEF Running
  <2>18. /\ v.wait \in Seq(S) /\ Sorted(v.wait, NetRel(S))
         /\ \A x \in Range(v.wait), y \in rest \ {t} : <<x, y>> \in NetRel(S)
    BY <2>3 DEF Running
  <2>19. Running(S, B, v, rest \ {t})
    BY <2>3, <2>4, <2>9, <2>11, <2>12, <2>13, <2>14, <2>16, <2>17, <2>18 DEF Running, o
  <2>20. Grows(w, v, {t})
    <3>1. Tops(v.order) = Tops(w.order) \cup {t} /\ Len(v.order) \in Nat /\ Len(v.order) > Len(w.order)
      BY <2>4 DEF o, m
    <3>2. Len(w.order) <= Len(v.order) /\ Len(w.order) # Len(v.order)
      BY <3>1, <1>5
    <3>3. QED
      BY <3>1, <3>2, <2>3, <1>5 DEF Grows
  <2>21. QED
    BY <2>1, <2>2, <2>19, <2>20 DEF v, code, StepTaken, Added
<1>9. QED
  BY <1>6, <1>7, <1>8

\* A pass goes through what waits, step by step.
Steps(b, c, n, f) == f = [i \in 0 .. n |-> IF i = 0 THEN [b EXCEPT !.wait = <<>>] ELSE NetStep(f[i - 1], b.wait[i], c)]

\* The steps of a pass, for any number of them.
LEMMA StepsExist ==
  ASSUME NEW b, NEW c, NEW n \in Nat
  PROVE  \E f : Steps(b, c, n, f)
<1> DEFINE Bad == {m \in Nat : ~ \E f : Steps(b, c, m, f)}
           start == [b EXCEPT !.wait = <<>>]
<1> HIDE DEF start
<1>1. SUFFICES ASSUME Bad # {} PROVE FALSE
  OBVIOUS
<1>2. PICK m \in Bad : \A k \in Bad : m <= k
  BY <1>1, LeastNatural
<1>3. m # 0
  <2> DEFINE h == [i \in 0 .. 0 |-> start]
  <2>1. h = [i \in 0 .. 0 |-> IF i = 0 THEN start ELSE NetStep(h[i - 1], b.wait[i], c)]
    OBVIOUS
  <2> HIDE DEF h
  <2>2. Steps(b, c, 0, h)
    BY <2>1 DEF Steps, start
  <2>3. QED
    BY <2>2
<1>4. m \in Nat /\ m - 1 \in Nat /\ ~ (m <= m - 1)
  BY <1>3
<1>5. PICK h : Steps(b, c, m - 1, h)
  BY <1>2, <1>4
<1>6. h = [i \in 0 .. m - 1 |-> IF i = 0 THEN start ELSE NetStep(h[i - 1], b.wait[i], c)]
  BY <1>5 DEF Steps, start
<1> DEFINE g == [i \in 0 .. m |-> IF i = m THEN NetStep(h[m - 1], b.wait[m], c) ELSE h[i]]
<1>7. ASSUME NEW i \in 0 .. m PROVE g[i] = IF i = 0 THEN start ELSE NetStep(g[i - 1], b.wait[i], c)
  <2>1. CASE i = m
    <3>1. m - 1 \in 0 .. m /\ m - 1 # m /\ m # 0
      BY <1>3, <1>4
    <3>2. g[m - 1] = h[m - 1] /\ g[m] = NetStep(h[m - 1], b.wait[m], c)
      BY <3>1
    <3>3. QED
      BY <2>1, <3>1, <3>2
  <2>2. CASE i # m
    <3>1. i \in 0 .. m - 1 /\ (i # 0 => i - 1 \in 0 .. m /\ i - 1 # m)
      BY <2>2, <1>4
    <3>2. h[i] = IF i = 0 THEN start ELSE NetStep(h[i - 1], b.wait[i], c)
      BY <1>6, <3>1
    <3>3. g[i] = h[i] /\ (i # 0 => g[i - 1] = h[i - 1])
      BY <2>2, <3>1
    <3>4. QED
      BY <3>2, <3>3
  <2>3. QED
    BY <2>1, <2>2
<1>8. Steps(b, c, m, g)
  <2>1. g = [i \in 0 .. m |-> g[i]]
    OBVIOUS
  <2> HIDE DEF g
  <2>2. g = [i \in 0 .. m |-> IF i = 0 THEN start ELSE NetStep(g[i - 1], b.wait[i], c)]
    BY <1>7, <2>1
  <2>3. QED
    BY <2>2 DEF Steps, start
<1>9. QED
  BY <1>2, <1>8

\* A pass of the network's is the last of its steps.
LEMMA PassIs ==
  ASSUME NEW b, NEW c, Len(b.wait) \in Nat
  PROVE  \E f : Steps(b, c, Len(b.wait), f) /\ NetPass(b, c) = f[Len(b.wait)]
<1> DEFINE n == Len(b.wait)
           Upto(g) == g = [i \in 0 .. n |-> IF i = 0 THEN [b EXCEPT !.wait = <<>>] ELSE NetStep(g[i - 1], b.wait[i], c)]
           f == CHOOSE g : Upto(g)
<1>1. NetPass(b, c) = f[n]
  BY DEF NetPass
<1>2. \A g : Upto(g) <=> Steps(b, c, n, g)
  BY DEF Steps
<1> HIDE DEF Upto
<1>3. \E g : Upto(g)
  BY <1>2, StepsExist
<1>4. Upto(f)
  BY <1>3
<1> HIDE DEF f
<1>5. Steps(b, c, n, f)
  BY <1>2, <1>4
<1>6. QED
  BY <1>1, <1>5

\* What is tried after i and up to j.
Tried(q, i, j) == {q[k] : k \in i + 1 .. j}

\* All along a pass that starts where the last one ended.
PassGoes(S, B, b, c, f) ==
  LET n == Len(b.wait) IN
  /\ n \in Nat /\ b.wait \in [1 .. n -> S] /\ Sorted(b.wait, NetRel(S))
  /\ f[0] = [before |-> b.before, wait |-> <<>>, order |-> b.order] /\ NetPass(b, c) = f[n]
  /\ \A i \in 1 .. n : f[i] = NetStep(f[i - 1], b.wait[i], c) /\ StepTaken(f[i - 1], b.wait[i], c)
  /\ \A i \in 0 .. n : Running(S, B, f[i], Tried(b.wait, i, n))
  /\ \A i \in 0 .. n, j \in 0 .. n : i <= j => Grows(f[i], f[j], Tried(b.wait, i, j))

\* What is left to try, but for the next.
NextTried(X, n, q, R, m) ==
  /\ m - 1 \in 0 .. n /\ q[m] \in X /\ q[m] \in Tried(q, m - 1, n)
  /\ Tried(q, m - 1, n) \ {q[m]} = Tried(q, m, n) /\ \A y \in Tried(q, m, n) : <<q[m], y>> \in R
  /\ Tried(q, m - 1, m) = {q[m]}

\* The next to try, and what is left after it.
LEMMA TriedNext ==
  ASSUME NEW X, NEW n \in Nat, NEW q \in [1 .. n -> X], NEW R, \A x \in X : <<x, x>> \notin R, Sorted(q, R), NEW m \in 1 .. n
  PROVE  NextTried(X, n, q, R, m)
<1>1. m - 1 \in 0 .. n /\ m \in m - 1 + 1 .. n /\ m - 1 + 1 .. n = {m} \cup (m + 1 .. n) /\ m - 1 + 1 .. m = {m} /\ m \notin m + 1 .. n
  OBVIOUS
<1>2. Tried(q, m - 1, n) = {q[m]} \cup Tried(q, m, n) /\ Tried(q, m - 1, m) = {q[m]}
  BY <1>1 DEF Tried
<1>3. \A k \in m + 1 .. n : k \in DOMAIN q /\ m \in DOMAIN q /\ m < k
  OBVIOUS
<1>4. \A y \in Tried(q, m, n) : <<q[m], y>> \in R
  BY <1>3 DEF Tried, Sorted
<1>5. q[m] \in X
  OBVIOUS
<1>6. q[m] \notin Tried(q, m, n)
  BY <1>4, <1>5
<1>7. QED
  BY <1>1, <1>2, <1>4, <1>5, <1>6 DEF NextTried

\* A pass that starts from a build in shape goes through such builds.
LEMMA PassRuns ==
  ASSUME NEW S \in SUBSET BuildTxs, NEW B, S \cap (DOMAIN B \cup Inners) = {}, NEW b, Running(S, B, b, {}), NEW c
  PROVE  \E f : PassGoes(S, B, b, c, f)
<1> DEFINE n == Len(b.wait)
           W == b.wait
<1>1. b = [before |-> b.before, wait |-> b.wait, order |-> b.order] /\ W \in Seq(S) /\ Sorted(W, NetRel(S)) /\ b.order \in Seq(Listing)
  BY DEF Running
<1>2. n \in Nat /\ W \in [1 .. n -> S] /\ Range(W) = Tried(W, 0, n)
  <2>1. n \in Nat /\ W \in [1 .. n -> S] /\ DOMAIN W = 1 .. n
    BY <1>1, LenProperties
  <2>2. QED
    BY <2>1 DEF Range, Tried
<1>3. PICK f : Steps(b, c, n, f) /\ NetPass(b, c) = f[n]
  BY <1>2, PassIs
<1>4. [b EXCEPT !.wait = <<>>] = [before |-> b.before, wait |-> <<>>, order |-> b.order]
  <2> DEFINE x == b.before
             y == b.wait
             z == b.order
  <2>1. b = [before |-> x, wait |-> y, order |-> z]
    BY <1>1
  <2> HIDE DEF x, y, z
  <2>2. [b EXCEPT !.wait = <<>>] = [before |-> x, wait |-> <<>>, order |-> z]
    BY <2>1
  <2>3. QED
    BY <2>2 DEF x, z
<1>5. f[0] = [before |-> b.before, wait |-> <<>>, order |-> b.order]
  <2>1. 0 \in 0 .. n
    BY <1>2
  <2> HIDE DEF n
  <2>2. f[0] = [b EXCEPT !.wait = <<>>]
    BY <1>3, <2>1 DEF Steps
  <2>3. QED
    BY <2>2, <1>4
<1>6. ASSUME NEW i \in 1 .. n PROVE f[i] = NetStep(f[i - 1], W[i], c)
  <2>1. i \in 0 .. n /\ i # 0
    BY <1>2
  <2> HIDE DEF n
  <2>2. QED
    BY <1>3, <2>1 DEF Steps
<1> HIDE DEF n, W
<1>7. Running(S, B, f[0], Tried(W, 0, n))
  <2> DEFINE w == f[0]
  <2>1. w.before = b.before /\ w.wait = <<>> /\ w.order = b.order /\ w = [before |-> w.before, wait |-> w.wait, order |-> w.order]
    BY <1>5
  <2> HIDE DEF w
  <2>2. w.wait \in Seq(S) /\ DOMAIN w.wait = {} /\ Range(w.wait) = {}
    BY <2>1 DEF Range
  <2>3. Sorted(w.wait, NetRel(S)) /\ \A x \in Range(w.wait), y \in Tried(W, 0, n) : <<x, y>> \in NetRel(S)
    BY <2>2 DEF Sorted
  <2>4. (Range(w.wait) \cup Tried(W, 0, n)) \cap Tops(w.order) = {}
    BY <2>1, <2>2, <1>2 DEF Running, W
  <2>5. Running(S, B, w, Tried(W, 0, n))
    BY <2>1, <2>2, <2>3, <2>4 DEF Running
  <2>6. QED
    BY <2>5 DEF w
<1>8. \A x \in S : <<x, x>> \notin NetRel(S)
  BY LessOrders DEF NetRel, Orders
<1>9. ASSUME NEW m \in 1 .. n, Running(S, B, f[m - 1], Tried(W, m - 1, n))
      PROVE  Running(S, B, f[m], Tried(W, m, n)) /\ Grows(f[m - 1], f[m], {W[m]}) /\ StepTaken(f[m - 1], W[m], c)
  <2>1. /\ W[m] \in S /\ W[m] \in Tried(W, m - 1, n)
        /\ Tried(W, m - 1, n) \ {W[m]} = Tried(W, m, n) /\ \A y \in Tried(W, m, n) : <<W[m], y>> \in NetRel(S)
    <3>1. NextTried(S, n, W, NetRel(S), m)
      BY <1>1, <1>2, <1>8, TriedNext
    <3>2. QED
      BY <3>1 DEF NextTried
  <2>2. Tried(W, m - 1, n) \in SUBSET S
    BY <1>2 DEF Tried
  <2>3. f[m] = NetStep(f[m - 1], W[m], c)
    BY <1>6
  <2> DEFINE rest == Tried(W, m - 1, n)
  <2>4. rest \in SUBSET S /\ W[m] \in rest /\ (\A y \in rest \ {W[m]} : <<W[m], y>> \in NetRel(S)) /\ Running(S, B, f[m - 1], rest)
    BY <2>1, <2>2, <1>9
  <2> HIDE DEF rest
  <2>5. /\ Running(S, B, NetStep(f[m - 1], W[m], c), rest \ {W[m]}) /\ Grows(f[m - 1], NetStep(f[m - 1], W[m], c), {W[m]})
        /\ StepTaken(f[m - 1], W[m], c)
    BY <2>4, StepRuns
  <2>6. QED
    BY <2>1, <2>3, <2>5 DEF rest
<1>10. \A i \in 0 .. n : Running(S, B, f[i], Tried(W, i, n))
  <2> DEFINE Bad == {i \in 0 .. n : ~ Running(S, B, f[i], Tried(W, i, n))}
  <2>1. SUFFICES ASSUME Bad # {} PROVE FALSE
    OBVIOUS
  <2>2. PICK m \in Bad : \A k \in Bad : m <= k
    <3>1. Bad \in SUBSET Nat
      BY <1>2
    <3> HIDE DEF Bad
    <3>2. QED
      BY <2>1, <3>1, LeastNatural
  <2>3. m # 0
    BY <1>7
  <2>4. m \in 1 .. n /\ m - 1 \in 0 .. n /\ ~ (m <= m - 1)
    BY <2>3, <1>2
  <2>5. Running(S, B, f[m - 1], Tried(W, m - 1, n))
    BY <2>2, <2>4
  <2>6. QED
    BY <2>4, <2>5, <1>9
<1>11. \A m \in 1 .. n : Grows(f[m - 1], f[m], {W[m]}) /\ StepTaken(f[m - 1], W[m], c)
  <2>1. \A m \in 1 .. n : m - 1 \in 0 .. n
    BY <1>2
  <2>2. QED
    BY <2>1, <1>9, <1>10
<1>12. ASSUME NEW i \in 0 .. n PROVE \A j \in 0 .. n : i <= j => Grows(f[i], f[j], Tried(W, i, j))
  <2> DEFINE Bad == {j \in 0 .. n : i <= j /\ ~ Grows(f[i], f[j], Tried(W, i, j))}
  <2>1. SUFFICES ASSUME Bad # {} PROVE FALSE
    OBVIOUS
  <2>2. PICK m \in Bad : \A k \in Bad : m <= k
    <3>1. Bad \in SUBSET Nat
      BY <1>2
    <3> HIDE DEF Bad
    <3>2. QED
      BY <2>1, <3>1, LeastNatural
  <2>3. m # i
    <3>1. f[i].order \in Seq(Listing)
      BY <1>10 DEF Running
    <3>2. Len(f[i].order) \in Nat
      BY <3>1, LenProperties
    <3>3. Tried(W, i, i) = {}
      <4>1. i + 1 .. i = {}
        BY <1>2
      <4>2. QED
        BY <4>1 DEF Tried
    <3>4. Grows(f[i], f[i], Tried(W, i, i))
      BY <3>2, <3>3 DEF Grows
    <3>5. QED
      BY <3>4
  <2>4. m \in 1 .. n /\ m - 1 \in 0 .. n /\ ~ (m <= m - 1) /\ i <= m - 1
    BY <2>2, <2>3, <1>2
  <2>5. Grows(f[i], f[m - 1], Tried(W, i, m - 1))
    BY <2>2, <2>4
  <2>6. Tried(W, i, m) = Tried(W, i, m - 1) \cup {W[m]}
    <3>1. i + 1 .. m = (i + 1 .. m - 1) \cup {m}
      BY <2>4
    <3>2. QED
      BY <3>1 DEF Tried
  <2>7. Grows(f[i], f[m], Tried(W, i, m))
    <3>1. Grows(f[m - 1], f[m], {W[m]})
      BY <2>4, <1>11
    <3>2. Grows(f[i], f[m], Tried(W, i, m - 1) \cup {W[m]})
      BY <2>5, <3>1, GrowsOn
    <3>3. QED
      BY <2>6, <3>2
  <2>8. QED
    BY <2>7
<1>13. QED
  BY <1>1, <1>2, <1>3, <1>5, <1>6, <1>10, <1>11, <1>12 DEF PassGoes, n, W

\* Where the network begins, and where each of its passes does; what a tec does in it.
First(S, B) == [before |-> B, wait |-> NetOrder(S), order |-> <<>>]
Second(S, B) == NetPass(First(S, B), TRUE)
Third(S, B) == NetPass(Second(S, B), Len(Second(S, B).order) > 0)

\* The build a pass starts from, whether it waits on a tec, and the build in the end.
StartAt(p, S, B) == IF p = 0 THEN First(S, B) ELSE IF p = 1 THEN Second(S, B) ELSE Third(S, B)
SureAt(p, S, B) == p = 0 \/ (p = 1 /\ Len(Second(S, B).order) > 0)

Ends(S, B) ==
  IF ~ (Len(Second(S, B).order) > 0) /\ ~ (Len(Third(S, B).order) > Len(Second(S, B).order)) THEN Third(S, B)
  ELSE NetPass(Third(S, B), FALSE)

\* So the network's build is put together.
LEMMA EndsIs == \A S, B : NetBuild(S, B) = Ends(S, B)
BY DEF NetBuild, Ends, Third, Second, First

\* A set the network may file: of transactions it has not, and no Batch's.
Fresh(S, B) == S \in SUBSET BuildTxs /\ S \cap (DOMAIN B \cup Inners) = {} /\ B = [x \in DOMAIN B |-> B[x]]

\* The network's order has all of the set, each after those before it.
LEMMA NetOrderIs ==
  ASSUME NEW S \in SUBSET BuildTxs
  PROVE  NetOrder(S) \in Seq(S) /\ Sorted(NetOrder(S), NetRel(S)) /\ Range(NetOrder(S)) = S
<1> DEFINE N == Cardinality(S)
           q == NetOrder(S)
<1>1. q = Ranked(S, NetRel(S)) /\ IsFiniteSet(S) /\ Orders(NetRel(S), S)
  BY TxsFinite, LessOrders DEF NetOrder, NetRel
<1>2. /\ N \in Nat /\ Ranked(S, NetRel(S)) \in [1 .. N -> S]
      /\ \A t \in S : \E i \in 1 .. N : Ranked(S, NetRel(S))[i] = t
      /\ \A i, j \in 1 .. N : i < j => <<Ranked(S, NetRel(S))[i], Ranked(S, NetRel(S))[j]>> \in NetRel(S)
  BY <1>1, RankedIs
<1> HIDE DEF N, q
<1>3. q \in [1 .. N -> S] /\ (\A t \in S : \E i \in 1 .. N : q[i] = t) /\ \A i, j \in 1 .. N : i < j => <<q[i], q[j]>> \in NetRel(S)
  BY <1>1, <1>2
<1>4. q \in Seq(S) /\ DOMAIN q = 1 .. N
  BY <1>2, <1>3, SeqDef
<1>5. Range(q) = S
  BY <1>3, <1>4 DEF Range
<1>6. QED
  BY <1>3, <1>4, <1>5 DEF Sorted, q

\* The network begins with nothing listed.
LEMMA FirstRuns ==
  ASSUME NEW S, NEW B, Fresh(S, B)
  PROVE  Running(S, B, First(S, B), {})
<1> DEFINE w == First(S, B)
<1>1. w.before = B /\ w.wait = NetOrder(S) /\ w.order = <<>> /\ w = [before |-> w.before, wait |-> w.wait, order |-> w.order]
  BY DEF First
<1>2. S \in SUBSET BuildTxs /\ B = [x \in DOMAIN B |-> B[x]]
  BY DEF Fresh
<1> HIDE DEF w
<1>3. w.order \in Seq(Listing) /\ DOMAIN w.order = {} /\ Txs(w.order) = {} /\ Tops(w.order) = {}
  BY <1>1 DEF Txs, Tops
<1>4. w.wait \in Seq(S) /\ Sorted(w.wait, NetRel(S))
  BY <1>1, <1>2, NetOrderIs
<1>5. w.before = [x \in DOMAIN B \cup Txs(w.order) |-> w.before[x]]
  BY <1>1, <1>2, <1>3
<1>6. Running(S, B, w, {})
  BY <1>1, <1>3, <1>4, <1>5 DEF Running
<1>7. QED
  BY <1>6 DEF w

\* What a pass of the network's leaves behind.
LEMMA PassEndRuns ==
  ASSUME NEW S, NEW B, NEW b, NEW c, NEW f, PassGoes(S, B, b, c, f)
  PROVE  /\ Running(S, B, NetPass(b, c), {}) /\ Len(b.order) \in Nat /\ Len(NetPass(b, c).order) \in Nat
         /\ Len(b.order) <= Len(NetPass(b, c).order)
         /\ Tops(b.order) \subseteq Tops(NetPass(b, c).order)
         /\ Tops(NetPass(b, c).order) \cup Range(NetPass(b, c).wait) \subseteq Tops(b.order) \cup Range(b.wait)
<1> DEFINE n == Len(b.wait)
           v == NetPass(b, c)
<1>1. /\ n \in Nat /\ b.wait \in [1 .. n -> S] /\ v = f[n] /\ f[0] = [before |-> b.before, wait |-> <<>>, order |-> b.order]
      /\ Running(S, B, f[n], Tried(b.wait, n, n)) /\ Grows(f[0], f[n], Tried(b.wait, 0, n))
  <2>1. n \in Nat /\ b.wait \in [1 .. n -> S]
    BY DEF PassGoes
  <2>2. 0 \in 0 .. n /\ n \in 0 .. n /\ 0 <= n
    BY <2>1
  <2>3. QED
    BY <2>1, <2>2 DEF PassGoes
<1> HIDE DEF n, v
<1>2. Tried(b.wait, n, n) = {}
  <2>1. n + 1 .. n = {}
    BY <1>1
  <2>2. QED
    BY <2>1 DEF Tried
<1>3. Tried(b.wait, 0, n) = Range(b.wait)
  <2>1. DOMAIN b.wait = 0 + 1 .. n
    BY <1>1
  <2>2. QED
    BY <2>1 DEF Tried, Range
<1>4. f[0].order = b.order /\ f[0].wait = <<>>
  BY <1>1
<1>5. Range(f[0].wait) = {}
  BY <1>4 DEF Range
<1>6. QED
  BY <1>1, <1>2, <1>3, <1>4, <1>5 DEF Grows, v

\* F is what is listed in the end: it was listed, or waited.
Closes(b, F) == Tops(b.order) \subseteq F /\ F \subseteq Tops(b.order) \cup Range(b.wait)

\* Every pass of the network goes on from where the last one ended; each of what is listed in the end
\* was listed when it began, or waited then.
NetGoes(S, B) ==
  LET F == Tops(Ends(S, B).order) IN
  /\ \A p \in 0 .. 2 : /\ Running(S, B, StartAt(p, S, B), {})
                       /\ \E f : PassGoes(S, B, StartAt(p, S, B), SureAt(p, S, B), f)
                       /\ Closes(StartAt(p, S, B), F)
  /\ NetPass(First(S, B), TRUE) = Second(S, B) /\ NetPass(Second(S, B), SureAt(1, S, B)) = Third(S, B)
  /\ Running(S, B, Ends(S, B), {}) /\ Closes(Ends(S, B), F)
  /\ F \subseteq S /\ Ends(S, B).order \in Seq(Listing)
  /\ Len(First(S, B).order) = 0 /\ Len(Second(S, B).order) \in Nat /\ Len(Third(S, B).order) \in Nat
  /\ Len(Second(S, B).order) <= Len(Third(S, B).order)

\* The whole of the network's build, for any set of transactions.
LEMMA NetRuns ==
  ASSUME NEW S, NEW B, Fresh(S, B)
  PROVE  NetGoes(S, B)
<1> DEFINE b0 == First(S, B)
           b1 == Second(S, B)
           b2 == Third(S, B)
           b3 == NetPass(b2, FALSE)
           s1 == Len(b1.order) > 0
           e == Ends(S, B)
           F == Tops(e.order)
<1>1. S \in SUBSET BuildTxs /\ S \cap (DOMAIN B \cup Inners) = {}
  BY DEF Fresh
<1>2. Running(S, B, b0, {})
  BY FirstRuns
<1>3. b1 = NetPass(b0, TRUE) /\ b2 = NetPass(b1, s1) /\ Len(b0.order) = 0
  BY DEF Second, Third, First
<1>4. e = IF ~ s1 /\ ~ (Len(b2.order) > Len(b1.order)) THEN b2 ELSE b3
  BY DEF Ends
<1>5. SureAt(0, S, B) = TRUE /\ SureAt(1, S, B) = s1 /\ SureAt(2, S, B) = FALSE
  BY DEF SureAt
<1>6. StartAt(0, S, B) = b0 /\ StartAt(1, S, B) = b1 /\ StartAt(2, S, B) = b2
  BY DEF StartAt
<1> HIDE DEF b0, b1, b2, b3, s1, e
<1>7. PICK f0 : PassGoes(S, B, b0, TRUE, f0)
  BY <1>1, <1>2, PassRuns
<1>8. /\ Running(S, B, b1, {}) /\ Len(b0.order) \in Nat /\ Len(b1.order) \in Nat /\ Len(b0.order) <= Len(b1.order)
      /\ Tops(b0.order) \subseteq Tops(b1.order)
      /\ Tops(b1.order) \cup Range(b1.wait) \subseteq Tops(b0.order) \cup Range(b0.wait)
  BY <1>3, <1>7, PassEndRuns
<1>9. PICK f1 : PassGoes(S, B, b1, s1, f1)
  BY <1>1, <1>8, PassRuns
<1>10. /\ Running(S, B, b2, {}) /\ Len(b2.order) \in Nat /\ Len(b1.order) <= Len(b2.order)
       /\ Tops(b1.order) \subseteq Tops(b2.order)
       /\ Tops(b2.order) \cup Range(b2.wait) \subseteq Tops(b1.order) \cup Range(b1.wait)
  BY <1>3, <1>9, PassEndRuns
<1>11. PICK f2 : PassGoes(S, B, b2, FALSE, f2)
  BY <1>1, <1>10, PassRuns
<1>12. /\ Running(S, B, b3, {})
       /\ Tops(b2.order) \subseteq Tops(b3.order)
       /\ Tops(b3.order) \cup Range(b3.wait) \subseteq Tops(b2.order) \cup Range(b2.wait)
  BY <1>11, PassEndRuns DEF b3
<1>13. Running(S, B, e, {}) /\ Closes(e, F) /\ Closes(b2, F)
  BY <1>4, <1>10, <1>12 DEF Closes
<1>14. Closes(b1, F)
  BY <1>10, <1>13 DEF Closes
<1>15. Closes(b0, F)
  BY <1>8, <1>14 DEF Closes
<1>16. F \subseteq S /\ e.order \in Seq(Listing)
  BY <1>13 DEF Running
<1>17. ASSUME NEW p \in 0 .. 2
       PROVE  /\ Running(S, B, StartAt(p, S, B), {})
              /\ \E f : PassGoes(S, B, StartAt(p, S, B), SureAt(p, S, B), f)
              /\ Closes(StartAt(p, S, B), F)
  <2>1. CASE p = 0
    BY <2>1, <1>2, <1>5, <1>6, <1>7, <1>15
  <2>2. CASE p = 1
    BY <2>2, <1>5, <1>6, <1>8, <1>9, <1>14
  <2>3. CASE p = 2
    BY <2>3, <1>5, <1>6, <1>10, <1>11, <1>13
  <2>4. QED
    BY <2>1, <2>2, <2>3
<1> HIDE DEF F
<1>18. QED
  BY <1>3, <1>5, <1>8, <1>10, <1>13, <1>16, <1>17 DEF NetGoes, b0, b1, b2, e, F

\* A ranked set as a sequence.
SeqOf(q, S, R) == q \in Seq(S) /\ Sorted(q, R) /\ Range(q) = S /\ Len(q) = Cardinality(S)

\* A ranked set is such a sequence.
LEMMA RankedSeq ==
  ASSUME NEW S, IsFiniteSet(S), NEW R, Orders(R, S)
  PROVE  SeqOf(Ranked(S, R), S, R)
<1> DEFINE N == Cardinality(S)
           q == Ranked(S, R)
<1>1. /\ N \in Nat /\ q \in [1 .. N -> S] /\ \A t \in S : \E i \in 1 .. N : q[i] = t
      /\ \A i, j \in 1 .. N : i < j => <<q[i], q[j]>> \in R
  BY RankedIs
<1> HIDE DEF N, q
<1>2. q \in Seq(S) /\ DOMAIN q = 1 .. N
  BY <1>1, SeqDef
<1>3. Len(q) = N /\ Range(q) = S
  BY <1>1, <1>2 DEF Range
<1>4. QED
  BY <1>1, <1>2, <1>3 DEF Sorted, SeqOf, N, q

\* The first of an ordered sequence, taken off.
HeadGone(q, X, R) ==
  /\ Head(q) \in X /\ Tail(q) \in Seq(X) /\ Sorted(Tail(q), R) /\ Range(q) = {Head(q)} \cup Range(Tail(q))
  /\ Head(q) \notin Range(Tail(q)) /\ \A y \in Range(Tail(q)) : <<Head(q), y>> \in R
  /\ Len(Tail(q)) = Len(q) - 1 /\ Len(q) \in Nat /\ Head(q) \in Range(q)

\* The head of a list in order comes before all of the rest.
LEMMA HeadIs ==
  ASSUME NEW X, NEW q \in Seq(X), q # <<>>, NEW R, Orders(R, X), Sorted(q, R)
  PROVE  HeadGone(q, X, R)
<1> DEFINE n == Len(q)
           t == Head(q)
           r == Tail(q)
<1>1. n \in Nat \ {0} /\ DOMAIN q = 1 .. n /\ q \in [1 .. n -> X]
  BY LenProperties, EmptySeq
<1>2. t \in X /\ r \in Seq(X) /\ Len(r) = n - 1 /\ \A i \in 1 .. Len(r) : r[i] = q[i + 1]
  BY HeadTailProperties
<1>3. t = q[1]
  BY <1>1
<1>4. DOMAIN r = 1 .. n - 1
  BY <1>2, LenProperties
<1> HIDE DEF n, t, r
<1>5. \A i \in 1 .. n - 1 : r[i] = q[i + 1] /\ i + 1 \in 1 .. n /\ 1 < i + 1
  BY <1>1, <1>2
<1>6. 1 \in 1 .. n /\ 1 .. n = {1} \cup {i + 1 : i \in 1 .. n - 1}
  <2>1. \A i \in 1 .. n : i = 1 \/ (i - 1 \in 1 .. n - 1 /\ i = (i - 1) + 1)
    BY <1>1
  <2>2. 1 .. n \subseteq {1} \cup {i + 1 : i \in 1 .. n - 1}
    BY <2>1
  <2>3. 1 \in 1 .. n /\ {i + 1 : i \in 1 .. n - 1} \subseteq 1 .. n
    BY <1>1, <1>5
  <2>4. QED
    BY <2>2, <2>3
<1>7. Range(r) = {q[i + 1] : i \in 1 .. n - 1} /\ Range(q) = {q[i] : i \in 1 .. n}
  BY <1>1, <1>4, <1>5 DEF Range
<1>8. Range(q) = {t} \cup Range(r)
  BY <1>3, <1>6, <1>7
<1>9. ASSUME NEW y \in Range(r) PROVE <<t, y>> \in R
  <2>1. PICK i \in 1 .. n - 1 : y = q[i + 1]
    BY <1>7
  <2>2. <<q[1], q[i + 1]>> \in R
    BY <1>1, <1>5, <1>6 DEF Sorted
  <2>3. QED
    BY <2>1, <2>2, <1>3
<1>10. t \notin Range(r)
  BY <1>2, <1>9 DEF Orders
<1>11. Sorted(r, R)
  <2>1. ASSUME NEW i \in 1 .. n - 1, NEW j \in 1 .. n - 1, i < j PROVE <<r[i], r[j]>> \in R
    <3>1. i + 1 < j + 1
      BY <2>1, <1>1
    <3>2. <<q[i + 1], q[j + 1]>> \in R
      BY <3>1, <1>1, <1>5 DEF Sorted
    <3>3. QED
      BY <3>2, <1>5
  <2>2. QED
    BY <2>1, <1>4 DEF Sorted
<1>12. QED
  BY <1>1, <1>2, <1>8, <1>9, <1>10, <1>11 DEF HeadGone, n, t, r

-------------------------------------------------------------------------------
(* The walk *)

\* What was built, which of it by sequence, and the salt and the order it was tried in.
Built == [pass : Nat, tx : BuildTxs, code : Applied]
BuiltTxs == {built[i].tx : i \in DOMAIN built}
BySequence(t) == ~Pseudo(t) /\ ~Proxy[t].ticket
Salt == IF set_agreed THEN SaltOf(set) ELSE SaltOf(Ours)
OurRel == {p \in Ours \X Ours : Before(p[1], p[2], Salt)}

\* The types that the rest needs, and the remembered total, which is the ledger's.
BuildTyped ==
  /\ mode \in {"shadow", "on"} /\ stage \in {"idle", "ready", "walk", "walked", "judged"}
  /\ set \in SUBSET BuildTxs /\ set_agreed \in BOOLEAN /\ certain_retry \in BOOLEAN
  /\ pass \in Nat /\ pass_changes \in Nat /\ attempts \in Nat /\ built \in Seq(Built)
  /\ DOMAIN past \subseteq BuildTxs /\ past = [x \in DOMAIN past |-> past[x]]
  /\ total \in Int /\ totals.seq \in Nat /\ (totals.seq # 0 => totals.total = total)

\* What the ledger filed is the network's build of the set.
FiledRight == stage \in {"ready", "walk", "walked"} => Fresh(set, past) /\ filed = NetBuild(set, past).order

\* What is still to try, waits, failed or was built, is all of the ledger's, each once.
Parted ==
  /\ todo \in Seq(Ours) /\ retry \in Seq(Ours) /\ failed_now \subseteq Ours
  /\ BuiltTxs \cup failed_now \cup Range(todo) \cup Range(retry) = Ours
  /\ Len(built) + Cardinality(failed_now) + Len(todo) + Len(retry) = Cardinality(Ours)
  /\ BuiltTxs \cap (failed_now \cup Range(todo) \cup Range(retry)) = {} /\ failed_now \cap (Range(todo) \cup Range(retry)) = {}

\* Both lists are in the ledger's order, what waits before what is to be tried.
Lined ==
  /\ Sorted(todo, OurRel) /\ Sorted(retry, OurRel) /\ \A x \in Range(retry), y \in Range(todo) : <<x, y>> \in OurRel

\* The passes left bound the attempts.
Counted == attempts + Len(todo) <= (pass + 1) * Cardinality(Ours) /\ pass + 1 <= TotalPasses

\* The mirror knows of the ledger's transactions those built; the sequence of each built is behind its
\* account's next, and none is one our engine gets wrong.
Mirrored ==
  /\ DOMAIN ours \subseteq BuildTxs /\ DOMAIN ours \cap Ours \subseteq BuiltTxs
  /\ \A i \in DOMAIN built : BySequence(built[i].tx) => Proxy[built[i].tx].n < NextSeq(ours, Account[built[i].tx])
  /\ BuiltTxs \cap wrong = {}

\* All of that, as long as the walk lasts.
Walking ==
  /\ stage \in {"walk", "walked"} => Parted /\ Lined /\ Counted /\ Mirrored
  /\ stage = "walked" => todo = <<>> /\ left = retry

\* An account's sequences were built in their order.
SeqsInOrder ==
  \A i, j \in DOMAIN built :
    i < j /\ Account[built[i].tx] = Account[built[j].tx] /\ BySequence(built[i].tx) /\ BySequence(built[j].tx)
      => Proxy[built[i].tx].n < Proxy[built[j].tx].n

\* The inductive invariant of the build.
BuildHolds == BuildTyped /\ FiledRight /\ Walking /\ SeqsInOrder /\ WrongIsSeen

\* What is filed is of the set, and none of it was filed before.
FiledWell ==
  /\ filed \in Seq(Listing) /\ Ours = Tops(filed) /\ Ours \subseteq set /\ FiledTxs \subseteq BuildTxs
  /\ IsFiniteSet(Ours) /\ Cardinality(Ours) \in Nat /\ Ours \in SUBSET BuildTxs /\ Ours \cap (DOMAIN past \cup Inners) = {}
  /\ Orders(OurRel, Ours)

\* Our order is one, whichever salt it takes.
LEMMA OurRelOrders ==
  ASSUME Ours \in SUBSET BuildTxs, set \in SUBSET BuildTxs
  PROVE  Orders(OurRel, Ours)
<1>1. PICK T \in SUBSET BuildTxs : Salt = SaltOf(T)
  BY DEF Salt
<1>2. QED
  BY <1>1, BeforeOrders DEF OurRel

\* What the network files is well filed.
LEMMA FiledIs ==
  ASSUME Fresh(set, past), filed = NetBuild(set, past).order
  PROVE  FiledWell
<1>1. filed = Ends(set, past).order
  BY EndsIs
<1>2. NetGoes(set, past)
  BY NetRuns
<1>3. filed \in Seq(Listing) /\ Tops(filed) \subseteq set
  BY <1>1, <1>2 DEF NetGoes
<1>4. FiledTxs = Txs(filed) /\ Ours = Tops(filed)
  BY DEF FiledTxs, Ours, Txs, Tops
<1>5. set \in SUBSET BuildTxs /\ set \cap (DOMAIN past \cup Inners) = {}
  BY DEF Fresh
<1>6. FiledTxs \subseteq BuildTxs
  <2>1. DOMAIN filed = 1 .. Len(filed) /\ \A i \in DOMAIN filed : filed[i] \in Listing
    BY <1>3, LenProperties, ElementOfSeq
  <2>2. QED
    BY <2>1 DEF FiledTxs, Listing
<1>7. Ours \in SUBSET BuildTxs /\ Ours \cap (DOMAIN past \cup Inners) = {}
  BY <1>3, <1>4, <1>5
<1>8. IsFiniteSet(Ours) /\ Cardinality(Ours) \in Nat
  BY <1>7, TxsFinite
<1>9. Orders(OurRel, Ours)
  BY <1>5, <1>7, OurRelOrders
<1>10. QED
  BY <1>3, <1>4, <1>6, <1>7, <1>8, <1>9 DEF FiledWell

\* The canonical set is all of the ledger's, in order.
LEMMA CanonicalIs ==
  ASSUME FiledWell
  PROVE  SeqOf(canonical_set, Ours, OurRel)
<1>1. canonical_set = Ranked(Ours, OurRel)
  BY DEF canonical_set, canonical_order, OurRel, Salt
<1>2. QED
  BY <1>1, RankedSeq DEF FiledWell

\* An account's next sequence grows with what the mirror knows.
LEMMA NextSeqIs ==
  ASSUME NEW f, NEW g, DOMAIN f \subseteq DOMAIN g, DOMAIN g \subseteq BuildTxs, NEW a
  PROVE  /\ NextSeq(f, a) \in Nat /\ NextSeq(g, a) \in Nat /\ NextSeq(f, a) <= NextSeq(g, a)
         /\ \A t \in DOMAIN g \ DOMAIN f : Account[t] = a /\ ~Proxy[t].ticket => NextSeq(f, a) < NextSeq(g, a)
<1> DEFINE F == {t \in DOMAIN f : Account[t] = a /\ ~Proxy[t].ticket}
           G == {t \in DOMAIN g : Account[t] = a /\ ~Proxy[t].ticket}
<1>1. F \subseteq G /\ G \in SUBSET BuildTxs
  OBVIOUS
<1>2. NextSeq(f, a) = 1 + Cardinality(F) /\ NextSeq(g, a) = 1 + Cardinality(G)
  BY DEF NextSeq
<1>3. \A t \in DOMAIN g \ DOMAIN f : Account[t] = a /\ ~Proxy[t].ticket => t \in G /\ t \notin F
  OBVIOUS
<1> HIDE DEF F, G
<1>4. IsFiniteSet(G) /\ Cardinality(G) \in Nat /\ Cardinality(F) \in Nat /\ Cardinality(F) <= Cardinality(G) /\ (Cardinality(G) = Cardinality(F) => G = F)
  BY <1>1, TxsFinite, FS_Subset
<1>5. G # F => Cardinality(F) < Cardinality(G)
  BY <1>4
<1>6. QED
  BY <1>2, <1>3, <1>4, <1>5

\* What applied by its sequence had its account's next.
LEMMA AppliedIsNext ==
  ASSUME NEW t \in BuildTxs, NEW before, DOMAIN before \subseteq BuildTxs, Result(t, before) \in Applied, BySequence(t)
  PROVE  Proxy[t].n = NextSeq(before, Account[t])
<1>1. NextSeq(before, Account[t]) \in Nat /\ Proxy[t].n \in Nat
  BY NextSeqIs, BuildAssumption
<1>2. ~ (Proxy[t].n > NextSeq(before, Account[t])) /\ ~ (Proxy[t].n < NextSeq(before, Account[t]))
  BY DEF Result, BySequence, Applied
<1>3. QED
  BY <1>1, <1>2

\* What an attempt does with t and the result code.
Outcome(code) == classify(code, certain_retry)
\* The engine's result, its mistakes included.
CodeOf(t) == IF t \in wrong THEN "tef" ELSE Result(t, ours)

\* What an attempt leaves alone.
Kept == set' = set /\ filed' = filed /\ set_agreed' = set_agreed /\ past' = past /\ wrong' = wrong /\ stage' = stage

\* t is tried.
Tries(t) ==
  /\ stage = "walk" /\ HeadGone(todo, Ours, OurRel) /\ t = Head(todo) /\ todo' = Tail(todo) /\ attempts' = attempts + 1
  /\ Kept /\ mode' = mode /\ certain_retry' = certain_retry /\ pass' = pass /\ total' = total /\ totals' = totals
  /\ Ours' = Ours /\ OurRel' = OurRel /\ t \in Ours /\ t \in BuildTxs /\ t \notin Inners /\ t \notin DOMAIN past

\* t is built, or fails, or waits.
Builds(t) ==
  /\ CodeOf(t) \in Applied /\ ~ (CodeOf(t) = "tec" /\ certain_retry) /\ t \notin wrong /\ CodeOf(t) = Result(t, ours)
  /\ built' = Append(built, [pass |-> pass, tx |-> t, code |-> CodeOf(t)]) /\ ours' = With(ours, t, CodeOf(t))
  /\ pass_changes' = pass_changes + 1 /\ failed_now' = failed_now /\ retry' = retry
Fails(t) ==
  /\ CodeOf(t) = "tef"
  /\ built' = built /\ ours' = ours /\ pass_changes' = pass_changes /\ failed_now' = failed_now \cup {t} /\ retry' = retry
Waits(t) ==
  /\ CodeOf(t) = "ter" \/ (CodeOf(t) = "tec" /\ certain_retry)
  /\ built' = built /\ ours' = ours /\ pass_changes' = pass_changes /\ failed_now' = failed_now /\ retry' = Append(retry, t)

\* An attempt is one of the three.
LEMMA AttemptIs ==
  ASSUME BuildHolds, Attempt
  PROVE  FiledWell /\ \E t : Tries(t) /\ (Builds(t) \/ Fails(t) \/ Waits(t))
<1> DEFINE t == Head(todo)
           code == CodeOf(t)
<1>1. stage = "walk" /\ todo # <<>> /\ Parted /\ Lined /\ BuildTyped /\ Fresh(set, past) /\ filed = NetBuild(set, past).order
  BY DEF Attempt, BuildHolds, Walking, FiledRight
<1>2. FiledWell
  BY <1>1, FiledIs
<1>3. HeadGone(todo, Ours, OurRel)
  BY <1>1, <1>2, HeadIs DEF FiledWell, Parted, Lined
<1>4. t \in Ours /\ t \in BuildTxs /\ t \notin Inners /\ t \notin DOMAIN past
  BY <1>2, <1>3 DEF HeadGone, FiledWell
<1>5. Kept /\ mode' = mode /\ certain_retry' = certain_retry /\ pass' = pass /\ total' = total /\ totals' = totals /\ todo' = Tail(todo) /\ attempts' = attempts + 1
  BY DEF Attempt, Kept
<1>6. Ours' = Ours
  BY <1>5 DEF Kept, Ours, FiledTxs
<1>7. OurRel' = OurRel
  BY <1>5, <1>6 DEF Kept, OurRel, Salt
<1>8. Tries(t)
  BY <1>1, <1>3, <1>4, <1>5, <1>6, <1>7 DEF Tries
<1>9. code \in Applied \cup {"ter", "tef"} /\ (code \in Applied => t \notin wrong /\ code = Result(t, ours)) /\ certain_retry \in BOOLEAN
  BY <1>1, <1>4, ResultIs DEF CodeOf, Applied, BuildTyped
<1>10. /\ built' = IF Outcome(code) = "Success" THEN Append(built, [pass |-> pass, tx |-> t, code |-> code]) ELSE built
       /\ ours' = IF Outcome(code) = "Success" THEN With(ours, t, code) ELSE ours
       /\ pass_changes' = IF Outcome(code) = "Success" THEN pass_changes + 1 ELSE pass_changes
       /\ failed_now' = IF Outcome(code) = "Fail" THEN failed_now \cup {t} ELSE failed_now
       /\ retry' = IF Outcome(code) = "Retry" THEN Append(retry, t) ELSE retry
  BY DEF Attempt, Outcome, CodeOf
<1> HIDE DEF t, code
<1>11. /\ code \in {"tes", "kept"} => Outcome(code) = "Success"
       /\ code = "ter" => Outcome(code) = "Retry"
       /\ code = "tec" => Outcome(code) = IF certain_retry THEN "Retry" ELSE "Success"
       /\ code = "tef" => Outcome(code) = "Fail"
  BY DEF Outcome, classify
<1>12. CASE code \in Applied /\ ~ (code = "tec" /\ certain_retry)
  <2>1. Outcome(code) = "Success"
    BY <1>9, <1>11, <1>12 DEF Applied
  <2>2. Builds(t)
    BY <2>1, <1>9, <1>10, <1>12 DEF Builds, code
  <2>3. QED
    BY <2>2, <1>2, <1>8
<1>13. CASE code = "tef"
  <2>1. Outcome(code) = "Fail"
    BY <1>11, <1>13
  <2>2. Fails(t)
    BY <2>1, <1>10, <1>13 DEF Fails, code
  <2>3. QED
    BY <2>2, <1>2, <1>8
<1>14. CASE code = "ter" \/ (code = "tec" /\ certain_retry)
  <2>1. Outcome(code) = "Retry"
    BY <1>11, <1>14
  <2>2. Waits(t)
    BY <2>1, <1>10, <1>14 DEF Waits, code
  <2>3. QED
    BY <2>2, <1>2, <1>8
<1>15. QED
  BY <1>9, <1>12, <1>13, <1>14

\* One more built.
LEMMA BuiltIs ==
  ASSUME built \in Seq(Built), NEW t, Tries(t), Builds(t), pass \in Nat
  PROVE  /\ built' \in Seq(Built) /\ BuiltTxs' = BuiltTxs \cup {t} /\ Len(built') = Len(built) + 1 /\ Len(built) \in Nat
         /\ DOMAIN built = 1 .. Len(built) /\ DOMAIN built' = 1 .. Len(built) + 1
         /\ \A i \in 1 .. Len(built) : built'[i] = built[i]
         /\ built'[Len(built) + 1] = [pass |-> pass, tx |-> t, code |-> CodeOf(t)]
<1> DEFINE e == [pass |-> pass, tx |-> t, code |-> CodeOf(t)]
           n == Len(built)
<1>1. e \in Built /\ e.tx = t
  BY DEF Built, Builds, Tries
<1>2. built' = Append(built, e)
  BY DEF Builds
<1> HIDE DEF e, n
<1>3. /\ built' \in Seq(Built) /\ Len(built') = n + 1 /\ n \in Nat /\ DOMAIN built = 1 .. n /\ DOMAIN built' = 1 .. n + 1
      /\ (\A i \in 1 .. n : built'[i] = built[i]) /\ built'[n + 1] = e
  BY <1>1, <1>2, AppendIs DEF n
<1>4. 1 .. n + 1 = 1 .. n \cup {n + 1}
  BY <1>3
<1>5. BuiltTxs' = {built'[i].tx : i \in 1 .. n + 1} /\ BuiltTxs = {built[i].tx : i \in 1 .. n}
  BY <1>3 DEF BuiltTxs
<1>6. BuiltTxs' = BuiltTxs \cup {t}
  BY <1>1, <1>3, <1>4, <1>5
<1>7. QED
  BY <1>3, <1>6 DEF n, e

\* An attempt moves a transaction from one place to another.
LEMMA AttemptParts ==
  ASSUME BuildHolds, FiledWell, NEW t, Tries(t), Builds(t) \/ Fails(t) \/ Waits(t)
  PROVE  Parted'
<1>1. Parted /\ BuildTyped
  BY DEF BuildHolds, Walking, Tries
<1>2. /\ todo \in Seq(Ours) /\ retry \in Seq(Ours) /\ failed_now \subseteq Ours /\ Len(retry) \in Nat /\ Len(built) \in Nat
      /\ BuiltTxs \cup failed_now \cup Range(todo) \cup Range(retry) = Ours
      /\ Len(built) + Cardinality(failed_now) + Len(todo) + Len(retry) = Cardinality(Ours)
      /\ BuiltTxs \cap (failed_now \cup Range(todo) \cup Range(retry)) = {} /\ failed_now \cap (Range(todo) \cup Range(retry)) = {}
  BY <1>1, LenProperties DEF Parted, BuildTyped
<1>3. /\ t \in Ours /\ todo' \in Seq(Ours) /\ Range(todo) = {t} \cup Range(todo') /\ t \notin Range(todo')
      /\ Len(todo') = Len(todo) - 1 /\ Len(todo) \in Nat /\ \A y \in Range(todo') : <<t, y>> \in OurRel
  BY DEF Tries, HeadGone
<1>4. Ours' = Ours
  BY DEF Tries
<1>5. IsFiniteSet(failed_now) /\ Cardinality(failed_now) \in Nat
  BY <1>2, FS_Subset, FS_CardinalityType DEF FiledWell
<1>6. t \notin Range(retry)
  <2>1. <<t, t>> \notin OurRel
    BY <1>3 DEF FiledWell, Orders
  <2>2. QED
    BY <2>1, <1>3 DEF BuildHolds, Walking, Lined, Tries
<1>7. CASE Builds(t)
  <2>1. BuiltTxs' = BuiltTxs \cup {t} /\ Len(built') = Len(built) + 1 /\ failed_now' = failed_now /\ retry' = retry
    BY <1>1, <1>7, BuiltIs DEF Builds, BuildTyped
  <2>2. Len(built') + Cardinality(failed_now') + Len(todo') + Len(retry') = Cardinality(Ours')
    <3>1. PICK x \in Int, y \in Int, z \in Int, u \in Int : x = Len(built) /\ y = Cardinality(failed_now) /\ z = Len(todo) /\ u = Len(retry)
      BY <1>2, <1>3, <1>5
    <3>2. x + y + z + u = Cardinality(Ours)
      BY <3>1, <1>2
    <3>3. (x + 1) + y + (z - 1) + u = x + y + z + u
      OBVIOUS
    <3>4. Len(built') = x + 1 /\ Cardinality(failed_now') = y /\ Len(todo') = z - 1 /\ Len(retry') = u
      BY <3>1, <2>1, <1>3
    <3>5. QED
      BY <3>2, <3>3, <3>4, <1>4
  <2>3. BuiltTxs' \cup failed_now' \cup Range(todo') \cup Range(retry') = Ours'
    BY <2>1, <1>2, <1>3, <1>4
  <2>4. BuiltTxs' \cap (failed_now' \cup Range(todo') \cup Range(retry')) = {} /\ failed_now' \cap (Range(todo') \cup Range(retry')) = {}
    BY <2>1, <1>2, <1>3, <1>6
  <2>5. QED
    BY <2>1, <2>2, <2>3, <2>4, <1>2, <1>3, <1>4 DEF Parted
<1>8. CASE Fails(t)
  <2>1. BuiltTxs' = BuiltTxs /\ built' = built /\ failed_now' = failed_now \cup {t} /\ retry' = retry
    BY <1>8 DEF Fails, BuiltTxs
  <2>2. t \notin failed_now
    BY <1>2, <1>3
  <2>3. Cardinality(failed_now') = Cardinality(failed_now) + 1
    BY <2>1, <2>2, <1>5, FS_AddElement
  <2>4. Len(built') + Cardinality(failed_now') + Len(todo') + Len(retry') = Cardinality(Ours')
    <3>1. PICK x \in Int, y \in Int, z \in Int, u \in Int : x = Len(built) /\ y = Cardinality(failed_now) /\ z = Len(todo) /\ u = Len(retry)
      BY <1>2, <1>3, <1>5
    <3>2. x + y + z + u = Cardinality(Ours)
      BY <3>1, <1>2
    <3>3. x + (y + 1) + (z - 1) + u = x + y + z + u
      OBVIOUS
    <3>4. Len(built') = x /\ Cardinality(failed_now') = y + 1 /\ Len(todo') = z - 1 /\ Len(retry') = u
      BY <3>1, <2>1, <2>3, <1>3
    <3>5. QED
      BY <3>2, <3>3, <3>4, <1>4
  <2>5. BuiltTxs' \cup failed_now' \cup Range(todo') \cup Range(retry') = Ours'
    BY <2>1, <1>2, <1>3, <1>4
  <2>6. BuiltTxs' \cap (failed_now' \cup Range(todo') \cup Range(retry')) = {} /\ failed_now' \cap (Range(todo') \cup Range(retry')) = {}
    BY <2>1, <1>2, <1>3, <1>6
  <2>7. QED
    BY <2>1, <2>4, <2>5, <2>6, <1>2, <1>3, <1>4 DEF Parted
<1>9. CASE Waits(t)
  <2>1. BuiltTxs' = BuiltTxs /\ built' = built /\ failed_now' = failed_now /\ retry' = Append(retry, t)
    BY <1>9 DEF Waits, BuiltTxs
  <2>2. retry' \in Seq(Ours) /\ Range(retry') = Range(retry) \cup {t} /\ Len(retry') = Len(retry) + 1
    BY <2>1, <1>2, <1>3, AppendIs
  <2>4. Len(built') + Cardinality(failed_now') + Len(todo') + Len(retry') = Cardinality(Ours')
    <3>1. PICK x \in Int, y \in Int, z \in Int, u \in Int : x = Len(built) /\ y = Cardinality(failed_now) /\ z = Len(todo) /\ u = Len(retry)
      BY <1>2, <1>3, <1>5
    <3>2. x + y + z + u = Cardinality(Ours)
      BY <3>1, <1>2
    <3>3. x + y + (z - 1) + (u + 1) = x + y + z + u
      OBVIOUS
    <3>4. Len(built') = x /\ Cardinality(failed_now') = y /\ Len(todo') = z - 1 /\ Len(retry') = u + 1
      BY <3>1, <2>1, <2>2, <1>3
    <3>5. QED
      BY <3>2, <3>3, <3>4, <1>4
  <2>5. BuiltTxs' \cup failed_now' \cup Range(todo') \cup Range(retry') = Ours'
    BY <2>1, <2>2, <1>2, <1>3, <1>4
  <2>6. BuiltTxs' \cap (failed_now' \cup Range(todo') \cup Range(retry')) = {} /\ failed_now' \cap (Range(todo') \cup Range(retry')) = {}
    BY <2>1, <2>2, <1>2, <1>3, <1>6
  <2>7. QED
    BY <2>1, <2>2, <2>4, <2>5, <2>6, <1>2, <1>3, <1>4 DEF Parted
<1>10. QED
  BY <1>7, <1>8, <1>9

\* An attempt keeps both lists in order, and counts.
LEMMA AttemptLines ==
  ASSUME BuildHolds, FiledWell, NEW t, Tries(t), Builds(t) \/ Fails(t) \/ Waits(t)
  PROVE  Lined' /\ Counted'
<1>1. Parted /\ Lined /\ BuildTyped /\ Counted
  BY DEF BuildHolds, Walking, Tries
<1>2. /\ t \in Ours /\ Range(todo) = {t} \cup Range(todo') /\ Sorted(todo', OurRel)
      /\ Len(todo') = Len(todo) - 1 /\ Len(todo) \in Nat /\ \A y \in Range(todo') : <<t, y>> \in OurRel
  BY DEF Tries, HeadGone
<1>3. Ours' = Ours /\ OurRel' = OurRel /\ pass' = pass /\ attempts' = attempts + 1
  BY DEF Tries
<1>4. retry \in Seq(Ours) /\ Sorted(retry, OurRel) /\ \A x \in Range(retry), y \in Range(todo) : <<x, y>> \in OurRel
  BY <1>1 DEF Parted, Lined
<1>5. Counted'
  <2>1. PICK c : c = (pass + 1) * Cardinality(Ours)
    OBVIOUS
  <2>2. attempts + Len(todo) <= c /\ pass + 1 <= TotalPasses /\ attempts \in Nat
    BY <2>1, <1>1 DEF Counted, BuildTyped
  <2>3. attempts' + Len(todo') = attempts + Len(todo)
    BY <2>2, <1>2, <1>3
  <2>4. (pass' + 1) * Cardinality(Ours') = c
    BY <2>1, <1>3
  <2>5. QED
    BY <2>2, <2>3, <2>4, <1>3 DEF Counted, TotalPasses
<1>6. Lined'
  <2>1. CASE retry' = retry
    BY <2>1, <1>2, <1>3, <1>4 DEF Lined
  <2>2. CASE retry' = Append(retry, t)
    <3>1. Range(retry') = Range(retry) \cup {t}
      BY <2>2, <1>2, <1>4, AppendIs
    <3>2. Sorted(retry', OurRel)
      BY <2>2, <1>2, <1>4, SortedAppend
    <3>3. QED
      BY <3>1, <3>2, <1>2, <1>3, <1>4 DEF Lined
  <2>3. QED
    BY <2>1, <2>2 DEF Builds, Fails, Waits
<1>7. QED
  BY <1>5, <1>6

\* Accounts and sequences are numbers.
LEMMA TxNumbers == \A t \in BuildTxs : Account[t] \in Nat /\ Proxy[t].n \in Nat
<1>1. SUFFICES ASSUME NEW t \in BuildTxs PROVE Account[t] \in Nat /\ Proxy[t].n \in Nat
  OBVIOUS
<1>2. Account[t] \in Nat /\ Proxy[t] \in [ticket : BOOLEAN, n : Nat]
  BY BuildAssumption
<1>3. QED
  BY <1>2

\* An attempt keeps the mirror, and the order of the sequences built.
LEMMA AttemptMirrors ==
  ASSUME BuildHolds, FiledWell, NEW t, Tries(t), Builds(t) \/ Fails(t) \/ Waits(t)
  PROVE  Mirrored' /\ SeqsInOrder' /\ built' \in Seq(Built)
<1>1. Parted /\ Mirrored /\ BuildTyped /\ SeqsInOrder
  BY DEF BuildHolds, Walking, Tries
<1>2. t \in Ours /\ t \in BuildTxs /\ t \notin Inners /\ Ours' = Ours /\ wrong' = wrong
  BY DEF Tries, Kept
<1>3. built \in Seq(Built) /\ pass \in Nat
  BY <1>1 DEF BuildTyped
<1>4. CASE built' = built /\ ours' = ours
  <2>1. BuiltTxs' = BuiltTxs
    BY <1>4 DEF BuiltTxs
  <2>2. Mirrored'
    BY <1>1, <1>2, <1>4, <2>1 DEF Mirrored, NextSeq
  <2>3. SeqsInOrder'
    BY <1>1, <1>4 DEF SeqsInOrder
  <2>4. QED
    BY <2>2, <2>3, <1>3, <1>4
<1>5. CASE Builds(t)
  <2> DEFINE code == CodeOf(t)
             n == Len(built)
  <2>1. /\ built' \in Seq(Built) /\ BuiltTxs' = BuiltTxs \cup {t} /\ n \in Nat
        /\ DOMAIN built = 1 .. n /\ DOMAIN built' = 1 .. n + 1
        /\ \A i \in 1 .. n : built'[i] = built[i]
        /\ built'[n + 1] = [pass |-> pass, tx |-> t, code |-> code]
    BY <1>3, <1>5, BuiltIs
  <2>2. code \in Applied /\ code = Result(t, ours) /\ t \notin wrong /\ ours' = With(ours, t, code)
    BY <1>5 DEF Builds
  <2> HIDE DEF code, n
  <2>3. DOMAIN ours' = DOMAIN ours \cup {t} \cup Brought(t, code)
    BY <2>2 DEF With, Brought
  <2>4. Brought(t, code) \subseteq Inners /\ Brought(t, code) \subseteq BuildTxs
    BY <1>2, InnersAre DEF Brought
  <2>5. DOMAIN ours \subseteq BuildTxs /\ DOMAIN ours' \subseteq BuildTxs /\ DOMAIN ours \subseteq DOMAIN ours'
    BY <2>3, <2>4, <1>1, <1>2 DEF Mirrored
  <2>6. DOMAIN ours' \cap Ours' \subseteq BuiltTxs'
    BY <2>1, <2>3, <2>4, <1>1, <1>2 DEF Mirrored, FiledWell
  <2>7. t \notin DOMAIN ours /\ t \in DOMAIN ours'
    <3>1. t \notin BuiltTxs
      BY <1>1 DEF Parted, Tries, HeadGone
    <3>2. QED
      BY <3>1, <2>3, <1>1, <1>2 DEF Mirrored
  <2>8. \A i \in 1 .. n : built[i] \in Built /\ Account[built[i].tx] \in Nat /\ Proxy[built[i].tx].n \in Nat
    <3>1. SUFFICES ASSUME NEW i \in 1 .. n PROVE built[i] \in Built /\ Account[built[i].tx] \in Nat /\ Proxy[built[i].tx].n \in Nat
      OBVIOUS
    <3>2. built[i] \in Built
      BY <1>3, ElementOfSeq DEF n
    <3>3. built[i].tx \in BuildTxs
      BY <3>2 DEF Built
    <3>4. QED
      BY <3>2, <3>3, TxNumbers
  <2>9. \A a : NextSeq(ours, a) \in Nat /\ NextSeq(ours', a) \in Nat /\ NextSeq(ours, a) <= NextSeq(ours', a)
    BY <2>5, NextSeqIs
  <2>10. BySequence(t) => Proxy[t].n = NextSeq(ours, Account[t]) /\ NextSeq(ours, Account[t]) < NextSeq(ours', Account[t])
    <3>1. SUFFICES ASSUME BySequence(t) PROVE Proxy[t].n = NextSeq(ours, Account[t]) /\ NextSeq(ours, Account[t]) < NextSeq(ours', Account[t])
      OBVIOUS
    <3>2. Proxy[t].n = NextSeq(ours, Account[t])
      BY <3>1, <2>2, <2>5, <1>2, AppliedIsNext
    <3>3. ~ Proxy[t].ticket /\ t \in DOMAIN ours' \ DOMAIN ours
      BY <3>1, <2>7 DEF BySequence
    <3>4. NextSeq(ours, Account[t]) < NextSeq(ours', Account[t])
      BY <3>3, <2>5, NextSeqIs
    <3>5. QED
      BY <3>2, <3>4
  <2>11. built'[n + 1].tx = t
    BY <2>1
  <2>12. ASSUME NEW i \in DOMAIN built', BySequence(built'[i].tx) PROVE Proxy[built'[i].tx].n < NextSeq(ours', Account[built'[i].tx])
    <3>1. CASE i \in 1 .. n
      <4>1. built'[i] = built[i] /\ Proxy[built[i].tx].n < NextSeq(ours, Account[built[i].tx])
        BY <3>1, <2>1, <2>12, <1>1 DEF Mirrored
      <4>2. PICK x, y, z : x = Proxy[built[i].tx].n /\ y = NextSeq(ours, Account[built[i].tx]) /\ z = NextSeq(ours', Account[built[i].tx])
        OBVIOUS
      <4>3. x \in Int /\ y \in Int /\ z \in Int /\ x < y /\ y <= z
        BY <3>1, <4>1, <4>2, <2>8, <2>9
      <4>4. x < z
        BY <4>3
      <4>5. QED
        BY <4>1, <4>2, <4>4
    <3>2. CASE i = n + 1
      BY <3>2, <2>10, <2>11, <2>12
    <3>3. QED
      BY <3>1, <3>2, <2>1
  <2>13. BuiltTxs' \cap wrong' = {}
    BY <2>1, <2>2, <1>1, <1>2 DEF Mirrored
  <2>14. Mirrored'
    BY <2>5, <2>6, <2>12, <2>13 DEF Mirrored, NextSeq
  <2>15. ASSUME NEW i \in DOMAIN built', NEW j \in DOMAIN built', i < j, Account[built'[i].tx] = Account[built'[j].tx],
                BySequence(built'[i].tx), BySequence(built'[j].tx)
         PROVE  Proxy[built'[i].tx].n < Proxy[built'[j].tx].n
    <3>1. i \in 1 .. n
      BY <2>1, <2>15
    <3>2. CASE j \in 1 .. n
      <4>1. built'[i] = built[i] /\ built'[j] = built[j]
        BY <3>1, <3>2, <2>1
      <4>2. QED
        BY <4>1, <3>1, <3>2, <2>1, <2>15, <1>1 DEF SeqsInOrder
    <3>3. CASE j = n + 1
      <4>1. built'[i] = built[i] /\ built'[j].tx = t
        BY <3>1, <3>3, <2>1, <2>11
      <4>2. Proxy[built[i].tx].n < NextSeq(ours, Account[built[i].tx])
        BY <3>1, <4>1, <2>1, <2>15, <1>1 DEF Mirrored
      <4>3. Proxy[t].n = NextSeq(ours, Account[t]) /\ Account[built[i].tx] = Account[t]
        BY <4>1, <2>10, <2>15
      <4>4. QED
        BY <4>1, <4>2, <4>3
    <3>4. QED
      BY <3>2, <3>3, <2>1
  <2>16. SeqsInOrder'
    BY <2>15 DEF SeqsInOrder
  <2>17. QED
    BY <2>1, <2>14, <2>16
<1>6. QED
  BY <1>4, <1>5 DEF Fails, Waits

\* So an attempt keeps the invariant.
LEMMA AttemptStep ==
  ASSUME BuildHolds, Attempt
  PROVE  BuildHolds'
<1>1. PICK t : FiledWell /\ Tries(t) /\ (Builds(t) \/ Fails(t) \/ Waits(t))
  BY AttemptIs
<1>2. Parted' /\ Lined' /\ Counted' /\ Mirrored' /\ SeqsInOrder' /\ built' \in Seq(Built)
  BY <1>1, AttemptParts, AttemptLines, AttemptMirrors
<1>3. BuildTyped /\ FiledRight
  BY DEF BuildHolds
<1>4. BuildTyped'
  <2>1. /\ mode' = mode /\ stage' = stage /\ set' = set /\ set_agreed' = set_agreed /\ certain_retry' = certain_retry /\ pass' = pass
        /\ attempts' = attempts + 1 /\ past' = past /\ total' = total /\ totals' = totals /\ (pass_changes' = pass_changes + 1 \/ pass_changes' = pass_changes)
    BY <1>1 DEF Tries, Kept, Builds, Fails, Waits
  <2>2. attempts' \in Nat /\ pass_changes' \in Nat
    BY <2>1, <1>3 DEF BuildTyped
  <2>3. QED
    BY <2>1, <2>2, <1>2, <1>3 DEF BuildTyped
<1>5. FiledRight' /\ Walking' /\ WrongIsSeen'
  <2>1. stage = "walk" /\ stage' = "walk" /\ set' = set /\ past' = past /\ filed' = filed
    BY <1>1 DEF Tries, Kept
  <2>2. FiledRight'
    BY <2>1, <1>3 DEF FiledRight
  <2>3. QED
    BY <2>1, <2>2, <1>2 DEF Walking, WrongIsSeen
<1>6. QED
  BY <1>2, <1>4, <1>5 DEF BuildHolds

\* A ledger the network files keeps it.
LEMMA LedgerFiledStep ==
  ASSUME BuildHolds, NEW S \in Sets, LedgerFiled(S)
  PROVE  BuildHolds'
<1>1. BuildTyped /\ SeqsInOrder /\ S \in SUBSET BuildTxs
  BY BuildAssumption DEF BuildHolds
<1>2. Fresh(S, past)
  BY <1>1 DEF LedgerFiled, Fresh, BuildTyped
<1>3. stage' = "ready" /\ set' = S /\ past' = past /\ filed' = NetBuild(S, past).order /\ set_agreed' \in BOOLEAN /\ built' = built
  BY DEF LedgerFiled, walk_vars
<1>4. BuildTyped'
  BY <1>1, <1>3 DEF BuildTyped, LedgerFiled, walk_vars
<1>5. FiledRight' /\ Walking' /\ WrongIsSeen'
  BY <1>2, <1>3 DEF FiledRight, Walking, WrongIsSeen
<1>6. SeqsInOrder'
  BY <1>1, <1>3 DEF SeqsInOrder
<1>7. QED
  BY <1>4, <1>5, <1>6 DEF BuildHolds

\* The lists begin with all of the ledger's transactions to try.
LEMMA WalkBeginsStep ==
  ASSUME BuildHolds, WalkBegins
  PROVE  BuildHolds'
<1>1. BuildTyped /\ stage = "ready" /\ Fresh(set, past) /\ filed = NetBuild(set, past).order
  BY DEF BuildHolds, WalkBegins, FiledRight
<1>2. FiledWell
  BY <1>1, FiledIs
<1>3. SeqOf(canonical_set, Ours, OurRel)
  BY <1>2, CanonicalIs
<1>4. /\ todo' = canonical_set /\ retry' = <<>> /\ pass' = 0 /\ pass_changes' = 0 /\ certain_retry' = TRUE /\ built' = <<>>
      /\ ours' = past /\ failed_now' = {} /\ attempts' = 0 /\ stage' = "walk" /\ mode' = mode /\ set' = set /\ filed' = filed
      /\ set_agreed' = set_agreed /\ past' = past /\ total' = total /\ totals' = totals /\ wrong' = wrong
  BY DEF WalkBegins
<1>5. Ours' = Ours
  BY <1>4 DEF Ours, FiledTxs
<1>6. OurRel' = OurRel
  BY <1>4, <1>5 DEF OurRel, Salt
<1>7. DOMAIN built' = {} /\ built' \in Seq(Built) /\ Len(built') = 0 /\ BuiltTxs' = {}
  <2>1. DOMAIN built' = {} /\ Len(built') = 0 /\ built' \in Seq(Built)
    BY <1>4
  <2>2. QED
    BY <2>1 DEF BuiltTxs
<1>8. DOMAIN retry' = {} /\ Range(retry') = {} /\ Len(retry') = 0 /\ retry' \in Seq(Ours)
  <2>1. DOMAIN retry' = {} /\ Len(retry') = 0 /\ retry' \in Seq(Ours)
    BY <1>4
  <2>2. QED
    BY <2>1 DEF Range
<1>9. todo' \in Seq(Ours) /\ Sorted(todo', OurRel) /\ Range(todo') = Ours /\ Len(todo') = Cardinality(Ours) /\ Cardinality(Ours) \in Nat
  BY <1>2, <1>3, <1>4 DEF SeqOf, FiledWell
<1>10. Parted'
  <2>1. Cardinality(failed_now') = 0
    BY <1>4, FS_EmptySet
  <2>2. Len(built') + Cardinality(failed_now') + Len(todo') + Len(retry') = Cardinality(Ours')
    BY <2>1, <1>5, <1>7, <1>8, <1>9
  <2>3. QED
    BY <2>2, <1>4, <1>5, <1>7, <1>8, <1>9 DEF Parted
<1>11. Lined'
  <2>1. Sorted(retry', OurRel')
    BY <1>8 DEF Sorted
  <2>2. Sorted(todo', OurRel')
    BY <1>6, <1>9
  <2>3. QED
    BY <2>1, <2>2, <1>8 DEF Lined
<1>12. Counted'
  <2>1. (pass' + 1) * Cardinality(Ours') = Cardinality(Ours)
    BY <1>4, <1>5, <1>9
  <2>2. QED
    BY <2>1, <1>4, <1>9 DEF Counted, TotalPasses
<1>13. Mirrored'
  <2>1. DOMAIN past \subseteq BuildTxs /\ DOMAIN past \cap Ours = {}
    BY <1>1, <1>2 DEF BuildTyped, FiledWell
  <2>2. QED
    BY <2>1, <1>4, <1>5, <1>7 DEF Mirrored
<1>14. SeqsInOrder'
  BY <1>7 DEF SeqsInOrder
<1>15. BuildTyped'
  BY <1>1, <1>4, <1>7 DEF BuildTyped
<1>16. FiledRight' /\ WrongIsSeen'
  BY <1>1, <1>4 DEF FiledRight, WrongIsSeen
<1>17. Walking'
  BY <1>4, <1>10, <1>11, <1>12, <1>13 DEF Walking
<1>18. QED
  BY <1>14, <1>15, <1>16, <1>17 DEF BuildHolds

\* What the walk keeps, the lists and the ledger standing.
Stand == filed' = filed /\ set' = set /\ set_agreed' = set_agreed /\ built' = built /\ failed_now' = failed_now /\ ours' = ours /\ wrong' = wrong

\* Then the walk's relations stand as well.
LEMMA StandsStill ==
  ASSUME Stand
  PROVE  Ours' = Ours /\ OurRel' = OurRel /\ BuiltTxs' = BuiltTxs /\ (Mirrored => Mirrored') /\ (SeqsInOrder => SeqsInOrder')
<1>1. Ours' = Ours
  BY DEF Stand, Ours, FiledTxs
<1>2. OurRel' = OurRel
  BY <1>1 DEF Stand, OurRel, Salt
<1>3. BuiltTxs' = BuiltTxs
  BY DEF Stand, BuiltTxs
<1>4. Mirrored => Mirrored'
  BY <1>1, <1>3 DEF Stand, Mirrored, NextSeq
<1>5. SeqsInOrder => SeqsInOrder'
  BY DEF Stand, SeqsInOrder
<1>6. QED
  BY <1>1, <1>2, <1>3, <1>4, <1>5

\* What waited is tried in the next pass, or left.
LEMMA PassEndsStep ==
  ASSUME BuildHolds, PassEnds
  PROVE  BuildHolds'
<1>1. BuildTyped /\ FiledRight /\ Walking /\ SeqsInOrder /\ stage = "walk" /\ todo = <<>>
  BY DEF BuildHolds, PassEnds
<1>2. Parted /\ Lined /\ Counted /\ Mirrored
  BY <1>1 DEF Walking
<1>3. Stand /\ mode' = mode /\ past' = past /\ total' = total /\ totals' = totals /\ attempts' = attempts
  BY DEF PassEnds, Stand
<1>4. Ours' = Ours /\ OurRel' = OurRel /\ BuiltTxs' = BuiltTxs /\ Mirrored' /\ SeqsInOrder'
  BY <1>1, <1>2, <1>3, StandsStill
<1>5. FiledWell
  BY <1>1, FiledIs DEF FiledRight
<1>6. stage' \in {"walk", "walked"} /\ FiledRight' /\ WrongIsSeen'
  <2>1. stage' \in {"walk", "walked"}
    BY <1>1 DEF PassEnds
  <2>2. QED
    BY <2>1, <1>1, <1>3 DEF FiledRight, WrongIsSeen, Stand
<1>7. CASE WalkOver
  <2>1. stage' = "walked" /\ left' = retry /\ todo' = todo /\ retry' = retry /\ pass' = pass /\ pass_changes' = pass_changes /\ certain_retry' = certain_retry
    BY <1>7 DEF PassEnds
  <2>2. Parted'
    BY <2>1, <1>2, <1>3, <1>4 DEF Parted, Stand
  <2>3. Lined'
    BY <2>1, <1>2, <1>4 DEF Lined
  <2>4. Counted'
    BY <2>1, <1>2, <1>3, <1>4 DEF Counted
  <2>5. BuildTyped'
    BY <2>1, <1>1, <1>3 DEF BuildTyped, Stand
  <2>6. Walking'
    BY <2>1, <2>2, <2>3, <2>4, <1>1, <1>4 DEF Walking
  <2>7. QED
    BY <2>5, <2>6, <1>4, <1>6 DEF BuildHolds
<1>8. CASE ~ WalkOver
  <2>1. /\ todo' = retry /\ retry' = <<>> /\ pass' = pass + 1 /\ pass_changes' = 0 /\ certain_retry' = StillCertain /\ stage' = stage
        /\ pass + 1 # TotalPasses
    BY <1>8 DEF PassEnds, WalkOver
  <2>2. /\ retry \in Seq(Ours) /\ Len(retry) \in Nat /\ Len(built) \in Nat /\ Cardinality(failed_now) \in Nat
        /\ Len(built) + Cardinality(failed_now) + Len(todo) + Len(retry) = Cardinality(Ours)
    BY <1>1, <1>2, <1>5, LenProperties, FS_Subset, FS_CardinalityType DEF Parted, BuildTyped, FiledWell
  <2>3. Len(todo) = 0 /\ Range(todo) = {}
    BY <1>1 DEF Range
  <2>4. Range(retry') = {} /\ Len(retry') = 0 /\ retry' \in Seq(Ours) /\ DOMAIN retry' = {}
    <3>1. DOMAIN retry' = {} /\ Len(retry') = 0 /\ retry' \in Seq(Ours)
      BY <2>1
    <3>2. QED
      BY <3>1 DEF Range
  <2>5. Parted'
    <3>1. Len(built') + Cardinality(failed_now') + Len(todo') + Len(retry') = Cardinality(Ours')
      <4>1. PICK x \in Int, y \in Int, u \in Int : x = Len(built) /\ y = Cardinality(failed_now) /\ u = Len(retry)
        BY <2>2
      <4>2. x + y + 0 + u = Cardinality(Ours)
        BY <4>1, <2>2, <2>3
      <4>3. x + y + u + 0 = x + y + 0 + u
        OBVIOUS
      <4>4. Len(built') = x /\ Cardinality(failed_now') = y /\ Len(todo') = u /\ Len(retry') = 0
        BY <4>1, <2>1, <2>4, <1>3 DEF Stand
      <4>5. QED
        BY <4>2, <4>3, <4>4, <1>4
    <3>2. todo' \in Seq(Ours') /\ retry' \in Seq(Ours') /\ failed_now' \subseteq Ours'
      BY <2>1, <2>2, <2>4, <1>2, <1>3, <1>4 DEF Parted, Stand
    <3>3. Range(todo') = Range(retry)
      BY <2>1
    <3>4. BuiltTxs' \cup failed_now' \cup Range(todo') \cup Range(retry') = Ours'
      BY <3>3, <2>3, <2>4, <1>2, <1>3, <1>4 DEF Parted, Stand
    <3>5. /\ BuiltTxs' \cap (failed_now' \cup Range(todo') \cup Range(retry')) = {}
          /\ failed_now' \cap (Range(todo') \cup Range(retry')) = {}
      BY <3>3, <2>3, <2>4, <1>2, <1>3, <1>4 DEF Parted, Stand
    <3>6. QED
      BY <3>1, <3>2, <3>4, <3>5 DEF Parted
  <2>6. Lined'
    <3>1. Sorted(retry', OurRel')
      BY <2>4 DEF Sorted
    <3>2. Sorted(todo', OurRel')
      BY <2>1, <1>2, <1>4 DEF Lined
    <3>3. QED
      BY <3>1, <3>2, <2>4 DEF Lined
  <2>7. Counted'
    <3>1. PICK c \in Int, r \in Int, p \in Int, a \in Int : c = Cardinality(Ours) /\ r = Len(retry) /\ p = pass /\ a = attempts
      BY <2>2, <1>1, <1>5 DEF FiledWell, BuildTyped
    <3>2. r <= c
      <4>1. PICK x \in Nat, y \in Nat : x = Len(built) /\ y = Cardinality(failed_now)
        BY <2>2
      <4>2. x + y + 0 + r = c
        BY <4>1, <3>1, <2>2, <2>3
      <4>3. QED
        BY <4>2
    <3>3. a + 0 <= (p + 1) * c /\ p + 1 <= 3 /\ p + 1 # 3
      BY <3>1, <2>1, <2>3, <1>2 DEF Counted, TotalPasses
    <3>4. ((p + 1) + 1) * c = (p + 1) * c + c
      BY Z3
    <3>5. (p + 1) * c \in Int
      OBVIOUS
    <3>6. a + r <= ((p + 1) + 1) * c
      <4>1. PICK d \in Int : d = (p + 1) * c
        BY <3>5
      <4>2. a + r <= d + c
        BY <4>1, <3>2, <3>3
      <4>3. QED
        BY <4>1, <4>2, <3>4
    <3>7. attempts' = a /\ Len(todo') = r /\ pass' = p + 1 /\ Cardinality(Ours') = c
      BY <3>1, <2>1, <1>3, <1>4
    <3>8. (p + 1) + 1 <= 3
      BY <3>3
    <3>9. QED
      BY <3>6, <3>7, <3>8 DEF Counted, TotalPasses
  <2>8. BuildTyped'
    <3>1. StillCertain \in BOOLEAN /\ pass + 1 \in Nat
      BY <1>1 DEF StillCertain, BuildTyped
    <3>2. QED
      BY <3>1, <2>1, <1>1, <1>3 DEF BuildTyped, Stand
  <2>9. Walking'
    BY <2>1, <2>5, <2>6, <2>7, <1>1, <1>4 DEF Walking
  <2>10. QED
    BY <2>8, <2>9, <1>4, <1>6 DEF BuildHolds
<1>9. QED
  BY <1>7, <1>8

\* The next ledger begins with nothing.
LEMMA NextLedgerStep ==
  ASSUME BuildHolds, NextLedger
  PROVE  BuildHolds'
<1>1. built' = <<>> /\ stage' = "idle"
  BY DEF NextLedger
<1>2. DOMAIN built' = {} /\ built' \in Seq(Built)
  BY <1>1
<1>3. SeqsInOrder'
  BY <1>2 DEF SeqsInOrder
<1>4. BuildTyped /\ {} \in SUBSET BuildTxs
  BY DEF BuildHolds
<1>5. BuildTyped'
  BY <1>2, <1>4 DEF BuildTyped, NextLedger
<1>6. FiledRight' /\ Walking' /\ WrongIsSeen'
  BY <1>1 DEF FiledRight, Walking, WrongIsSeen
<1>7. QED
  BY <1>3, <1>5, <1>6 DEF BuildHolds

\* A step of another part changes none of it.
LEMMA BuildStutters ==
  ASSUME BuildHolds, UNCHANGED build_vars
  PROVE  BuildHolds'
<1>1. /\ Stand /\ mode' = mode /\ stage' = stage /\ todo' = todo /\ retry' = retry /\ pass' = pass /\ pass_changes' = pass_changes
      /\ certain_retry' = certain_retry /\ left' = left /\ attempts' = attempts /\ past' = past /\ total' = total /\ totals' = totals
      /\ exact' = exact /\ refusal' = refusal
  BY DEF build_vars, walk_vars, Stand
<1>2. Ours' = Ours /\ OurRel' = OurRel /\ BuiltTxs' = BuiltTxs /\ (Mirrored => Mirrored') /\ SeqsInOrder'
  BY <1>1, StandsStill DEF BuildHolds
<1>3. BuildTyped'
  BY <1>1 DEF BuildHolds, BuildTyped, Stand
<1>4. FiledRight' /\ WrongIsSeen'
  BY <1>1, <1>2 DEF BuildHolds, FiledRight, WrongIsSeen, Stand
<1>5. /\ Parted => Parted'
      /\ Lined => Lined'
      /\ Counted => Counted'
  BY <1>1, <1>2 DEF Parted, Lined, Counted, Stand
<1>6. Walking'
  BY <1>1, <1>2, <1>5 DEF BuildHolds, Walking
<1>7. QED
  BY <1>2, <1>3, <1>4, <1>6 DEF BuildHolds

\* The first state has it.
LEMMA BuildBegins ==
  ASSUME BuildInit
  PROVE  BuildHolds
<1>1. built = <<>> /\ stage = "idle" /\ past = <<>>
  BY DEF BuildInit
<1>2. DOMAIN built = {} /\ built \in Seq(Built) /\ DOMAIN past = {} /\ past = [x \in DOMAIN past |-> past[x]]
  BY <1>1
<1>3. BuildTyped
  <2>1. DOMAIN past \subseteq BuildTxs /\ {} \in SUBSET BuildTxs
    BY <1>2
  <2>2. totals.seq = 0
    BY DEF BuildInit
  <2>3. /\ mode \in {"shadow", "on"} /\ set = {} /\ set_agreed = FALSE /\ certain_retry = TRUE
        /\ pass = 0 /\ pass_changes = 0 /\ attempts = 0 /\ total = 100
    BY DEF BuildInit
  <2>4. stage \in {"idle", "ready", "walk", "walked", "judged"} /\ set \in SUBSET BuildTxs
    BY <1>1, <2>3
  <2>6. set_agreed \in BOOLEAN /\ certain_retry \in BOOLEAN
    BY <2>3
  <2>7. pass \in Nat /\ pass_changes \in Nat /\ attempts \in Nat /\ total \in Int
    BY <2>3
  <2>8. totals.seq \in Nat
    BY <2>2
  <2>5. QED
    BY <1>2, <2>1, <2>2, <2>3, <2>4, <2>6, <2>7, <2>8 DEF BuildTyped
<1>4. QED
  BY <1>1, <1>2, <1>3 DEF BuildHolds, FiledRight, Walking, SeqsInOrder, WrongIsSeen

\* The ledger's own transactions as it filed them.
LEMMA NetworkOrderIs ==
  ASSUME FiledWell
  PROVE  /\ OurPlaces \in SUBSET Nat /\ IsFiniteSet(OurPlaces) /\ Cardinality(OurPlaces) \in Nat
         /\ DOMAIN network_order = 1 .. Cardinality(OurPlaces)
         /\ \A i \in OurPlaces : \E j \in DOMAIN network_order : network_order[j] = filed[i]
         /\ IsFiniteSet(Range(network_order))
<1> DEFINE N == Cardinality(OurPlaces)
           q == Ranked(OurPlaces, Lower(OurPlaces))
<1>1. filed \in Seq(Listing) /\ DOMAIN filed = 1 .. Len(filed) /\ Len(filed) \in Nat
  BY LenProperties DEF FiledWell
<1>2. OurPlaces \subseteq 1 .. Len(filed) /\ OurPlaces \in SUBSET Nat
  BY <1>1 DEF OurPlaces
<1>3. IsFiniteSet(1 .. Len(filed))
  BY <1>1, FS_Interval
<1>4. IsFiniteSet(OurPlaces) /\ N \in Nat
  BY <1>2, <1>3, FS_Subset, FS_CardinalityType
<1>5. Orders(Lower(OurPlaces), OurPlaces)
  BY <1>2, LowerOrders
<1>6. q \in [1 .. N -> OurPlaces] /\ \A i \in OurPlaces : \E j \in 1 .. N : q[j] = i
  BY <1>4, <1>5, RankedIs
<1>7. network_order = [i \in 1 .. N |-> filed[q[i]]]
  BY DEF network_order
<1> HIDE DEF N, q
<1>8. DOMAIN network_order = 1 .. N /\ \A j \in 1 .. N : network_order[j] = filed[q[j]]
  BY <1>7
<1>9. \A i \in OurPlaces : \E j \in DOMAIN network_order : network_order[j] = filed[i]
  BY <1>6, <1>8
<1>10. IsFiniteSet(Range(network_order))
  <2>1. IsFiniteSet(1 .. N)
    BY <1>4, FS_Interval
  <2>2. network_order \in Surjection(1 .. N, Range(network_order))
    BY <1>7, <1>8 DEF Surjection, Range
  <2>3. QED
    BY <2>1, <2>2, FS_Surjection
<1>11. QED
  BY <1>2, <1>4, <1>8, <1>9, <1>10 DEF N

\* One of the ledger's that our engine gets wrong is never built.
LEMMA WrongDiffers ==
  ASSUME FiledWell, BuiltTxs \cap wrong = {}, wrong \cap Ours # {}
  PROVE  ResultsDiffer
<1>1. PICK t \in wrong : t \in Ours
  OBVIOUS
<1>2. PICK i \in DOMAIN filed : filed[i].tx = t /\ t \notin Inners
  BY <1>1 DEF Ours, FiledTxs
<1>3. i \in OurPlaces
  BY <1>2 DEF OurPlaces
<1>4. PICK j \in DOMAIN network_order : network_order[j] = filed[i]
  BY <1>3, NetworkOrderIs
<1>5. filed[i] \in Range(network_order)
  BY <1>4 DEF Range
<1>6. ~ \E a \in Range(built) : a.tx = filed[i].tx /\ a.code = filed[i].code
  <2>1. SUFFICES ASSUME NEW k \in DOMAIN built, built[k].tx = t PROVE FALSE
    BY <1>2 DEF Range
  <2>2. t \in BuiltTxs
    BY <2>1 DEF BuiltTxs
  <2>3. QED
    BY <2>2, <1>1
<1>7. QED
  BY <1>5, <1>6 DEF ResultsDiffer

\* The verdict keeps it, and sees what is wrong.
LEMMA JudgeStep ==
  ASSUME BuildHolds, Judge
  PROVE  BuildHolds'
<1>1. BuildTyped /\ stage = "walked" /\ Fresh(set, past) /\ filed = NetBuild(set, past).order /\ BuiltTxs \cap wrong = {} /\ SeqsInOrder
  BY DEF BuildHolds, Judge, FiledRight, Walking, Mirrored
<1>2. FiledWell
  BY <1>1, FiledIs
<1>3. /\ mode' = mode /\ set' = set /\ filed' = filed /\ wrong' = wrong /\ set_agreed' = set_agreed /\ certain_retry' = certain_retry
      /\ pass' = pass /\ pass_changes' = pass_changes /\ attempts' = attempts /\ built' = built /\ stage' = "judged"
      /\ past' = Filing /\ total' = HeaderTotal /\ totals' = [seq |-> totals.seq + 1, total |-> HeaderTotal]
  BY DEF Judge, walk_vars
<1>4. HeaderTotal \in Int
  <2>1. IsFiniteSet({f \in Range(network_order) : ~Pseudo(f.tx)})
    BY <1>2, NetworkOrderIs, FS_Subset
  <2>2. Cardinality({f \in Range(network_order) : ~Pseudo(f.tx)}) \in Nat
    BY <2>1, FS_CardinalityType
  <2>3. total \in Int
    BY <1>1 DEF BuildTyped
  <2>4. QED
    BY <2>2, <2>3 DEF HeaderTotal
<1>5. DOMAIN Filing \subseteq BuildTxs /\ Filing = [x \in DOMAIN Filing |-> Filing[x]]
  <2>1. DOMAIN Filing = FiledTxs \cup DOMAIN past
    BY DEF Filing
  <2>2. Filing = [x \in DOMAIN Filing |-> Filing[x]]
    BY DEF Filing
  <2>3. QED
    BY <2>1, <2>2, <1>1, <1>2 DEF FiledWell, BuildTyped
<1>6. BuildTyped'
  <2>1. totals'.seq = totals.seq + 1 /\ totals'.total = HeaderTotal
    BY <1>3
  <2>2. QED
    BY <2>1, <1>1, <1>3, <1>4, <1>5 DEF BuildTyped
<1>7. FiledRight' /\ Walking'
  BY <1>3 DEF FiledRight, Walking
<1>8. SeqsInOrder'
  BY <1>1, <1>3 DEF SeqsInOrder
<1>9. WrongIsSeen'
  <2>1. SUFFICES ASSUME wrong' \cap Ours' # {} PROVE ~exact' /\ (mode' = "on" => refusal')
    BY DEF WrongIsSeen
  <2>2. Ours' = Ours
    BY <1>3 DEF Ours, FiledTxs
  <2>3. ResultsDiffer
    BY <2>1, <2>2, <1>1, <1>2, <1>3, WrongDiffers
  <2>4. QED
    BY <2>3, <1>3 DEF Judge
<1>10. QED
  BY <1>6, <1>7, <1>8, <1>9 DEF BuildHolds

\* Every step keeps it.
LEMMA BuildKeeps ==
  ASSUME BuildHolds, [BuildNext]_build_vars
  PROVE  BuildHolds'
<1>1. CASE UNCHANGED build_vars
  BY <1>1, BuildStutters
<1>2. CASE \E S \in Sets : LedgerFiled(S)
  BY <1>2, LedgerFiledStep
<1>3. CASE WalkBegins
  BY <1>3, WalkBeginsStep
<1>4. CASE Attempt
  BY <1>4, AttemptStep
<1>5. CASE PassEnds
  BY <1>5, PassEndsStep
<1>6. CASE Judge
  BY <1>6, JudgeStep
<1>7. CASE NextLedger
  BY <1>7, NextLedgerStep
<1>8. QED
  BY <1>1, <1>2, <1>3, <1>4, <1>5, <1>6, <1>7 DEF BuildNext

\* And it is all that NothingLost asks.
LEMMA NothingIsLost ==
  ASSUME BuildHolds
  PROVE  NothingLost
<1>1. \A i, j \in DOMAIN built :
        i < j /\ Account[built[i].tx] = Account[built[j].tx] /\ ~Pseudo(built[i].tx) /\ ~Proxy[built[i].tx].ticket /\ ~Proxy[built[j].tx].ticket
          => Proxy[built[i].tx].n < Proxy[built[j].tx].n
  <2>1. SUFFICES ASSUME NEW i \in DOMAIN built, NEW j \in DOMAIN built, i < j, Account[built[i].tx] = Account[built[j].tx],
                        ~Pseudo(built[i].tx), ~Proxy[built[i].tx].ticket, ~Proxy[built[j].tx].ticket
                 PROVE  Proxy[built[i].tx].n < Proxy[built[j].tx].n
    OBVIOUS
  <2>2. BySequence(built[i].tx) /\ BySequence(built[j].tx)
    BY <2>1 DEF BySequence, Pseudo
  <2>3. QED
    BY <2>1, <2>2 DEF BuildHolds, SeqsInOrder
<1>2. ASSUME stage \in {"walk", "walked"}
      PROVE  /\ {a.tx : a \in Range(built)} \cup failed_now \cup Range(todo) \cup Range(retry) = Ours
             /\ Len(built) + Cardinality(failed_now) + Len(todo) + Len(retry) = Cardinality(Ours)
             /\ attempts <= TotalPasses * Cardinality(Ours)
  <2>1. Parted /\ Counted /\ FiledRight /\ BuildTyped
    BY <1>2 DEF BuildHolds, Walking
  <2>2. FiledWell
    BY <2>1, <1>2, FiledIs DEF FiledRight
  <2>3. {a.tx : a \in Range(built)} = BuiltTxs
    BY DEF Range, BuiltTxs
  <2>4. attempts <= TotalPasses * Cardinality(Ours)
    <3>1. PICK c \in Nat, p \in Nat, a \in Nat, l \in Nat : c = Cardinality(Ours) /\ p = pass /\ a = attempts /\ l = Len(todo)
      BY <2>1, <2>2, LenProperties DEF FiledWell, BuildTyped, Parted
    <3>2. a + l <= (p + 1) * c /\ p + 1 <= 3
      BY <3>1, <2>1 DEF Counted, TotalPasses
    <3>3. p \in {0, 1, 2}
      BY <3>2
    <3>4. (p + 1) * c <= 3 * c
      BY <3>3
    <3>5. a <= 3 * c
      <4>1. (p + 1) * c \in Int /\ 3 * c \in Int
        OBVIOUS
      <4>2. PICK d \in Int, e \in Int : d = (p + 1) * c /\ e = 3 * c
        BY <4>1
      <4>3. a + l <= d /\ d <= e
        BY <4>2, <3>2, <3>4
      <4>4. a <= e
        BY <4>3
      <4>5. QED
        BY <4>2, <4>4
    <3>6. QED
      BY <3>1, <3>5 DEF TotalPasses
  <2>5. QED
    BY <2>1, <2>3, <2>4 DEF Parted
<1>3. QED
  BY <1>1, <1>2 DEF NothingLost

\* A list built, and the ledger's own places in a list of it: the same transactions and results, in the same order.
Places(o) == {i \in DOMAIN o : o[i].tx \notin Inners}
\* A list built, and the ledger's own places in a list of it: the same transactions and results, in the same order.
Lists(q, o, g) ==
  /\ g \in [DOMAIN q -> Places(o)] /\ \A x \in Places(o) : \E i \in DOMAIN q : g[i] = x
  /\ \A i, j \in DOMAIN q : i < j => g[i] < g[j]
  /\ \A i \in DOMAIN q : q[i].tx = o[g[i]].tx /\ q[i].code = o[g[i]].code
\* A list is the other's, place by place.
SameList(q, o) == \E g : Lists(q, o, g)

\* One more of each.
LEMMA ListsMore ==
  ASSUME NEW q, NEW n \in Nat, DOMAIN q = 1 .. n, NEW p, DOMAIN p = 1 .. n + 1, \A i \in 1 .. n : p[i] = q[i],
         NEW w, NEW t, NEW code, p[n + 1].tx = t, p[n + 1].code = code, OrderGrown(w, t, code), w.order \in Seq(Listing),
         SameList(q, w.order), Inner[t] \subseteq Inners
  PROVE  SameList(p, Added(w, t, code))
<1> DEFINE o == w.order
           v == Added(w, t, code)
           m == Len(o)
<1>1. PICK g : Lists(q, o, g)
  BY DEF SameList
<1>2. DOMAIN o = 1 .. m /\ m \in Nat /\ DOMAIN v = 1 .. Len(v) /\ Len(v) \in Nat
  BY LenProperties DEF OrderGrown
<1>3. /\ \A i \in DOMAIN v : AddedAt(w, t, code, i, v[i])
      /\ \A i \in DOMAIN o : i \in DOMAIN v /\ v[i] = o[i]
      /\ m + 1 \in DOMAIN v /\ v[m + 1] = [tx |-> t, code |-> code] /\ t \notin Inners
  BY DEF OrderGrown
<1> HIDE DEF v
<1>4. ASSUME NEW i \in Places(v) PROVE i \in Places(o) \/ i = m + 1
  <2>1. i \in DOMAIN v /\ v[i].tx \notin Inners
    BY DEF Places
  <2>2. CASE i \in DOMAIN o /\ v[i] = o[i]
    BY <2>1, <2>2 DEF Places
  <2>3. CASE i > m + 1 /\ v[i].tx \in Inner[t]
    BY <2>1, <2>3
  <2>4. QED
    BY <2>1, <2>2, <2>3, <1>3 DEF AddedAt
<1>5. Places(o) \subseteq Places(v) /\ m + 1 \in Places(v) /\ Places(o) \subseteq 1 .. m
  <2>1. v[m + 1].tx = t
    BY <1>3
  <2>2. QED
    BY <2>1, <1>2, <1>3 DEF Places
<1> HIDE DEF o, m
<1>6. /\ g \in [1 .. n -> Places(o)] /\ \A x \in Places(o) : \E i \in 1 .. n : g[i] = x
      /\ \A i, j \in 1 .. n : i < j => g[i] < g[j]
      /\ \A i \in 1 .. n : q[i].tx = o[g[i]].tx /\ q[i].code = o[g[i]].code
  BY <1>1 DEF Lists
<1> DEFINE h == [i \in 1 .. n + 1 |-> IF i = n + 1 THEN m + 1 ELSE g[i]]
<1>7. /\ \A i \in 1 .. n : i \in 1 .. n + 1 /\ i # n + 1 /\ h[i] = g[i]
      /\ n + 1 \in 1 .. n + 1 /\ h[n + 1] = m + 1 /\ \A i \in 1 .. n + 1 : i \in 1 .. n \/ i = n + 1
  OBVIOUS
<1>8. h \in [1 .. n + 1 -> Places(v)]
  <2>1. ASSUME NEW i \in 1 .. n + 1 PROVE (IF i = n + 1 THEN m + 1 ELSE g[i]) \in Places(v)
    BY <1>5, <1>6, <1>7
  <2>2. QED
    BY <2>1
<1> HIDE DEF h
<1>9. ASSUME NEW x \in Places(v) PROVE \E i \in 1 .. n + 1 : h[i] = x
  BY <1>4, <1>6, <1>7
<1>10. ASSUME NEW i \in 1 .. n + 1, NEW j \in 1 .. n + 1, i < j PROVE h[i] < h[j]
  <2>1. i \in 1 .. n
    BY <1>7, <1>10
  <2>2. CASE j \in 1 .. n
    BY <2>1, <2>2, <1>6, <1>7, <1>10
  <2>3. CASE j = n + 1
    <3>1. h[i] \in 1 .. m /\ h[j] = m + 1
      BY <2>1, <2>3, <1>5, <1>6, <1>7
    <3>2. QED
      BY <3>1, <1>2
  <2>4. QED
    BY <2>2, <2>3, <1>7
<1>11. ASSUME NEW i \in 1 .. n + 1 PROVE p[i].tx = v[h[i]].tx /\ p[i].code = v[h[i]].code
  <2>1. CASE i \in 1 .. n
    <3>1. g[i] \in Places(o)
      BY <2>1, <1>6
    <3>2. v[g[i]] = o[g[i]]
      BY <3>1, <1>3 DEF Places
    <3>3. QED
      BY <2>1, <3>2, <1>6, <1>7
  <2>2. CASE i = n + 1
    BY <2>2, <1>3, <1>7
  <2>3. QED
    BY <2>1, <2>2, <1>7
<1>12. Lists(p, v, h)
  BY <1>8, <1>9, <1>10, <1>11 DEF Lists
<1>13. QED
  BY <1>12 DEF SameList, v

\* What a stretch of a pass leaves alone, none of it being of F.
Skipped(f, k, m, F) ==
  f[m].order = f[k].order /\ f[m].before = f[k].before /\ Range(f[m].wait) \cap F = Range(f[k].wait) \cap F

\* A stretch with none of F lists none and takes none of F.
LEMMA Skips ==
  ASSUME NEW S, NEW B, NEW b, NEW c, NEW f, PassGoes(S, B, b, c, f), NEW F, Closes(NetPass(b, c), F),
         NEW k \in 0 .. Len(b.wait), NEW m \in 0 .. Len(b.wait), k <= m, Tried(b.wait, k, m) \cap F = {}
  PROVE  Skipped(f, k, m, F)
<1> DEFINE n == Len(b.wait)
           A == Tried(b.wait, k, m)
<1>1. n \in Nat /\ n \in 0 .. n /\ m <= n
  BY DEF PassGoes
<1>2. NetPass(b, c) = f[n] /\ Grows(f[k], f[m], A) /\ Grows(f[m], f[n], Tried(b.wait, m, n))
  BY <1>1 DEF PassGoes
<1> HIDE DEF A, n
<1>3. Tops(f[m].order) \subseteq F
  BY <1>2 DEF Closes, Grows
<1>4. A \cap F = {}
  BY DEF A
<1>5. A \cap Tops(f[m].order) = {}
  BY <1>3, <1>4
<1>6. QED
  BY <1>2, <1>4, <1>5 DEF Grows, Skipped

\* The first that is left to try of F comes after none of F.
FirstOf(W, n, k, F, t, m) ==
  /\ m \in 1 .. n /\ k <= m - 1 /\ W[m] = t /\ Tried(W, k, m - 1) \cap F = {} /\ Tried(W, m, n) \cap F = (Tried(W, k, n) \cap F) \ {t}

\* It is found where the list is in order.
LEMMA FirstIs ==
  ASSUME NEW S, NEW R, Orders(R, S), NEW n \in Nat, NEW W \in [1 .. n -> S], Sorted(W, R), NEW k \in 0 .. n, NEW F \in SUBSET S,
         NEW t \in Tried(W, k, n) \cap F, \A y \in (Tried(W, k, n) \cap F) \ {t} : <<t, y>> \in R
  PROVE  \E m : FirstOf(W, n, k, F, t, m)
<1>1. PICK m \in k + 1 .. n : W[m] = t
  BY DEF Tried
<1>2. m \in 1 .. n /\ k <= m - 1 /\ k + 1 .. n = (k + 1 .. m - 1) \cup {m} \cup (m + 1 .. n)
  BY <1>1
<1>3. \A x, y \in S : <<x, y>> \in R => x # y /\ <<y, x>> \notin R
  BY DEF Orders
<1>4. ASSUME NEW i \in k + 1 .. m - 1 PROVE W[i] \notin F
  <2>1. i \in 1 .. n /\ i < m /\ i \in k + 1 .. n
    BY <1>2
  <2>2. <<W[i], t>> \in R /\ W[i] \in S /\ t \in S
    BY <2>1, <1>1, <1>2 DEF Sorted
  <2>3. W[i] \in Tried(W, k, n)
    BY <2>1 DEF Tried
  <2>4. QED
    BY <2>2, <2>3, <1>3
<1>5. ASSUME NEW i \in m + 1 .. n PROVE W[i] # t
  <2>1. i \in 1 .. n /\ m < i
    BY <1>2
  <2>2. <<t, W[i]>> \in R /\ W[i] \in S /\ t \in S
    BY <2>1, <1>1, <1>2 DEF Sorted
  <2>3. QED
    BY <2>2, <1>3
<1>6. Tried(W, k, n) = Tried(W, k, m - 1) \cup {t} \cup Tried(W, m, n)
  BY <1>1, <1>2 DEF Tried
<1>7. Tried(W, k, m - 1) \cap F = {} /\ t \notin Tried(W, m, n)
  BY <1>4, <1>5 DEF Tried
<1>8. QED
  BY <1>1, <1>2, <1>6, <1>7 DEF FirstOf

-------------------------------------------------------------------------------
(* The two walks *)

\* When our build should be the network's, and where the network's stands.
Agreed == wrong = {} /\ (set_agreed \/ Ours = set)
Begun == StartAt(pass, set, past)
Sure == SureAt(pass, set, past)

\* Our walk stands where the network's k-th step left it, but for what the network never filed.
StandsAt(f, k) ==
  /\ PassGoes(set, past, Begun, Sure, f) /\ k \in 0 .. Len(Begun.wait)
  /\ ours = f[k].before /\ SameList(built, f[k].order)
  /\ Range(todo) = Tried(Begun.wait, k, Len(Begun.wait)) \cap Ours /\ Range(retry) = Range(f[k].wait) \cap Ours
  /\ (pass_changes = 0 <=> Len(f[k].order) = Len(Begun.order))

\* Both walks are in the same pass, and so far agree.
Walks ==
  /\ pass \in 0 .. 2 /\ certain_retry = Sure /\ Closes(NetPass(Begun, Sure), Ours) /\ failed_now = {}
  /\ pass = 2 => Ends(set, past) = NetPass(Begun, Sure)
  /\ \E f, k : StandsAt(f, k)

\* Both walks came to the same end.
Walked == ours = Ends(set, past).before /\ SameList(built, Ends(set, past).order) /\ failed_now = {}

\* What the walk keeps of the network's, whenever it should.
Matching ==
  /\ stage = "walk" /\ Agreed => Walks
  /\ stage = "walked" /\ Agreed => Walked
  /\ BuildAgrees

\* The order is the network's, of what the ledger filed.
LEMMA OurRelIs ==
  ASSUME Agreed, set \in SUBSET BuildTxs, Ours \subseteq set
  PROVE  OurRel = NetRel(set) \cap (Ours \X Ours) /\ Orders(NetRel(set), set)
<1>1. Salt = SaltOf(set)
  BY DEF Agreed, Salt
<1>2. OurRel = {p \in Ours \X Ours : Less(NetKey(p[1], SaltOf(set)), NetKey(p[2], SaltOf(set)))}
  <2>1. Ours \in SUBSET BuildTxs
    OBVIOUS
  <2>2. QED
    BY <1>1, <2>1, BeforeOrders DEF OurRel
<1>3. OurRel = NetRel(set) \cap (Ours \X Ours)
  BY <1>2 DEF NetRel
<1>4. QED
  BY <1>3, LessOrders DEF NetRel

\* Where both walks stand after t, at the network's m-th step.
StandsNext(f, m) ==
  /\ PassGoes(set, past, Begun, Sure, f) /\ m \in 0 .. Len(Begun.wait)
  /\ ours' = f[m].before /\ SameList(built', f[m].order)
  /\ Range(todo') = Tried(Begun.wait, m, Len(Begun.wait)) \cap Ours /\ Range(retry') = Range(f[m].wait) \cap Ours
  /\ (pass_changes' = 0 <=> Len(f[m].order) = Len(Begun.order))

\* What our walk tries next is what the network tried next of what it filed, with the same result.
LEMMA AttemptFollows ==
  ASSUME BuildHolds, FiledWell, Agreed, Walks, Fresh(set, past), NEW t, Tries(t), Builds(t) \/ Fails(t) \/ Waits(t)
  PROVE  failed_now' = {} /\ \E f, m : StandsNext(f, m)
<1> DEFINE W == Begun.wait
           n == Len(W)
<1>1. PICK f, k : StandsAt(f, k)
  BY DEF Walks
<1>2. /\ PassGoes(set, past, Begun, Sure, f) /\ k \in 0 .. n /\ ours = f[k].before /\ SameList(built, f[k].order)
      /\ Range(todo) = Tried(W, k, n) \cap Ours /\ Range(retry) = Range(f[k].wait) \cap Ours
      /\ (pass_changes = 0 <=> Len(f[k].order) = Len(Begun.order))
  BY <1>1 DEF StandsAt
<1>3. /\ n \in Nat /\ W \in [1 .. n -> set] /\ Sorted(W, NetRel(set))
      /\ f[0] = [before |-> Begun.before, wait |-> <<>>, order |-> Begun.order] /\ NetPass(Begun, Sure) = f[n]
      /\ \A i \in 1 .. n : f[i] = NetStep(f[i - 1], W[i], Sure) /\ StepTaken(f[i - 1], W[i], Sure)
      /\ \A i \in 0 .. n : Running(set, past, f[i], Tried(W, i, n))
      /\ \A i \in 0 .. n, j \in 0 .. n : i <= j => Grows(f[i], f[j], Tried(W, i, j))
  BY <1>2 DEF PassGoes
<1>4. Closes(NetPass(Begun, Sure), Ours) /\ certain_retry = Sure /\ failed_now = {} /\ wrong = {}
  BY DEF Walks, Agreed
<1>5. set \in SUBSET BuildTxs /\ Ours \subseteq set /\ OurRel = NetRel(set) \cap (Ours \X Ours) /\ Orders(NetRel(set), set)
  BY OurRelIs DEF Fresh, FiledWell
<1>6. /\ t \in Ours /\ t \in BuildTxs /\ t \notin Inners /\ t \in Range(todo) /\ Range(todo) = {t} \cup Range(todo') /\ t \notin Range(todo')
      /\ \A y \in Range(todo') : <<t, y>> \in OurRel
  BY DEF Tries, HeadGone
<1> HIDE DEF W, n
<1>7. t \in Tried(W, k, n) \cap Ours /\ \A y \in (Tried(W, k, n) \cap Ours) \ {t} : <<t, y>> \in NetRel(set)
  BY <1>2, <1>5, <1>6
<1>8. PICK m : FirstOf(W, n, k, Ours, t, m)
  BY <1>2, <1>3, <1>5, <1>7, FirstIs
<1>9. m \in 1 .. n /\ k <= m - 1 /\ W[m] = t /\ Tried(W, k, m - 1) \cap Ours = {} /\ Tried(W, m, n) \cap Ours = (Tried(W, k, n) \cap Ours) \ {t}
  BY <1>8 DEF FirstOf
<1>10. m - 1 \in 0 .. n /\ m \in 0 .. n /\ 0 \in 0 .. n /\ n \in 0 .. n /\ 0 <= m - 1 /\ m <= n
  BY <1>3, <1>9
<1>11. Skipped(f, k, m - 1, Ours)
  BY <1>2, <1>4, <1>9, <1>10, Skips DEF W, n
<1> DEFINE w == f[m - 1]
<1>12. w.order = f[k].order /\ w.before = ours /\ Range(w.wait) \cap Ours = Range(retry)
  BY <1>2, <1>11 DEF Skipped
<1>13. StepTaken(w, t, Sure) /\ f[m] = NetStep(w, t, Sure) /\ Running(set, past, w, Tried(W, m - 1, n))
  BY <1>3, <1>9, <1>10
<1>14. Range(todo') = Tried(W, m, n) \cap Ours
  BY <1>2, <1>6, <1>9
<1>15. CodeOf(t) = Result(t, w.before)
  BY <1>4, <1>12 DEF CodeOf
<1>16. NextTried(set, n, W, NetRel(set), m)
  BY <1>3, <1>5, <1>9, TriedNext DEF Orders
<1>17. t \in Tried(W, m - 1, n) /\ t \notin Tried(W, m, n) /\ t \in set
  <2>1. Tried(W, m - 1, n) \ {t} = Tried(W, m, n) /\ t \in Tried(W, m - 1, n) /\ t \in set
    BY <1>9, <1>16 DEF NextTried
  <2>2. QED
    BY <2>1
<1>18. Grows(f[0], w, Tried(W, 0, m - 1)) /\ Grows(f[m], f[n], Tried(W, m, n)) /\ f[0].order = Begun.order
  BY <1>3, <1>10
<1>19. Len(Begun.order) <= Len(w.order) /\ Len(Begun.order) \in Nat /\ Len(w.order) \in Nat
  BY <1>18 DEF Grows
<1> HIDE DEF w
<1>20. CASE Waits(t)
  <2>1. CodeOf(t) = "ter" \/ (CodeOf(t) = "tec" /\ Sure)
    BY <1>4, <1>20 DEF Waits
  <2>2. f[m] = [before |-> w.before, wait |-> Append(w.wait, t), order |-> w.order]
    BY <2>1, <1>13, <1>15 DEF StepTaken, Applied
  <2>3. f[m].before = w.before /\ f[m].wait = Append(w.wait, t) /\ f[m].order = w.order
    BY <2>2
  <2>4. w.wait \in Seq(set)
    BY <1>13 DEF Running
  <2>5. Range(f[m].wait) = Range(w.wait) \cup {t}
    BY <2>3, <2>4, <1>17, AppendIs
  <2>6. built' = built /\ ours' = ours /\ pass_changes' = pass_changes /\ failed_now' = failed_now /\ retry' = Append(retry, t)
    BY <1>20 DEF Waits
  <2>7. retry \in Seq(Ours)
    BY DEF BuildHolds, Walking, Parted, Tries
  <2>8. Range(retry') = Range(retry) \cup {t}
    BY <2>6, <2>7, <1>6, AppendIs
  <2>9. Range(retry') = Range(f[m].wait) \cap Ours
    BY <2>5, <2>8, <1>6, <1>12
  <2>10. ours' = f[m].before /\ SameList(built', f[m].order) /\ (pass_changes' = 0 <=> Len(f[m].order) = Len(Begun.order))
    BY <2>3, <2>6, <1>2, <1>12
  <2>11. StandsNext(f, m)
    BY <2>9, <2>10, <1>2, <1>10, <1>14 DEF StandsNext, W, n
  <2>12. QED
    BY <2>6, <2>11, <1>4
<1>21. CASE Fails(t)
  <2>1. CodeOf(t) = "tef"
    BY <1>21 DEF Fails
  <2>2. f[m] = w
    BY <2>1, <1>13, <1>15 DEF StepTaken, Applied
  <2>3. t \notin Tops(w.order)
    BY <1>13, <1>17 DEF Running
  <2>4. t \notin Range(w.wait)
    <3>1. <<t, t>> \notin NetRel(set)
      BY <1>5, <1>17 DEF Orders
    <3>2. QED
      BY <3>1, <1>13, <1>17 DEF Running
  <2>5. t \in Tops(f[n].order) \cup Range(f[n].wait)
    BY <1>3, <1>4, <1>6 DEF Closes
  <2>6. FALSE
    BY <2>2, <2>3, <2>4, <2>5, <1>17, <1>18 DEF Grows
  <2>7. QED
    BY <2>6
<1>22. CASE Builds(t)
  <2> DEFINE code == CodeOf(t)
  <2>1. code \in Applied /\ ~ (code = "tec" /\ Sure) /\ built' = Append(built, [pass |-> pass, tx |-> t, code |-> code]) /\ ours' = With(ours, t, code)
        /\ pass_changes' = pass_changes + 1 /\ failed_now' = failed_now /\ retry' = retry
    BY <1>4, <1>22 DEF Builds
  <2>2. f[m] = [before |-> With(w.before, t, code), wait |-> w.wait, order |-> Added(w, t, code)]
    BY <2>1, <1>13, <1>15 DEF StepTaken, Applied
  <2> HIDE DEF code
  <2>3. f[m].before = With(w.before, t, code) /\ f[m].wait = w.wait /\ f[m].order = Added(w, t, code)
    BY <2>2
  <2>4. Tried(W, m - 1, n) \in SUBSET set /\ set \cap (DOMAIN past \cup Inners) = {}
    <3>1. ASSUME NEW i \in (m - 1) + 1 .. n PROVE W[i] \in set
      BY <1>3, <1>9
    <3>2. QED
      BY <3>1 DEF Tried, Fresh
  <2>5. OrderGrown(w, t, code)
    BY <2>1, <2>4, <1>5, <1>13, <1>17, OrderGrows
  <2>6. BuildTyped
    BY DEF BuildHolds
  <2>7. /\ Len(built) \in Nat /\ DOMAIN built = 1 .. Len(built) /\ DOMAIN built' = 1 .. Len(built) + 1
        /\ (\A i \in 1 .. Len(built) : built'[i] = built[i]) /\ built'[Len(built) + 1] = [pass |-> pass, tx |-> t, code |-> code]
    BY <2>6, <1>22, BuiltIs DEF BuildTyped, code
  <2>8. built'[Len(built) + 1].tx = t /\ built'[Len(built) + 1].code = code
    BY <2>7
  <2>9. w.order \in Seq(Listing) /\ SameList(built, w.order) /\ Inner[t] \subseteq Inners
    BY <1>2, <1>6, <1>12, <1>13, InnersAre DEF Running
  <2>10. SameList(built', Added(w, t, code))
    BY <2>5, <2>7, <2>8, <2>9, ListsMore
  <2>11. pass_changes' # 0 /\ Len(f[m].order) # Len(Begun.order)
    <3>1. pass_changes \in Nat
      BY <2>6 DEF BuildTyped
    <3>2. Len(Added(w, t, code)) > Len(w.order) /\ Len(Added(w, t, code)) \in Nat
      BY <2>5, LenProperties DEF OrderGrown
    <3>3. QED
      BY <3>1, <3>2, <2>1, <2>3, <1>19
  <2>12. Range(retry') = Range(f[m].wait) \cap Ours /\ ours' = f[m].before
    BY <2>1, <2>3, <1>12
  <2>13. StandsNext(f, m)
    BY <2>3, <2>10, <2>11, <2>12, <1>2, <1>10, <1>14 DEF StandsNext, W, n
  <2>14. QED
    BY <2>1, <2>13, <1>4
<1>23. QED
  BY <1>20, <1>21, <1>22

\* So an attempt keeps the two together.
LEMMA AttemptMatches ==
  ASSUME BuildHolds, Matching, Attempt
  PROVE  Matching'
<1>1. PICK t : FiledWell /\ Tries(t) /\ (Builds(t) \/ Fails(t) \/ Waits(t))
  BY AttemptIs
<1>2. stage = "walk" /\ stage' = "walk" /\ set' = set /\ past' = past /\ pass' = pass /\ set_agreed' = set_agreed /\ wrong' = wrong
      /\ Ours' = Ours /\ certain_retry' = certain_retry
  BY <1>1 DEF Tries, Kept
<1>3. Fresh(set, past)
  BY <1>2 DEF BuildHolds, FiledRight
<1>4. Agreed' <=> Agreed
  BY <1>2 DEF Agreed
<1>5. ASSUME Agreed PROVE Walks'
  <2>1. Walks
    BY <1>2, <1>5 DEF Matching
  <2>2. failed_now' = {} /\ \E f, m : StandsNext(f, m)
    BY <1>1, <1>3, <1>5, <2>1, AttemptFollows
  <2>3. PICK f, m : StandsNext(f, m)
    BY <2>2
  <2>4. Begun' = Begun /\ Sure' = Sure
    BY <1>2 DEF Begun, Sure
  <2>5. StandsAt(f, m)'
    BY <2>3, <2>4, <1>2 DEF StandsAt, StandsNext
  <2>6. pass' \in 0 .. 2 /\ certain_retry' = Sure' /\ Closes(NetPass(Begun', Sure'), Ours') /\ (pass' = 2 => Ends(set', past') = NetPass(Begun', Sure'))
    BY <2>1, <2>4, <1>2 DEF Walks
  <2>7. \E g, k : StandsAt(g, k)'
    BY <2>5
  <2>8. QED
    BY <2>2, <2>6, <2>7 DEF Walks
<1>6. QED
  BY <1>2, <1>4, <1>5 DEF Matching, BuildAgrees

\* The end of the ledger's list is the network's.
LEMMA EndsFiled ==
  ASSUME Fresh(set, past), filed = NetBuild(set, past).order
  PROVE  /\ filed = Ends(set, past).order /\ Ours = Tops(Ends(set, past).order) /\ NetGoes(set, past)
         /\ \A p \in 0 .. 2 : Closes(StartAt(p, set, past), Ours) /\ \E f : PassGoes(set, past, StartAt(p, set, past), SureAt(p, set, past), f)
         /\ Closes(Ends(set, past), Ours) /\ Running(set, past, Ends(set, past), {})
<1>1. filed = Ends(set, past).order /\ NetGoes(set, past)
  BY EndsIs, NetRuns
<1>2. Ours = Tops(Ends(set, past).order)
  BY <1>1 DEF Ours, FiledTxs, Tops, Txs
<1>3. QED
  BY <1>1, <1>2 DEF NetGoes

\* Where a pass begins, both walks stand together.
LEMMA PassBegins ==
  ASSUME Fresh(set, past), filed = NetBuild(set, past).order, set' = set, past' = past, Ours' = Ours,
         NEW p \in 0 .. 2, pass' = p, NEW b, b = StartAt(p, set, past), ours' = b.before, SameList(built', b.order),
         Range(todo') = Range(b.wait) \cap Ours, Range(retry') = {}, pass_changes' = 0
  PROVE  Begun' = b /\ Sure' = SureAt(p, set, past) /\ \E f, k : StandsAt(f, k)'
<1>1. Begun' = b /\ Sure' = SureAt(p, set, past)
  BY DEF Begun, Sure
<1>2. PICK f : PassGoes(set, past, b, SureAt(p, set, past), f)
  BY EndsFiled
<1>3. /\ Len(b.wait) \in Nat /\ b.wait \in [1 .. Len(b.wait) -> set]
      /\ f[0] = [before |-> b.before, wait |-> <<>>, order |-> b.order]
  BY <1>2 DEF PassGoes
<1>4. f[0].before = b.before /\ f[0].wait = <<>> /\ f[0].order = b.order
  BY <1>3
<1>5. Range(f[0].wait) = {} /\ 0 \in 0 .. Len(b.wait)
  BY <1>3, <1>4 DEF Range
<1>6. Tried(b.wait, 0, Len(b.wait)) = Range(b.wait)
  <2>1. DOMAIN b.wait = 0 + 1 .. Len(b.wait)
    BY <1>3
  <2>2. QED
    BY <2>1 DEF Tried, Range
<1>7. StandsAt(f, 0)'
  BY <1>1, <1>2, <1>4, <1>5, <1>6 DEF StandsAt
<1>8. \E g, k : StandsAt(g, k)'
  BY <1>7
<1>9. QED
  BY <1>1, <1>8

\* Both walks begin together.
LEMMA WalkBeginsMatches ==
  ASSUME BuildHolds, Matching, WalkBegins
  PROVE  Matching'
<1>1. stage = "ready" /\ Fresh(set, past) /\ filed = NetBuild(set, past).order
  BY DEF BuildHolds, WalkBegins, FiledRight
<1>2. FiledWell
  BY <1>1, FiledIs
<1>3. SeqOf(canonical_set, Ours, OurRel)
  BY <1>2, CanonicalIs
<1>4. /\ todo' = canonical_set /\ retry' = <<>> /\ pass' = 0 /\ pass_changes' = 0 /\ certain_retry' = TRUE /\ built' = <<>>
      /\ ours' = past /\ failed_now' = {} /\ stage' = "walk" /\ set' = set /\ filed' = filed
      /\ set_agreed' = set_agreed /\ past' = past /\ wrong' = wrong
  BY DEF WalkBegins
<1>5. Ours' = Ours
  BY <1>4 DEF Ours, FiledTxs
<1> DEFINE b == First(set, past)
<1>6. b.before = past /\ b.wait = NetOrder(set) /\ b.order = <<>> /\ b = StartAt(0, set, past)
  BY DEF First, StartAt
<1> HIDE DEF b
<1>7. SameList(built', b.order)
  <2>1. built' = <<>> /\ DOMAIN <<>> = {} /\ Places(<<>>) = {}
    BY <1>4 DEF Places
  <2>2. \E g : g \in [{} -> {}]
    <3>1. [x \in {} |-> x] \in [{} -> {}]
      OBVIOUS
    <3>2. QED
      BY <3>1
  <2>3. PICK g : g \in [{} -> {}]
    BY <2>2
  <2>4. Lists(<<>>, <<>>, g)
    BY <2>1, <2>3 DEF Lists
  <2>5. QED
    BY <2>1, <2>4, <1>6 DEF SameList
<1>8. Range(todo') = Range(b.wait) \cap Ours
  <2>1. Range(NetOrder(set)) = set
    BY <1>1, NetOrderIs DEF Fresh
  <2>2. QED
    BY <2>1, <1>2, <1>3, <1>4, <1>6 DEF SeqOf, FiledWell
<1>9. Range(retry') = {}
  BY <1>4 DEF Range
<1>10. Begun' = b /\ Sure' = SureAt(0, set, past) /\ \E f, k : StandsAt(f, k)'
  <2>1. 0 \in 0 .. 2
    OBVIOUS
  <2>2. ours' = b.before
    BY <1>4, <1>6
  <2>3. QED
    BY <2>1, <2>2, <1>1, <1>4, <1>5, <1>6, <1>7, <1>8, <1>9, PassBegins
<1>11. Sure' = TRUE /\ pass' \in 0 .. 2 /\ ~ (pass' = 2)
  <2>1. SureAt(0, set, past) = TRUE
    BY DEF SureAt
  <2>2. pass' \in 0 .. 2 /\ ~ (pass' = 2)
    BY <1>4
  <2>3. QED
    BY <2>1, <2>2, <1>10
<1>12. Closes(NetPass(b, TRUE), Ours)
  <2>1. NetPass(b, TRUE) = StartAt(1, set, past) /\ 1 \in 0 .. 2
    BY DEF b, StartAt, Second
  <2>2. QED
    BY <2>1, <1>1, EndsFiled
<1>13. Closes(NetPass(Begun', Sure'), Ours')
  BY <1>5, <1>10, <1>11, <1>12
<1>14. Walks'
  BY <1>4, <1>10, <1>11, <1>13 DEF Walks
<1>15. QED
  BY <1>4, <1>14 DEF Matching, BuildAgrees

\* A pass tried to its end.
Passed(v) ==
  /\ v = NetPass(Begun, Sure) /\ ours = v.before /\ SameList(built, v.order) /\ Range(retry) = Range(v.wait) \cap Ours
  /\ (pass_changes = 0 <=> Len(v.order) = Len(Begun.order))

\* At the end of a pass they have come to the end of the network's.
LEMMA PassedIs ==
  ASSUME Walks, todo = <<>>
  PROVE  \E v : Passed(v)
<1>1. PICK f, k : StandsAt(f, k)
  BY DEF Walks
<1>2. /\ PassGoes(set, past, Begun, Sure, f) /\ k \in 0 .. Len(Begun.wait) /\ ours = f[k].before /\ SameList(built, f[k].order)
      /\ Range(todo) = Tried(Begun.wait, k, Len(Begun.wait)) \cap Ours /\ Range(retry) = Range(f[k].wait) \cap Ours
      /\ (pass_changes = 0 <=> Len(f[k].order) = Len(Begun.order))
  BY <1>1 DEF StandsAt
<1> DEFINE n == Len(Begun.wait)
<1>3. n \in Nat /\ NetPass(Begun, Sure) = f[n]
  BY <1>2 DEF PassGoes
<1>4. n \in 0 .. n /\ k <= n
  BY <1>2, <1>3
<1>5. Range(todo) = {}
  BY DEF Range
<1>6. Skipped(f, k, n, Ours)
  BY <1>2, <1>4, <1>5, Skips DEF Walks
<1> HIDE DEF n
<1>7. Passed(f[n])
  BY <1>2, <1>3, <1>6 DEF Passed, Skipped
<1>8. QED
  BY <1>7

\* Both go on to the same pass, or both end.
LEMMA PassEndsMatches ==
  ASSUME BuildHolds, Matching, PassEnds
  PROVE  Matching'
<1>1. stage = "walk" /\ todo = <<>> /\ Fresh(set, past) /\ filed = NetBuild(set, past).order
  BY DEF BuildHolds, PassEnds, FiledRight
<1>2. Stand /\ past' = past /\ stage' \in {"walk", "walked"}
  BY <1>1 DEF PassEnds, Stand
<1>3. Ours' = Ours /\ set' = set /\ built' = built /\ ours' = ours /\ failed_now' = failed_now
  BY <1>2, StandsStill DEF Stand
<1>4. Agreed' <=> Agreed
  BY <1>2, <1>3 DEF Agreed, Stand
<1>5. SUFFICES ASSUME Agreed PROVE (stage' = "walk" => Walks') /\ (stage' = "walked" => Walked')
  BY <1>2, <1>4 DEF Matching, BuildAgrees
<1>6. Walks
  BY <1>1, <1>5 DEF Matching
<1>7. PICK v : Passed(v)
  BY <1>1, <1>6, PassedIs
<1>8. /\ v = NetPass(Begun, Sure) /\ ours = v.before /\ SameList(built, v.order) /\ Range(retry) = Range(v.wait) \cap Ours
      /\ (pass_changes = 0 <=> Len(v.order) = Len(Begun.order))
  BY <1>7 DEF Passed
<1>9. pass \in 0 .. 2 /\ certain_retry = Sure /\ failed_now = {} /\ (pass = 2 => Ends(set, past) = v)
  BY <1>6, <1>8 DEF Walks
<1> DEFINE b1 == Second(set, past)
           b2 == Third(set, past)
           s1 == Len(b1.order) > 0
<1>10. /\ StartAt(0, set, past) = First(set, past) /\ StartAt(1, set, past) = b1 /\ StartAt(2, set, past) = b2
       /\ SureAt(0, set, past) = TRUE /\ SureAt(1, set, past) = s1 /\ SureAt(2, set, past) = FALSE
  BY DEF StartAt, SureAt
<1>11. /\ b1 = NetPass(First(set, past), TRUE) /\ b2 = NetPass(b1, s1)
       /\ Ends(set, past) = IF ~ s1 /\ ~ (Len(b2.order) > Len(b1.order)) THEN b2 ELSE NetPass(b2, FALSE)
  BY DEF Ends, Second, Third
<1>12. Len(First(set, past).order) = 0 /\ Len(b1.order) \in Nat /\ Len(b2.order) \in Nat /\ Len(b1.order) <= Len(b2.order)
  BY <1>1, EndsFiled DEF NetGoes
<1> HIDE DEF b1, b2, s1
<1>13. Len(b1.order) > 0 <=> s1
  BY DEF s1
<1>14. CASE WalkOver
  <2>1. stage' = "walked"
    BY <1>14 DEF PassEnds
  <2>2. v = Ends(set, past)
    <3>1. CASE pass = 2
      BY <3>1, <1>9
    <3>2. CASE pass = 1
      <4>1. pass_changes = 0 /\ ~ Sure
        BY <3>2, <1>9, <1>14 DEF WalkOver, TotalPasses
      <4>2. Begun = b1 /\ Sure = s1
        BY <3>2, <1>10 DEF Begun, Sure
      <4>3. v = b2 /\ ~ s1 /\ Len(b2.order) = Len(b1.order)
        BY <4>1, <4>2, <1>8, <1>11
      <4>4. ~ (Len(b2.order) > Len(b1.order))
        BY <4>3, <1>12
      <4>5. QED
        BY <4>3, <4>4, <1>11
    <3>3. CASE pass = 0
      <4>1. Sure = TRUE
        BY <3>3, <1>10 DEF Sure
      <4>2. QED
        BY <3>3, <4>1, <1>9, <1>14 DEF WalkOver, TotalPasses
    <3>4. QED
      BY <3>1, <3>2, <3>3, <1>9
  <2>3. Ends(set', past') = v
    BY <2>2, <1>2, <1>3
  <2>4. Walked'
    BY <2>3, <1>3, <1>8, <1>9 DEF Walked
  <2>5. QED
    BY <2>1, <2>4
<1>15. CASE ~ WalkOver
  <2>1. stage' = "walk" /\ todo' = retry /\ retry' = <<>> /\ pass' = pass + 1 /\ pass_changes' = 0 /\ certain_retry' = StillCertain
    BY <1>1, <1>15 DEF PassEnds
  <2>2. pass # 2 /\ ~ (pass_changes = 0 /\ ~ Sure)
    BY <1>9, <1>15 DEF WalkOver, TotalPasses
  <2>3. Range(retry') = {} /\ Range(todo') = Range(v.wait) \cap Ours
    <3>1. Range(retry') = {}
      BY <2>1 DEF Range
    <3>2. QED
      BY <3>1, <2>1, <1>8
  <2>4. CASE pass = 0
    <3>1. Begun = First(set, past) /\ Sure = TRUE
      BY <2>4, <1>10 DEF Begun, Sure
    <3>2. v = b1 /\ v = StartAt(1, set, past) /\ 1 \in 0 .. 2 /\ pass' = 1
      <4>1. v = b1 /\ v = StartAt(1, set, past)
        BY <3>1, <1>8, <1>10, <1>11
      <4>2. 1 \in 0 .. 2 /\ pass' = 1
        BY <2>1, <2>4
      <4>3. QED
        BY <4>1, <4>2
    <3>3. Begun' = v /\ Sure' = SureAt(1, set, past) /\ \E f, k : StandsAt(f, k)'
      BY <3>2, <2>1, <2>3, <1>1, <1>2, <1>3, <1>8, PassBegins
    <3>4. certain_retry' = (pass_changes # 0)
      BY <3>1, <2>1, <2>4, <1>9 DEF StillCertain, RetryPasses
    <3>5. pass_changes # 0 <=> s1
      BY <3>1, <3>2, <1>8, <1>12, <1>13
    <3>6. s1 \in BOOLEAN /\ (pass_changes # 0) \in BOOLEAN
      BY DEF s1
    <3>7. certain_retry' = Sure'
      BY <3>3, <3>4, <3>5, <3>6, <1>10
    <3>8. Closes(NetPass(Begun', Sure'), Ours')
      <4>1. NetPass(Begun', Sure') = StartAt(2, set, past)
        BY <3>2, <3>3, <1>10, <1>11
      <4>3. 2 \in 0 .. 2
        OBVIOUS
      <4>2. QED
        BY <4>1, <4>3, <1>1, <1>3, EndsFiled
    <3>9. pass' \in 0 .. 2 /\ ~ (pass' = 2)
      BY <3>2
    <3>10. Walks'
      BY <3>3, <3>7, <3>8, <3>9, <1>3, <1>9 DEF Walks
    <3>11. QED
      BY <3>10, <2>1
  <2>5. CASE pass = 1
    <3>1. Begun = b1 /\ Sure = s1
      BY <2>5, <1>10 DEF Begun, Sure
    <3>2. v = b2 /\ v = StartAt(2, set, past) /\ 2 \in 0 .. 2 /\ pass' = 2
      <4>1. v = b2 /\ v = StartAt(2, set, past)
        BY <3>1, <1>8, <1>10, <1>11
      <4>2. 2 \in 0 .. 2 /\ pass' = 2
        BY <2>1, <2>5
      <4>3. QED
        BY <4>1, <4>2
    <3>3. Begun' = v /\ Sure' = SureAt(2, set, past) /\ \E f, k : StandsAt(f, k)'
      BY <3>2, <2>1, <2>3, <1>1, <1>2, <1>3, <1>8, PassBegins
    <3>4. certain_retry' = FALSE /\ Sure' = FALSE
      <4>1. ~ (pass < RetryPasses)
        BY <2>5 DEF RetryPasses
      <4>2. certain_retry' = FALSE
        BY <4>1, <2>1 DEF StillCertain
      <4>3. QED
        BY <4>2, <3>3, <1>10
    <3>5. Ends(set, past) = NetPass(b2, FALSE)
      <4>1. s1 \/ Len(b2.order) # Len(b1.order)
        BY <3>1, <3>2, <2>2, <1>8
      <4>2. s1 \/ Len(b2.order) > Len(b1.order)
        BY <4>1, <1>12
      <4>3. QED
        BY <4>2, <1>11
    <3>6. Ends(set', past') = NetPass(Begun', Sure')
      BY <3>2, <3>3, <3>4, <3>5, <1>2, <1>3
    <3>7. Closes(NetPass(Begun', Sure'), Ours')
      <4>1. Closes(Ends(set, past), Ours)
        BY <1>1, EndsFiled
      <4>2. QED
        BY <4>1, <3>6, <1>2, <1>3
    <3>8. pass' \in 0 .. 2
      BY <3>2
    <3>9. Walks'
      BY <3>3, <3>4, <3>6, <3>7, <3>8, <1>3, <1>9 DEF Walks
    <3>10. QED
      BY <3>9, <2>1
  <2>6. QED
    BY <2>2, <2>4, <2>5, <1>9
<1>16. QED
  BY <1>14, <1>15

\* The same list, the same in everything a ledger's verdict compares.
SameAsFiled ==
  /\ DOMAIN network_order = DOMAIN built
  /\ \A i \in DOMAIN built : network_order[i].tx = built[i].tx /\ network_order[i].code = built[i].code /\ network_order[i] \in Listing
  /\ \A i, j \in DOMAIN built : built[i].tx = built[j].tx => i = j

\* A list of the ledger's own places is the order the verdict reads.
LEMMA BuiltAsFiled ==
  ASSUME FiledWell, Running(set, past, Ends(set, past), {}), filed = Ends(set, past).order, built \in Seq(Built), SameList(built, filed)
  PROVE  SameAsFiled
<1> DEFINE n == Len(built)
           P == OurPlaces
<1>1. n \in Nat /\ DOMAIN built = 1 .. n
  BY LenProperties
<1>2. PICK g : Lists(built, filed, g)
  BY DEF SameList
<1>3. P = Places(filed) /\ P \in SUBSET Nat
  BY NetworkOrderIs DEF OurPlaces, Places
<1> HIDE DEF n, P
<1>4. /\ g \in [1 .. n -> P] /\ (\A x \in P : \E i \in 1 .. n : g[i] = x)
      /\ (\A i, j \in 1 .. n : i < j => g[i] < g[j])
      /\ (\A i \in 1 .. n : built[i].tx = filed[g[i]].tx /\ built[i].code = filed[g[i]].code)
  BY <1>1, <1>2, <1>3 DEF Lists
<1>5. Orders(Lower(P), P)
  BY <1>3, LowerOrders
<1>6. g \in Seq(P) /\ Len(g) = n /\ DOMAIN g = 1 .. n
  BY <1>1, <1>4, SeqDef
<1>7. Sorted(g, Lower(P))
  BY <1>4, <1>6 DEF Sorted, Lower
<1>8. Range(g) = P
  BY <1>4, <1>6 DEF Range
<1>9. g = Ranked(P, Lower(P)) /\ Cardinality(P) = n
  BY <1>5, <1>6, <1>7, <1>8, SortedIsRanked
<1>10. network_order = [i \in 1 .. n |-> filed[g[i]]]
  BY <1>9 DEF network_order, P
<1>11. DOMAIN network_order = DOMAIN built /\ \A i \in 1 .. n : network_order[i] = filed[g[i]]
  BY <1>1, <1>10
<1>12. \A i \in P : i \in DOMAIN filed /\ filed[i].tx \notin Inners
  BY <1>3 DEF Places
<1>13. filed \in Seq(Listing)
  BY DEF FiledWell
<1>14. \A i \in DOMAIN filed : filed[i] \in Listing
  BY <1>13, LenProperties, ElementOfSeq
<1>15. ASSUME NEW i \in 1 .. n, NEW j \in 1 .. n, built[i].tx = built[j].tx PROVE i = j
  <2>1. g[i] = g[j]
    <3>1. g[i] \in DOMAIN filed /\ g[j] \in DOMAIN filed /\ filed[g[i]].tx = filed[g[j]].tx /\ filed[g[i]].tx \notin Inners
      BY <1>4, <1>12, <1>15
    <3>2. QED
      BY <3>1 DEF Running
  <2>2. g[i] \in Nat /\ g[j] \in Nat
    BY <1>3, <1>4
  <2>3. ~ (i < j) /\ ~ (j < i)
    BY <2>1, <2>2, <1>4
  <2>4. QED
    BY <2>3
<1>16. QED
  BY <1>1, <1>4, <1>11, <1>12, <1>14, <1>15 DEF SameAsFiled

\* Then the ledger is the network's.
LEMMA NoneDiffers ==
  ASSUME SameAsFiled, built \in Seq(Built), BuildTyped
  PROVE  ~OrderDiffers /\ ~ResultsDiffer /\ ~CoinsDiffer
<1> DEFINE D == DOMAIN built
           net == network_order
<1>1. /\ DOMAIN net = D
      /\ \A i \in D : net[i].tx = built[i].tx /\ net[i].code = built[i].code /\ net[i] \in Listing
      /\ \A i, j \in D : built[i].tx = built[j].tx => i = j
  BY DEF SameAsFiled
<1>2. IsFiniteSet(D) /\ \A i \in D : built[i] \in Built
  BY LenProperties, FS_Interval, ElementOfSeq
<1>3. ~OrderDiffers
  BY <1>1 DEF OrderDiffers
<1>4. ~ResultsDiffer
  <2>1. SUFFICES ASSUME NEW f \in Range(net) PROVE \E a \in Range(built) : a.tx = f.tx /\ a.code = f.code
    BY DEF ResultsDiffer
  <2>2. PICK i \in D : f = net[i]
    BY <1>1 DEF Range
  <2>3. built[i] \in Range(built)
    BY DEF Range
  <2>4. QED
    BY <2>2, <2>3, <1>1
<1> HIDE DEF D, net
<1> DEFINE E == {i \in D : ~Pseudo(built[i].tx)}
           A == {a \in Range(built) : ~Pseudo(a.tx)}
           C == {f \in Range(net) : ~Pseudo(f.tx)}
<1>5. IsFiniteSet(E)
  BY <1>2, FS_Subset
<1>6. A = {built[i] : i \in E} /\ C = {net[i] : i \in E}
  <2>1. Range(built) = {built[i] : i \in D} /\ Range(net) = {net[i] : i \in D}
    BY <1>1 DEF Range, D
  <2>2. A = {built[i] : i \in E}
    BY <2>1
  <2>3. \A i \in D : Pseudo(net[i].tx) <=> Pseudo(built[i].tx)
    BY <1>1
  <2>4. C = {net[i] : i \in E}
    BY <2>1, <2>3
  <2>5. QED
    BY <2>2, <2>4
<1>7. \A i, j \in E : (built[i] = built[j] => i = j) /\ (net[i] = net[j] => i = j)
  BY <1>1
<1> HIDE DEF E, A, C
<1>8. Cardinality(A) = Cardinality(E)
  <2> DEFINE h == [i \in E |-> built[i]]
  <2>1. DOMAIN h = E /\ \A i \in E : h[i] = built[i]
    OBVIOUS
  <2>2. h \in [E -> A] /\ \A x \in A : \E i \in E : h[i] = x
    BY <1>6, <2>1
  <2>3. \A i, j \in E : h[i] = h[j] => i = j
    BY <1>7, <2>1
  <2> HIDE DEF h
  <2>4. h \in Bijection(E, A)
    BY <2>1, <2>2, <2>3 DEF Bijection, Injection, Surjection, IsInjective
  <2>5. ExistsBijection(E, A)
    BY <2>4 DEF ExistsBijection
  <2>6. QED
    BY <2>5, <1>5, FS_Bijection
<1>9. Cardinality(C) = Cardinality(E)
  <2> DEFINE h == [i \in E |-> net[i]]
  <2>1. DOMAIN h = E /\ \A i \in E : h[i] = net[i]
    OBVIOUS
  <2>2. h \in [E -> C] /\ \A x \in C : \E i \in E : h[i] = x
    BY <1>6, <2>1
  <2>3. \A i, j \in E : h[i] = h[j] => i = j
    BY <1>7, <2>1
  <2> HIDE DEF h
  <2>4. h \in Bijection(E, C)
    BY <2>1, <2>2, <2>3 DEF Bijection, Injection, Surjection, IsInjective
  <2>5. ExistsBijection(E, C)
    BY <2>4 DEF ExistsBijection
  <2>6. QED
    BY <2>5, <1>5, FS_Bijection
<1>10. Burned = Cardinality(E) /\ HeaderTotal = total - Cardinality(E)
  BY <1>8, <1>9 DEF Burned, HeaderTotal, A, C, net
<1>11. ~CoinsDiffer
  BY <1>10 DEF CoinsDiffer, BuildTyped
<1>12. QED
  BY <1>3, <1>4, <1>11

\* What the mirror knows in the end is what the ledger filed, and the earlier ones'.
LEMMA MirrorIsFiled ==
  ASSUME Running(set, past, Ends(set, past), {}), filed = Ends(set, past).order, ours = Ends(set, past).before
  PROVE  ours = Filing
<1>1. /\ ours = [x \in DOMAIN past \cup Txs(filed) |-> ours[x]]
      /\ \A i \in DOMAIN filed : ours[filed[i].tx] = filed[i].code
      /\ \A x \in DOMAIN past \ Txs(filed) : ours[x] = past[x]
  BY DEF Running
<1>2. Txs(filed) = FiledTxs
  BY DEF Txs, FiledTxs
<1> DEFINE at(t) == CHOOSE i \in DOMAIN filed : filed[i].tx = t
<1>3. ASSUME NEW x \in FiledTxs \cup DOMAIN past PROVE ours[x] = IF x \in FiledTxs THEN filed[at(x)].code ELSE past[x]
  <2>1. CASE x \in FiledTxs
    <3>1. \E i \in DOMAIN filed : filed[i].tx = x
      BY <2>1 DEF FiledTxs
    <3>2. at(x) \in DOMAIN filed /\ filed[at(x)].tx = x
      BY <3>1
    <3> HIDE DEF at
    <3>3. QED
      BY <2>1, <3>2, <1>1
  <2>2. CASE x \notin FiledTxs
    BY <2>2, <1>1, <1>2
  <2>3. QED
    BY <2>1, <2>2
<1>4. Filing = [x \in FiledTxs \cup DOMAIN past |-> IF x \in FiledTxs THEN filed[at(x)].code ELSE past[x]]
  BY DEF Filing
<1> HIDE DEF at
<1>5. ours = [x \in FiledTxs \cup DOMAIN past |-> ours[x]]
  <2>1. DOMAIN past \cup Txs(filed) = FiledTxs \cup DOMAIN past
    BY <1>2
  <2>2. QED
    BY <2>1, <1>1
<1>6. QED
  BY <1>3, <1>4, <1>5

\* All that was filed is built: nothing waits.
LEMMA NothingWaits ==
  ASSUME Parted, Ours = Tops(filed), SameList(built, filed)
  PROVE  retry = <<>>
<1>1. PICK g : Lists(built, filed, g)
  BY DEF SameList
<1>2. ASSUME NEW t \in Ours PROVE t \in BuiltTxs
  <2>1. PICK x \in DOMAIN filed : filed[x].tx = t /\ t \notin Inners
    BY DEF Tops, Txs
  <2>2. x \in Places(filed)
    BY <2>1 DEF Places
  <2>3. PICK i \in DOMAIN built : g[i] = x /\ built[i].tx = filed[g[i]].tx
    BY <2>2, <1>1 DEF Lists
  <2>4. QED
    BY <2>1, <2>3 DEF BuiltTxs
<1>3. Range(retry) \subseteq Ours /\ Range(retry) \cap BuiltTxs = {} /\ retry \in Seq(Ours)
  BY DEF Parted
<1>4. Range(retry) = {}
  BY <1>2, <1>3
<1>5. DOMAIN retry = {} /\ DOMAIN retry = 1 .. Len(retry) /\ Len(retry) \in Nat
  <2>1. DOMAIN retry = 1 .. Len(retry) /\ Len(retry) \in Nat
    BY <1>3, LenProperties
  <2>2. ASSUME NEW i \in DOMAIN retry PROVE FALSE
    <3>1. retry[i] \in Range(retry)
      BY DEF Range
    <3>2. QED
      BY <3>1, <1>4
  <2>3. QED
    BY <2>1, <2>2
<1>6. Len(retry) = 0
  BY <1>5
<1>7. retry # <<>> => Len(retry) \in Nat \ {0}
  BY <1>3, EmptySeq
<1>8. QED
  BY <1>6, <1>7

\* The verdict is that the ledger is the network's.
LEMMA JudgeMatches ==
  ASSUME BuildHolds, Matching, Judge
  PROVE  Matching'
<1>1. /\ BuildTyped /\ stage = "walked" /\ Fresh(set, past) /\ filed = NetBuild(set, past).order /\ Parted
      /\ left = retry
  BY DEF BuildHolds, Judge, FiledRight, Walking
<1>2. FiledWell
  BY <1>1, FiledIs
<1>3. filed = Ends(set, past).order /\ Running(set, past, Ends(set, past), {})
  BY <1>1, EndsFiled
<1>4. /\ set' = set /\ filed' = filed /\ wrong' = wrong /\ set_agreed' = set_agreed /\ stage' = "judged" /\ failed_now' = failed_now /\ left' = left
      /\ exact' = (~OrderDiffers /\ ~ResultsDiffer /\ ~CoinsDiffer /\ (mode = "shadow" => ours = Filing))
      /\ refusal' = (mode = "on" /\ (OrderDiffers \/ ResultsDiffer))
  BY DEF Judge, walk_vars
<1>5. Ours' = Ours
  BY <1>4 DEF Ours, FiledTxs
<1>6. Agreed' <=> Agreed
  BY <1>4, <1>5 DEF Agreed
<1>7. ASSUME Agreed PROVE exact' /\ ~refusal' /\ failed_now' = {} /\ left' = <<>>
  <2>1. ours = Ends(set, past).before /\ SameList(built, filed) /\ failed_now = {}
    BY <1>1, <1>3, <1>7 DEF Matching, Walked
  <2>2. built \in Seq(Built)
    BY <1>1 DEF BuildTyped
  <2>3. SameAsFiled
    BY <2>1, <2>2, <1>2, <1>3, BuiltAsFiled
  <2>4. ~OrderDiffers /\ ~ResultsDiffer /\ ~CoinsDiffer
    BY <2>2, <2>3, <1>1, NoneDiffers
  <2>5. ours = Filing
    BY <2>1, <1>3, MirrorIsFiled
  <2>6. retry = <<>>
    BY <2>1, <1>1, <1>2, NothingWaits DEF FiledWell
  <2>7. QED
    BY <2>1, <2>4, <2>5, <2>6, <1>1, <1>4
<1>8. BuildAgrees'
  BY <1>6, <1>7 DEF BuildAgrees, Agreed
<1>9. QED
  BY <1>4, <1>8 DEF Matching

\* Every step keeps the two together.
LEMMA MatchingStep ==
  ASSUME BuildHolds, Matching, [BuildNext]_build_vars
  PROVE  Matching'
<1>1. CASE UNCHANGED build_vars
  <2>1. /\ Stand /\ stage' = stage /\ todo' = todo /\ retry' = retry /\ pass' = pass /\ pass_changes' = pass_changes /\ certain_retry' = certain_retry
        /\ left' = left /\ past' = past /\ exact' = exact /\ refusal' = refusal
    BY <1>1 DEF build_vars, walk_vars, Stand
  <2>2. Ours' = Ours
    BY <2>1, StandsStill
  <2>3. (Agreed' <=> Agreed) /\ Begun' = Begun /\ Sure' = Sure
    BY <2>1, <2>2 DEF Agreed, Begun, Sure, Stand
  <2>4. ASSUME NEW f, NEW k, StandsAt(f, k) PROVE StandsAt(f, k)'
    BY <2>1, <2>2, <2>3, <2>4 DEF StandsAt, Stand
  <2>5. Walks => Walks'
    <3>1. SUFFICES ASSUME Walks PROVE Walks'
      OBVIOUS
    <3>2. PICK f, k : StandsAt(f, k)
      BY <3>1 DEF Walks
    <3>3. \E g, m : StandsAt(g, m)'
      BY <3>2, <2>4
    <3>4. Ends(set', past') = Ends(set, past) /\ failed_now' = failed_now
      BY <2>1 DEF Stand
    <3>5. QED
      BY <3>1, <3>3, <3>4, <2>1, <2>2, <2>3 DEF Walks
  <2>6. Walked => Walked'
    BY <2>1 DEF Walked, Stand
  <2>7. BuildAgrees => BuildAgrees'
    BY <2>1, <2>2 DEF BuildAgrees, Stand
  <2>8. QED
    BY <2>1, <2>3, <2>5, <2>6, <2>7 DEF Matching
<1>2. CASE \E S \in Sets : LedgerFiled(S)
  <2>1. stage' = "ready"
    BY <1>2 DEF LedgerFiled
  <2>2. QED
    BY <2>1 DEF Matching, BuildAgrees
<1>3. CASE WalkBegins
  BY <1>3, WalkBeginsMatches
<1>4. CASE Attempt
  BY <1>4, AttemptMatches
<1>5. CASE PassEnds
  BY <1>5, PassEndsMatches
<1>6. CASE Judge
  BY <1>6, JudgeMatches
<1>7. CASE NextLedger
  <2>1. stage' = "idle"
    BY <1>7 DEF NextLedger
  <2>2. QED
    BY <2>1 DEF Matching, BuildAgrees
<1>8. QED
  BY <1>1, <1>2, <1>3, <1>4, <1>5, <1>6, <1>7 DEF BuildNext

\* However the passes go, nothing is lost and an engine's mistake is seen; and where the node knows the
\* set, or all of it was filed, its own build is the network's, without seeing what was dropped: for all
\* transactions, needs, salts and ledgers.
THEOREM BuildIsOK == BuildSpec => []BuildOK
<1>1. BuildInit => BuildHolds /\ Matching
  <2>1. BuildInit => stage = "idle"
    BY DEF BuildInit
  <2>2. QED
    BY <2>1, BuildBegins DEF Matching, BuildAgrees
<1>2. BuildHolds /\ Matching /\ [BuildNext]_build_vars => BuildHolds' /\ Matching'
  BY BuildKeeps, MatchingStep
<1>3. BuildHolds /\ Matching => BuildOK
  BY NothingIsLost DEF BuildHolds, Matching, BuildOK
<1>4. QED
  BY <1>1, <1>2, <1>3, PTL DEF BuildSpec
=============================================================================
