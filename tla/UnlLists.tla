-------------------------------- MODULE UnlLists --------------------------------
(***************************************************************************)
(* The validator list: fetched from the publishers in turn, verified, held  *)
(* against the last good one on disk, put in use, and refreshed while        *)
(* running (unl_fetch.rs, unl_verify.rs, unl_refresh.rs).                  *)
(*                                                                         *)
(* A publisher's site may be down, serve an old list again, or one that     *)
(* does not verify; a write of either file may fail, or break off in the     *)
(* middle, which is only logged; the process may die between the writes.     *)
(***************************************************************************)
EXTENDS Integers, Sequences, FiniteSets, SequencesExt

CONSTANTS
  DEFAULT_UNL_SOURCES,  \* the publishers, in the order they are tried
  Pinned,               \* publishers the operator pinned
  Enforce,              \* XRPL_UNL_ENFORCE=1
  MaxListSeq, MaxUnlTime, MaxUnlBoots, MaxUnlFaults  \* bounds: sequences, time, starts, failing writes

ASSUME UnlConstants ==
  /\ DEFAULT_UNL_SOURCES \in Seq(Range(DEFAULT_UNL_SOURCES))
  /\ IsFiniteSet(Pinned) /\ "nobody" \notin Pinned

VARIABLES
  newest,     \* publisher -> the sequence of its newest list
  unl_now,
  unl_task,   \* "loading", "running", "down"
  using,      \* the list in use, or None
  last_good,  \* unl-last-good.json: the publisher and the sequence, or None when it cannot be read
  body,       \* the list stored beside it, or None
  writing,    \* a verified list whose second file is still to be written
  unl_boots,
  latest,     \* history: the list last put in use, by this process or an earlier one
  unsure,     \* history: a write of the sequence failed, and no list's two files were written whole since
  unl_faults  \* history: writes that failed so far

unl_history == <<latest, unsure, unl_faults>>
unl_vars == <<newest, unl_now, unl_task, using, last_good, body, writing, unl_boots, unl_history>>

Publishers == Range(DEFAULT_UNL_SOURCES)
None == [by |-> "nobody"]
Expiry(seq) == seq + 2

UnlInit ==
  /\ newest = [p \in Publishers |-> 1] /\ unl_now = 1 /\ unl_boots = 1
  /\ unl_task = "loading" /\ using = None
  /\ last_good = None /\ body = None /\ writing = None
  /\ latest = None /\ unsure = FALSE /\ unl_faults = 0

\* What a site serves: a list of its publisher with that sequence, whose signatures (the
\* publisher's manifest, the blob) and expiry are as verify_vl checks them.
Served(p) == {[by |-> p, seq |-> s, signed |-> g] : s \in 1 .. newest[p], g \in BOOLEAN}

\* verify_vl: the pin, the manifest with both signatures, the blob's signature, the expiry.
Verify(l) == l # None /\ l.by \in Pinned /\ l.signed /\ Expiry(l.seq) > unl_now

\* Mutant: the gate compares with nothing.
AnySequence(l) == TRUE

\* sequence_acceptable, against the last good list when that was the same publisher's.
SequenceAcceptable(l) == last_good.by = l.by => l.seq >= last_good.seq

\* fetch_first_verified: the first source in order whose list verifies and does not go back.
\* Its sequence is written at once; its body is written next.
FirstVerified(answers) ==
  LET good == {i \in DOMAIN DEFAULT_UNL_SOURCES :
                 Verify(answers[DEFAULT_UNL_SOURCES[i]]) /\ SequenceAcceptable(answers[DEFAULT_UNL_SOURCES[i]])} IN
  IF good = {} THEN None ELSE answers[DEFAULT_UNL_SOURCES[CHOOSE i \in good : \A j \in good : i <= j]]

Answers == {a \in [Publishers -> UNION {Served(p) : p \in Publishers} \union {None}] :
              \A p \in Publishers : a[p] \in Served(p) \union {None}}

\* What the file is after std::fs::write, which truncates it first: all that was written; what it was,
\* when it could not be opened; nothing that can be read, when the write broke off.
FileAfter(old, new) == IF unl_faults < MaxUnlFaults THEN {new, old, None} ELSE {new}
CountsFault(file, new) == unl_faults' = IF file = new THEN unl_faults ELSE unl_faults + 1

SequenceOf(l) == [by |-> l.by, seq |-> l.seq]

\* A fetch finds a list that verifies: write_last_good.
FetchVerified ==
  /\ unl_task \in {"loading", "running"} /\ writing = None
  /\ \E answers \in Answers : \E l \in {FirstVerified(answers)} :
       /\ l # None
       /\ writing' = l /\ last_good' \in FileAfter(last_good, SequenceOf(l)) /\ CountsFault(last_good', SequenceOf(l))
       /\ unsure' = (unsure \/ last_good' # SequenceOf(l))
  /\ UNCHANGED <<newest, unl_now, unl_task, using, body, unl_boots, latest>>

\* write_last_good_body; then the list is put in use, wherever validators are counted, whatever became
\* of the files.
PutInUse ==
  /\ writing # None
  /\ body' \in FileAfter(body, writing) /\ CountsFault(body', writing)
  /\ using' = writing /\ latest' = writing /\ writing' = None /\ unl_task' = "running"
  /\ unsure' = (unsure /\ ~ (last_good = SequenceOf(writing) /\ body' = writing))
  /\ UNCHANGED <<newest, unl_now, last_good, unl_boots>>

\* Mutant: the stored list is used as it is.
StoredUnverified == body

\* last_good_list: the stored list, if it still verifies and is no older than the sequence
\* written beside it.
StoredList == IF Verify(body) /\ SequenceAcceptable(body) THEN body ELSE None

\* While loading no source verifies.  In enforce mode the stored list is the only fallback;
\* else the first source that has a list at all is believed unverified.
LoadFallback ==
  /\ unl_task = "loading" /\ writing = None
  /\ \E answers \in Answers :
       /\ FirstVerified(answers) = None
       /\ IF Enforce
          THEN using' = StoredList
          ELSE \E i \in DOMAIN DEFAULT_UNL_SOURCES \union {0} :
                 /\ i > 0 => answers[DEFAULT_UNL_SOURCES[i]] # None
                 /\ \A j \in DOMAIN DEFAULT_UNL_SOURCES :
                      answers[DEFAULT_UNL_SOURCES[j]] # None => i > 0 /\ i <= j
                 /\ using' = IF i = 0 THEN None ELSE answers[DEFAULT_UNL_SOURCES[i]]
  /\ unl_task' = IF using' = None THEN "loading" ELSE "running"
  /\ latest' = IF using' = None THEN latest ELSE using'
  /\ UNCHANGED <<newest, unl_now, last_good, body, writing, unl_boots, unsure, unl_faults>>

\* A refresh that verifies nothing keeps the list in use: nothing changes.
Publish(p) ==
  /\ newest[p] < MaxListSeq /\ newest' = [newest EXCEPT ![p] = @ + 1]
  /\ UNCHANGED <<unl_now, unl_task, using, last_good, body, writing, unl_boots, unl_history>>

UnlTick ==
  /\ unl_now < MaxUnlTime /\ unl_now' = unl_now + 1
  /\ UNCHANGED <<newest, unl_task, using, last_good, body, writing, unl_boots, unl_history>>

\* The process dies, perhaps between the two files, in the second, or just after it, and starts again.
UnlRestart ==
  /\ unl_boots < MaxUnlBoots /\ unl_boots' = unl_boots + 1
  /\ body' \in {body} \union (IF writing = None THEN {} ELSE {writing, None})
  /\ unl_task' = "loading" /\ using' = None /\ writing' = None
  /\ UNCHANGED <<newest, unl_now, last_good, unl_history>>

UnlNext ==
  \/ FetchVerified \/ PutInUse \/ LoadFallback \/ UnlTick \/ UnlRestart
  \/ \E p \in Publishers : Publish(p)

UnlSpec == UnlInit /\ [][UnlNext]_unl_vars

\* In enforce mode a list that comes into use was verified, and had not expired when it was
\* taken, also when it is the one stored by an earlier run.
EnforcedListsVerify ==
  [][Enforce /\ using' # using /\ using' # None => (Verify(using') \/ using' = writing)]_unl_vars

\* With one publisher pinned, across restarts, the list that comes into use is not older than the one
\* in use before it, though its site serves old lists again, the process dies between the two files and
\* the second one cannot be written.  Only after a write of the sequence failed, until both files of a
\* list have been written whole, may an older list be taken: the gate then compares with an older
\* sequence or with none.  (With two publishers pinned it forgets one's sequence when the other's list
\* is taken.)
ListsGoForward ==
  [][Enforce /\ Cardinality(Pinned) = 1 /\ ~ unsure /\ using' # None /\ using' # using /\ latest # None
       => using'.seq >= latest.seq]_unl_vars

\* The gate's two promises together (unl_verify.rs accept, unl_fetch.rs).
ListsSound == EnforcedListsVerify /\ ListsGoForward
=================================================================================
