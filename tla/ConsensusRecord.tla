----------------------------- MODULE ConsensusRecord -----------------------------
(***************************************************************************)
(* The recorder of consensus rounds (consensus_record.rs, on when           *)
(* XRPL_CONSENSUS_RECORD=1): the peer loop hands every checked message to a  *)
(* bounded channel and never waits; a writer thread gathers what came since  *)
(* the last validated header into one line, whose rows name a validator by   *)
(* its place in the last table written to the file.  A file is a sequence    *)
(* of lines; one cut short by a failed write swallows the line after it.     *)
(***************************************************************************)
EXTENDS Naturals, Sequences, FiniteSets, Functions, SequencesExt, FiniteSetsExt

CONSTANTS
  RoundMsgs,              \* messages [kind: "p" or "v", by: a validator's number, ok: it parses]
  RecordLists,            \* the lists there may be: sequences of validators' numbers, sorted
  MaxHeaders,             \* bound: validated headers
  CHANNEL_CAPACITY,       \* 16,384 in the code
  MAX_BATCH_ROWS,         \* 8,192 in the code
  MAX_UNKNOWN_PROPOSALS,  \* 64 in the code
  ROTATE_LINES,           \* the lines a file takes; 200 MB in the code
  KEEP,                   \* rotated files kept; 2 in the code
  MaxSent, MaxFaults      \* bounds: events handed over, and writes that fail

NoHeader == 0

ASSUME RecordConstants ==
  /\ RoundMsgs \subseteq [kind : {"p", "v"}, by : Nat, ok : BOOLEAN]
  /\ RecordLists \subseteq Seq(Nat) /\ \A l \in RecordLists : IsInjective(l)
  /\ CHANNEL_CAPACITY \in Nat /\ MAX_BATCH_ROWS \in Nat /\ MAX_UNKNOWN_PROPOSALS \in Nat
  /\ ROTATE_LINES \in Nat /\ KEEP \in Nat

VARIABLES
  in_channel,   \* the channel
  turned,       \* lost: events the full channel turned away since the last line
  files,        \* the file and its rotated ones, the newest first
  file_open,    \* whether the writer has the file open
  trust,        \* the writer's TrustTable: a list
  trust_due,    \* table_due
  waiting,      \* the batch [rows, pdup, vdup, bad]
  seen_now, seen_before,
  noted,        \* unknown validation keys this file has listed
  last_header,
  sent,         \* history: events handed over so far
  owed,         \* history: those a line must hold or count: messages, and whatever was turned away
  lines_lost,   \* history: messages and turned-away counts that went with a failed write
  faults        \* history: writes that failed so far

record_vars == <<in_channel, turned, files, file_open, trust, trust_due, waiting, seen_now, seen_before, noted,
                 last_header, sent, owed, lines_lost, faults>>

NoBatch == [rows |-> <<>>, pdup |-> 0, vdup |-> 0, bad |-> 0]
BatchTotal(b) == Len(b.rows) + b.pdup + b.vdup + b.bad

-----------------------------------------------------------------------------
(* TrustTable, encode_round, decode_round *)

Index(list, by) == CHOOSE i \in DOMAIN list : list[i] = by
Knows(list, by) == by \in Range(list)

UnlLine(list) == [k |-> "unl", keys |-> list]

\* The rows of one kind, by whether the list knows their signers; they are told as sets, for no row is
\* in a batch twice.
Places(rows, kind, list, known) == {i \in DOMAIN rows : rows[i].kind = kind /\ Knows(list, rows[i].by) = known}
Indexed(rows, places, list) == {[rows[i] EXCEPT !.by = Index(list, @)] : i \in places}
Earliest(places, n) == {i \in places : Cardinality({j \in places : j <= i}) <= n}

encode_round(b, header, list, listed, lost) ==
  LET unknown == Places(b.rows, "p", list, FALSE)
      strangers == Places(b.rows, "v", list, FALSE)
  IN [k |-> "r", header |-> header,
      pr |-> Indexed(b.rows, Places(b.rows, "p", list, TRUE), list),
      pu |-> {b.rows[i] : i \in Earliest(unknown, MAX_UNKNOWN_PROPOSALS)},
      va |-> Indexed(b.rows, Places(b.rows, "v", list, TRUE), list),
      uk |-> {b.rows[i].by : i \in strangers} \ listed,
      n |-> [pdup |-> b.pdup, vdup |-> b.vdup, pu |-> Cardinality(unknown), vu |-> Cardinality(strangers),
             vbad |-> b.bad, lost |-> lost],
      of |-> b.rows]

\* The rows of a line with the last table before it: the trusted ones by that table's keys.
Named(rows, list) == {[r EXCEPT !.by = list[@]] : r \in {x \in rows : x.by \in DOMAIN list}}
decode_round(line, list) == Named(line.pr, list) \cup Named(line.va, list) \cup line.pu

-----------------------------------------------------------------------------
(* Recorder *)

\* An event handed over without waiting.
Hand(e) ==
  /\ sent < MaxSent /\ sent' = sent + 1
  /\ IF Len(in_channel) < CHANNEL_CAPACITY
     THEN in_channel' = Append(in_channel, e) /\ UNCHANGED turned
     ELSE turned' = turned + 1 /\ UNCHANGED in_channel
  /\ owed' = IF e.is = "msg" \/ Len(in_channel) >= CHANNEL_CAPACITY THEN owed + 1 ELSE owed
  /\ UNCHANGED <<files, file_open, trust, trust_due, waiting, seen_now, seen_before, noted, last_header, lines_lost, faults>>

MsgEvent(m) == [is |-> "msg", what |-> m]
UnlEvent(l) == [is |-> "unl", what |-> l]
HeaderEvent(h) == [is |-> "header", what |-> h]

\* The messages among what is on its way.
Coming(events) == Cardinality({i \in DOMAIN events : events[i].is = "msg"})

record_message == \E m \in RoundMsgs : Hand(MsgEvent(m))
record_unl == \E l \in RecordLists : Hand(UnlEvent(l))
record_header == \E h \in 1 .. MaxHeaders : Hand(HeaderEvent(h))

-----------------------------------------------------------------------------
(* Writer *)

\* What a line comes to when it follows what is in the file: after a line cut short it is one with it.
Torn == [k |-> "torn"]
Garbage == [k |-> "garbage"]
Written(f, line) ==
  IF f # <<>> /\ Last(f) = Torn THEN Append(Front(f), IF line = Torn THEN Torn ELSE Garbage) ELSE Append(f, line)
\* At most two lines, a table and a round.
WrittenAll(f, lines) ==
  IF Len(lines) = 0 THEN f
  ELSE IF Len(lines) = 1 THEN Written(f, lines[1])
  ELSE Written(Written(f, lines[1]), lines[2])

FirstOf(s, n) == IF Len(s) <= n THEN s ELSE SubSeq(s, 1, n)

\* The file becomes .1, .1 becomes .2, and the last is overwritten.
MovedUp(fs) ==
  FirstOf(<<<<>>, fs[1]>> \o SubSeq(fs, IF Len(fs) > 1 /\ fs[2] = <<>> THEN 3 ELSE 2, Len(fs)), KEEP + 1)

\* rotate when it fails between its renames: the old ones have moved up.
Halfway(fs) ==
  IF Len(fs) = 1 THEN fs ELSE FirstOf(<<fs[1], <<>>>> \o Tail(fs), KEEP + 1)

\* How far a write gets before it fails: none of its bytes, all, or up to somewhere in a line.
Cuts(lines) ==
  {SubSeq(lines, 1, n) : n \in 0 .. Len(lines)} \cup {Append(SubSeq(lines, 1, n), Torn) : n \in 0 .. Len(lines) - 1}

Full(fs) == fs[1] # <<>> /\ Len(fs[1]) + 1 > ROTATE_LINES

\* The parts of write_round: the first encoding notes its keys, rotation forgets them.
Opens == ~file_open
Due == trust_due \/ Opens

\* After the loop of a flush, however its write went.
Flushed ==
  /\ turned' = 0
  /\ waiting' = NoBatch
  /\ seen_before' = seen_now /\ seen_now' = {}

\* What a flush would write: in a new file if the line does not fit, after the table when it is due.
Rotates == Full(files)
LineFor(b, header) == encode_round(b, header, trust, IF Rotates THEN {} ELSE noted, turned)
FilesFor == IF Rotates THEN MovedUp(files) ELSE files
LinesFor(b, header) ==
  IF Due \/ Rotates THEN <<UnlLine(trust), LineFor(b, header)>> ELSE <<LineFor(b, header)>>
NotedWith(b, header) == IF Rotates THEN LineFor(b, header).uk ELSE noted \cup LineFor(b, header).uk

WriteRound(b, header) ==
  /\ files' = [FilesFor EXCEPT ![1] = WrittenAll(@, LinesFor(b, header))]
  /\ file_open' = TRUE /\ trust_due' = FALSE
  /\ noted' = NotedWith(b, header)
  /\ UNCHANGED <<lines_lost, faults>>

Fails == faults < MaxFaults /\ faults' = faults + 1
GoesWith(b) == lines_lost' = lines_lost + BatchTotal(b) + turned

\* open fails: nothing is written.
OpenFails(b) ==
  /\ Opens
  /\ Fails /\ GoesWith(b)
  /\ UNCHANGED <<files, file_open, trust_due, noted>>

\* rotate fails, at its first rename, at the second, or when it opens the new file.
RotateFails(b, header) ==
  /\ Rotates
  /\ Fails /\ GoesWith(b)
  /\ file_open' = FALSE /\ trust_due' = Due
  /\ \/ files' \in {files, Halfway(files)}
        /\ noted' = noted \cup encode_round(b, header, trust, noted, turned).uk
     \/ files' = MovedUp(files) /\ noted' = {}

\* The lines fail on their way to the disk: the keys are noted although the line may not be there.
LineFails(b, header) ==
  /\ Fails
  /\ \E cut \in Cuts(LinesFor(b, header)) :
       /\ files' = [FilesFor EXCEPT ![1] = WrittenAll(@, cut)]
       /\ IF cut = LinesFor(b, header) THEN UNCHANGED lines_lost ELSE GoesWith(b)
  /\ file_open' = FALSE /\ trust_due' = FALSE
  /\ noted' = NotedWith(b, header)

flush(b, header) ==
  \/ WriteRound(b, header)
  \/ OpenFails(b)
  \/ RotateFails(b, header)
  \/ LineFails(b, header)

\* Only the line being gathered is looked through for a copy.
first_copy_here(m) == m \notin seen_now

first_copy(m) == m \notin seen_before /\ m \notin seen_now

\* The batch with a message in it, or with one more in a count.
Gathered(m) ==
  IF first_copy(m)
  THEN IF m.ok THEN [waiting EXCEPT !.rows = Append(@, m)] ELSE [waiting EXCEPT !.bad = @ + 1]
  ELSE IF m.kind = "p" THEN [waiting EXCEPT !.pdup = @ + 1] ELSE [waiting EXCEPT !.vdup = @ + 1]

Takes(e) == in_channel # <<>> /\ Head(in_channel) = e /\ in_channel' = Tail(in_channel) /\ UNCHANGED <<sent, owed>>

\* A message; when the batch is full of them a line is written without a header.
HandleMessage ==
  \E m \in RoundMsgs :
    LET b == Gathered(m) IN
    /\ Takes(MsgEvent(m))
    /\ UNCHANGED <<trust, last_header>>
    /\ IF Len(b.rows) >= MAX_BATCH_ROWS
       THEN /\ flush(b, NoHeader)
            /\ turned' = 0 /\ waiting' = NoBatch
            /\ seen_before' = seen_now \cup {m} /\ seen_now' = {}
       ELSE /\ waiting' = b
            /\ seen_now' = IF m \in seen_before THEN seen_now ELSE seen_now \cup {m}
            /\ UNCHANGED <<turned, seen_before, files, file_open, trust_due, noted, lines_lost, faults>>

HandleUnl ==
  \E l \in RecordLists :
    /\ Takes(UnlEvent(l))
    /\ trust' = l
    /\ trust_due' = (trust_due \/ l # trust)
    /\ UNCHANGED <<turned, files, file_open, waiting, seen_now, seen_before, noted, last_header, lines_lost, faults>>

\* A header closes the line, unless it is the last one over again.
HandleHeader ==
  \E h \in 1 .. MaxHeaders :
    /\ Takes(HeaderEvent(h))
    /\ IF h = last_header
       THEN UNCHANGED <<turned, files, file_open, trust_due, waiting, seen_now, seen_before, noted, last_header, lines_lost, faults>>
       ELSE last_header' = h /\ flush(waiting, h) /\ Flushed
    /\ UNCHANGED trust

\* The process ends and starts again: what waits is gone, the files stay.
RecorderRestarts ==
  /\ faults < MaxFaults /\ faults' = faults + 1
  /\ lines_lost' = lines_lost + BatchTotal(waiting) + turned + Coming(in_channel)
  /\ in_channel' = <<>> /\ turned' = 0 /\ file_open' = FALSE /\ trust' = <<>> /\ trust_due' = TRUE
  /\ waiting' = NoBatch /\ seen_now' = {} /\ seen_before' = {} /\ noted' = {} /\ last_header' = NoHeader
  /\ UNCHANGED <<files, sent, owed>>

RecordInit ==
  /\ in_channel = <<>> /\ turned = 0 /\ files = <<<<>>>> /\ file_open = FALSE
  /\ trust = <<>> /\ trust_due = TRUE /\ waiting = NoBatch
  /\ seen_now = {} /\ seen_before = {} /\ noted = {} /\ last_header = NoHeader
  /\ sent = 0 /\ owed = 0 /\ lines_lost = 0 /\ faults = 0

RecordNext ==
  \/ record_message \/ record_unl \/ record_header
  \/ HandleMessage \/ HandleUnl \/ HandleHeader
  \/ RecorderRestarts

-----------------------------------------------------------------------------
(* What a reader of the files relies on *)

Rounds(f) == {i \in DOMAIN f : f[i].k = "r"}
Earlier(f, i, kind) == {j \in 1 .. i - 1 : f[j].k = kind}

\* The table a line is to be read with is there, and gives each row back to the key that signed it:
\* whatever list changes, rotations, reopenings and restarts came between.  Nothing is claimed of the
\* lines from one cut short to the next table: the table written after a failure is swallowed by the
\* line cut short before it, and they are read with an older one or none.
ReadsRight ==
  \A n \in DOMAIN files : \A i \in Rounds(files[n]) :
    LET f == files[n]
        tables == Earlier(f, i, "unl")
        glued == Earlier(f, i, "garbage")
    IN \/ \E g \in glued : \A t \in tables : t < g
       \/ LET list == f[Max(tables)].keys
              trusted == {m \in Range(f[i].of) : Knows(list, m.by)}
          IN /\ tables # {}
             /\ decode_round(f[i], list) = trusted \cup f[i].pu
             /\ f[i].pu \subseteq Range(f[i].of) \ trusted

\* No message is in a line twice, or in a line and the next one: the copies other peers send of it late
\* are counted and left out.  (A process that starts again, or a line that failed, forgets.)
NoCopies ==
  faults = 0 =>
    \A n \in DOMAIN files : \A i \in Rounds(files[n]) :
      LET f == files[n]
          earlier == Earlier(f, i, "r")
      IN /\ IsInjective(f[i].of)
         /\ earlier # {} => Range(f[i].of) \cap Range(f[Max(earlier)].of) = {}

\* The sum of a sequence of numbers.
SumOf(s) ==
  LET sum[i \in 0 .. Len(s)] == IF i = 0 THEN 0 ELSE sum[i - 1] + s[i]
  IN sum[Len(s)]

LineTotal(line) ==
  IF line.k = "r" THEN Len(line.of) + line.n.pdup + line.n.vdup + line.n.vbad + line.n.lost ELSE 0
Counted(f) == SumOf([i \in DOMAIN f |-> LineTotal(f[i])])
CountedIn(fs) == SumOf([n \in DOMAIN fs |-> Counted(fs[n])])

\* Until a file is thrown away: every message handed over, and every event turned away, is in a line
\* or its counts, on its way there, or went with a write that failed or a process that ended.
NothingUncounted ==
  Len(files) <= KEEP =>
    CountedIn(files) + BatchTotal(waiting) + turned + Coming(in_channel) + lines_lost = owed

RecordOK == ReadsRight /\ NoCopies /\ NothingUncounted
===============================================================================
