------------------------------- MODULE SignedDays -------------------------------
(***************************************************************************)
(* The count of days signed with our own hash (independence_days.rs): a      *)
(* tally of each day's signatures, saved when a day begins and after every   *)
(* SAVE_EVERY of them, read back when the program starts.  A write that      *)
(* fails leaves the file as it was and is not made up for before the next    *)
(* one is due; a file that cannot be read is taken as empty.  A day counts   *)
(* when nothing in its tally is against it; the count is the run of such     *)
(* days up to yesterday.                                                    *)
(***************************************************************************)
EXTENDS Naturals, FiniteSets, Functions, FiniteSetsExt

CONSTANTS
  MIN_COVERAGE,  \* the percentage of a day's ledgers it must have signed; 98 in the code
  KEEP_DAYS,     \* days kept; 62 in the code
  SAVE_EVERY,    \* signatures between two writes of the file; 64 in the code
  MaxDay, MaxSigned, MaxStops, MaxUnsaved  \* bounds: days, ledgers, restarts, writes that fail

ASSUME DaysConstants ==
  /\ MIN_COVERAGE \in 0 .. 100 /\ KEEP_DAYS \in Nat \ {0} /\ SAVE_EVERY \in Nat \ {0}
  /\ MaxDay \in Nat \ {0} /\ MaxSigned \in Nat /\ MaxStops \in Nat /\ MaxUnsaved \in Nat

VARIABLES
  today,       \* the UTC day
  ledger,      \* the ledger being decided
  order, source,  \* whether our own order is on and the data comes from peers
  live,        \* the days in memory: day -> [signed, own, borrowed, first, last, order_on, peers]
  since_save,
  on_disk,     \* the days in the file
  said,        \* history: each day's ledgers signed, those with our own hash, and those with a step off
  known, filed,   \* history: the ledgers whose signatures are in the tally in memory, and in the file
  unsaved, unread,  \* history: writes that failed so far, and whether a start could not read the file
  stops        \* history: restarts so far

day_history == <<known, filed, unsaved, unread, stops>>
day_vars == <<today, ledger, order, source, live, since_save, on_disk, said, day_history>>

-----------------------------------------------------------------------------
(* Day, Days *)

NewDay(seq) == [signed |-> 0, own |-> 0, borrowed |-> 0, first |-> seq, last |-> seq, order_on |-> order, peers |-> source]

Oldest(D) == IF Cardinality(DOMAIN D) > KEEP_DAYS THEN Restrict(D, DOMAIN D \ {Min(DOMAIN D)}) ELSE D

\* The steps are taken as they were when the day began.
TalliedAtFirst(d, seq, own) ==
  [signed |-> d.signed + 1, own |-> IF own THEN d.own + 1 ELSE d.own, borrowed |-> IF own THEN d.borrowed ELSE d.borrowed + 1,
   first |-> Min({d.first, seq}), last |-> Max({d.last, seq}), order_on |-> d.order_on, peers |-> d.peers]

Tallied(d, seq, own) ==
  [signed |-> d.signed + 1, own |-> IF own THEN d.own + 1 ELSE d.own, borrowed |-> IF own THEN d.borrowed ELSE d.borrowed + 1,
   first |-> Min({d.first, seq}), last |-> Max({d.last, seq}),
   order_on |-> d.order_on /\ order, peers |-> d.peers /\ source]

SignedOn(D, date, seq, own) ==
  Oldest([x \in DOMAIN D \cup {date} |-> IF x = date THEN Tallied(IF date \in DOMAIN D THEN D[date] ELSE NewDay(seq), seq, own)
                                         ELSE D[x]])

Covered(d) == d.signed * 100 >= MIN_COVERAGE * (d.last - d.first + 1)
Counts(d) == d.signed > 0 /\ d.borrowed = 0 /\ d.order_on /\ d.peers /\ Covered(d)

\* The longest run of counted days that ends yesterday.
streak(D) ==
  Max({n \in 0 .. today - 1 : \A i \in 1 .. n : today - i \in DOMAIN D /\ Counts(D[today - i])})

-----------------------------------------------------------------------------
(* The tally and its file *)

DaysInit ==
  /\ today = 1 /\ ledger = 1 /\ order = TRUE /\ source \in BOOLEAN
  /\ live = <<>> /\ since_save = 0 /\ on_disk = <<>>
  /\ said = [d \in 1 .. MaxDay |-> [signed |-> {}, own |-> {}, off |-> {}]]
  /\ known = {} /\ filed = {} /\ unsaved = 0 /\ unread = FALSE /\ stops = 0

\* A write and a rename: when either fails the file is as it was.
save ==
  \/ on_disk' = live' /\ filed' = known' /\ UNCHANGED unsaved
  \/ unsaved < MaxUnsaved /\ unsaved' = unsaved + 1 /\ UNCHANGED <<on_disk, filed>>

signed(own) ==
  /\ ledger <= MaxSigned
  /\ live' = SignedOn(live, today, ledger, own) /\ known' = known \cup {ledger}
  /\ IF today \notin DOMAIN live \/ since_save + 1 >= SAVE_EVERY
     THEN since_save' = 0 /\ save
     ELSE since_save' = since_save + 1 /\ UNCHANGED <<on_disk, filed, unsaved>>
  /\ said' = [said EXCEPT ![today] = [signed |-> @.signed \cup {ledger},
                                      own |-> IF own THEN @.own \cup {ledger} ELSE @.own,
                                      off |-> IF order /\ source THEN @.off ELSE @.off \cup {ledger}]]
  /\ ledger' = ledger + 1
  /\ UNCHANGED <<today, order, source, unread, stops>>

\* A ledger the validator does not sign.
LeftUnsigned ==
  /\ ledger <= MaxSigned /\ ledger' = ledger + 1
  /\ UNCHANGED <<today, order, source, live, since_save, on_disk, said, day_history>>

Midnight ==
  /\ today < MaxDay /\ today' = today + 1
  /\ UNCHANGED <<ledger, order, source, live, since_save, on_disk, said, day_history>>

\* The program stops between two writes of the file and starts again, perhaps with a step off; a file
\* it cannot read or parse gives no days.
StopAndStart ==
  /\ stops < MaxStops /\ stops' = stops + 1
  /\ \/ live' = on_disk /\ known' = filed /\ UNCHANGED unread
     \/ live' = <<>> /\ known' = {} /\ unread' = TRUE
  /\ since_save' = 0 /\ order' \in BOOLEAN
  /\ UNCHANGED <<today, ledger, source, on_disk, said, filed, unsaved>>

DaysNext ==
  \/ \E own \in BOOLEAN : signed(own)
  \/ LeftUnsigned
  \/ Midnight
  \/ StopAndStart

-----------------------------------------------------------------------------
(* What the count says *)

\* What was signed on day d, as far as the tally knows it.
KnownOf(d) ==
  [signed |-> said[d].signed \cap known, own |-> said[d].own \cap known, off |-> said[d].off \cap known]

\* A day in the run was signed with our own hash throughout, with both steps on at every signature,
\* and without a gap beyond the share allowed, as far as the tally knows it.
CountIsEarned ==
  \A i \in 1 .. streak(live) :
    LET s == KnownOf(today - i) IN
    /\ s.signed # {} /\ s.own = s.signed /\ s.off = {}
    /\ Cardinality(s.signed) * 100 >= MIN_COVERAGE * (Max(s.signed) - Min(s.signed) + 1)

\* And a day that is earned by what is known of it is not passed over, unless it is too old to be kept.
EarnedIsCounted ==
  \A d \in 1 .. today - 1 :
    LET s == KnownOf(d) IN
    /\ s.signed # {} /\ s.own = s.signed /\ s.off = {}
    /\ Max(s.signed) - Min(s.signed) + 1 = Cardinality(s.signed)
    /\ Cardinality({x \in 1 .. today : x >= d /\ KnownOf(x).signed # {}}) <= KEEP_DAYS
    => d \in DOMAIN live /\ Counts(live[d])

AllSigned == UNION {said[d].signed : d \in 1 .. today}

\* What it does not know are the signatures that stops took with them: fewer than SAVE_EVERY each, and
\* SAVE_EVERY more for each write that failed.  Only a file that could not be read takes more, and
\* without it the days of the file are days of the tally.
LittleIsLost ==
  ~ unread =>
    /\ Cardinality(AllSigned \ known) <= stops * (SAVE_EVERY - 1) + unsaved * SAVE_EVERY
    /\ unsaved = 0 => DOMAIN on_disk = DOMAIN live

DaysOK == CountIsEarned /\ EarnedIsCounted /\ LittleIsLost
===============================================================================
