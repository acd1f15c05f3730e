---------------------------- MODULE WsSyncProofs ----------------------------
(* Theorems about WsSync, for every chain, every set of keys and every bound. *)
EXTENDS WsSync, FiniteSetTheorems, TLAPS

-------------------------------------------------------------------------------
(* The data a ledger is made of *)

\* Writing a batch on a state gives a state.
LEMMA OverwriteType ==
  ASSUME NEW s \in State, NEW b \in Batches
  PROVE  Overwrite(s, b) \in State
  BY DEF State, Batches, Overwrite

\* The bytes a ledger can be given are a batch, and so are their pre-images.
LEMMA BytesType ==
  ASSUME NEW seq \in Seqs, seq # 0
  PROVE  Bytes(seq) \subseteq Batches /\ OurBytes(seq) \subseteq Batches
         /\ NetworkBytes(seq) \subseteq Batches
<1>1. Modified(seq) \in SUBSET Keys
  BY DEF Modified
<1>2. Bytes(seq) \subseteq Batches
  BY <1>1 DEF Bytes, Batches
<1>3. RightBytes(seq) \in Bytes(seq)
  BY ConstantsOK, <1>1 DEF RightBytes, Bytes, Seqs, State
<1>4. QED
  BY <1>2, <1>3 DEF OurBytes, NetworkBytes

LEMMA NoBytesType == NoBytes \in Batches
<1>1. NoBytes \in [{} -> Value]
  BY DEF NoBytes
<1>2. QED
  BY <1>1 DEF Batches

LEMMA PreImagesType ==
  ASSUME store \in State, NEW b \in Batches
  PROVE  PreImages(b) \subseteq Batches
<1> SUFFICES ASSUME NEW bad,
                    NEW u, u = [k \in DOMAIN b |-> IF k \in bad THEN Absent ELSE store[k]]
             PROVE  u \in Batches
  BY DEF PreImages
<1>1. DOMAIN b \in SUBSET Keys
  BY DEF Batches
<1>2. u \in [DOMAIN b -> Value]
  BY <1>1 DEF State, Value
<1>3. QED
  BY <1>1, <1>2 DEF Batches

LEMMA HasherAfterType ==
  ASSUME NEW s \in State, hasher \in State \cup {None}, NEW keys
  PROVE  HasherAfter(keys, s) \subseteq State
  BY DEF HasherAfter, State

\* The counter stays in its width.
LEMMA WalletsType ==
  ASSUME wallets \in 0 .. WalletMod - 1, NEW seq \in Seqs, seq # 0
  PROVE  AdjustedWallets(seq) \in 0 .. WalletMod - 1
<1>1. ASSUME NEW s PROVE Accounts(s) \in Nat
  BY ConstantsOK, FS_Subset, FS_CardinalityType DEF Accounts
<1>2. WalletDelta(seq) \in Int
  BY <1>1 DEF WalletDelta
<1>3. WalletMod \in Nat /\ WalletMod > 0
  BY ConstantsOK, FS_CardinalityType
<1>4. QED
  BY <1>2, <1>3 DEF AdjustedWallets

\* An initial count fits too.
LEMMA WalletsOfState ==
  ASSUME NEW s
  PROVE  Accounts(s) \in 0 .. WalletMod - 1
  BY ConstantsOK, FS_Subset, FS_CardinalityType DEF Accounts

-------------------------------------------------------------------------------
(* Types *)

\* The ledger in flight is never past the one the message named.
TargetAhead == pc \notin {"idle"} => lastSynced < target

\* The Boolean variables, and the others.
Flags ==
  /\ marker \in BOOLEAN /\ clean \in BOOLEAN /\ hashKnown \in BOOLEAN
  /\ trial \in BOOLEAN /\ stop \in BOOLEAN

Values ==
  /\ store \in State /\ bookmark \in Seqs \cup {None}
  /\ ticket \in Tickets \cup {None}
  /\ live \in Seqs
  /\ proc \in {"up", "resuming", "down"} /\ starts \in Nat /\ startSeq \in Seqs
  /\ taken \in Tickets \cup {None}
  /\ pc \in {"idle", "next", "parked", "meta", "propose", "process", "written",
             "hashed", "rolledback", "redo", "landed"}
  /\ lastSynced \in Seqs /\ seen \in Seqs /\ target \in Seqs
  /\ batch \in Batches /\ undo \in Batches
  /\ hasher \in State \cup {None} /\ matches \in Nat /\ streak \in Nat
  /\ wallets \in 0 .. WalletMod - 1
  /\ gate \in {"free", "sync", "stop"}
  /\ lastVerified \in Tickets \cup {None}
  /\ sig \in {"off", "parking", "parked", "marking", "exiting"}

TypeInv == Flags /\ Values /\ TargetAhead

LEMMA InitType == Init => TypeInv
<1> SUFFICES ASSUME Init PROVE TypeInv
  OBVIOUS
<1>1. Flags
  BY Zenon DEF Init, Flags
<1>2. Values
  BY ConstantsOK, NoBytesType, WalletsOfState DEF Init, Values, Seqs
<1>3. TargetAhead
  BY DEF Init, TargetAhead
<1>4. QED
  BY <1>1, <1>2, <1>3 DEF TypeInv

\* Every step keeps the Boolean variables Boolean.
LEMMA StepFlags == Flags /\ [Next]_vars => Flags'
<1> SUFFICES ASSUME Flags, [Next]_vars PROVE Flags'
  OBVIOUS
<1> USE DEF Flags, diskVars, loopVars, bootVars, stopVars, vars
<1>1. CASE LedgerClosed  BY <1>1, Zenon DEF LedgerClosed
<1>2. CASE Reconnect  BY <1>2, Zenon DEF Reconnect
<1>3. CASE TakeEvent  BY <1>3, Zenon DEF TakeEvent
<1>4. CASE NoPeerLedger  BY <1>4, Zenon DEF NoPeerLedger
<1>5. CASE EnterLedger  BY <1>5, Zenon DEF EnterLedger
<1>6. CASE NoMetadata  BY <1>6, Zenon DEF NoMetadata, Hold, Leave
<1>7. CASE Metadata  BY <1>7, Zenon DEF Metadata
<1>8. CASE HoldBack  BY <1>8, Zenon DEF HoldBack, Hold, Leave
<1>9. CASE Propose  BY <1>9, Zenon DEF Propose
<1>10. CASE TakeNetworkBytes  BY <1>10, Zenon DEF TakeNetworkBytes
<1>11. CASE RedoFails  BY <1>11, Zenon DEF RedoFails, Hold, Leave
<1>12. CASE NoAccountHash  BY <1>12, Zenon DEF NoAccountHash, Hold, Leave
<1>13. CASE BytesMissing  BY <1>13, Zenon DEF BytesMissing, Hold, Leave
<1>14. CASE WriteFails  BY <1>14, Zenon DEF WriteFails, Hold, Leave
<1>15. CASE Write  BY <1>15, Zenon DEF Write
<1>16. CASE Hash  BY <1>16, Zenon DEF Hash
<1>17. CASE NoRoot  BY <1>17, Zenon DEF NoRoot, Hold, Leave
<1>18. CASE Match  BY <1>18, Zenon DEF Match
<1>19. CASE Mismatch  BY <1>19, Zenon DEF Mismatch
<1>20. CASE UndoFails  BY <1>20, Zenon DEF UndoFails
<1>21. CASE Redo  BY <1>21, Zenon DEF Redo
<1>22. CASE Strike  BY <1>22, Zenon DEF Strike, Hold, Leave
<1>23. CASE Halt  BY <1>23, Zenon DEF Halt
<1>24. CASE Land  BY <1>24, Zenon DEF Land, Leave
<1>25. CASE Sigterm  BY <1>25, Zenon DEF Sigterm
<1>26. CASE Park  BY <1>26, Zenon DEF Park
<1>27. CASE ParkTimeout  BY <1>27, Zenon DEF ParkTimeout
<1>28. CASE WriteTicket  BY <1>28, Zenon DEF WriteTicket
<1>29. CASE WriteMarker  BY <1>29, Zenon DEF WriteMarker
<1>30. CASE Exit  BY <1>30, Zenon DEF Exit
<1>31. CASE Crash  BY <1>31, Zenon DEF Crash
<1>32. CASE Boot  BY <1>32, Zenon DEF Boot, FreshStop
<1>33. CASE TakeTicket  BY <1>33, Zenon DEF TakeTicket
<1>34. CASE Resume  BY <1>34, Zenon DEF Resume, StartLoop
<1>35. CASE Fallback  BY <1>35, Zenon DEF Fallback
<1>36. CASE ColdStart  BY <1>36, Zenon DEF ColdStart, StartLoop, FreshStop
<1>37. CASE UNCHANGED vars  BY <1>37
<1>38. QED
  BY <1>1, <1>2, <1>3, <1>4, <1>5, <1>6, <1>7, <1>8, <1>9, <1>10, <1>11, <1>12, <1>13, <1>14, <1>15, <1>16, <1>17, <1>18, <1>19, <1>20, <1>21, <1>22, <1>23, <1>24, <1>25, <1>26, <1>27, <1>28, <1>29, <1>30, <1>31, <1>32, <1>33, <1>34, <1>35, <1>36, <1>37
  DEF Next, LoopStep, HandlerStep, StartStep

\* Every step keeps the types, and the ledger in flight within the chain.
LEMMA StepType == TypeInv /\ [Next]_vars => TypeInv'
<1> SUFFICES ASSUME Values, TargetAhead, [Next]_vars PROVE Values' /\ TargetAhead'
  BY StepFlags DEF TypeInv
<1> USE DEF TargetAhead, Values, diskVars, loopVars, bootVars, stopVars, vars
<1>0. MaxSeq \in Nat /\ WalletMod \in Nat
  BY ConstantsOK
<1>1. pc # "idle" => Cur \in Seqs /\ Cur # 0
  BY <1>0 DEF Cur, Seqs
<1>2. CASE LedgerClosed  BY <1>2, <1>0 DEF LedgerClosed, Seqs
<1>3. CASE Reconnect  BY <1>3 DEF Reconnect, Loop
<1>4. CASE TakeEvent  BY <1>4, <1>0 DEF TakeEvent, Loop, Seqs
<1>5. CASE NoPeerLedger  BY <1>5, <1>0 DEF NoPeerLedger, Loop, Seqs
<1>6. CASE EnterLedger  BY <1>6 DEF EnterLedger, Loop
<1>7. CASE NoMetadata  BY <1>7, <1>0, NoBytesType DEF NoMetadata, Hold, Leave, Loop, Seqs
<1>8. CASE Metadata  BY <1>8, <1>1, WalletsType DEF Metadata, Loop
<1>9. CASE HoldBack  BY <1>9, <1>0, NoBytesType DEF HoldBack, Hold, Leave, Loop, Seqs
<1>10. CASE Propose  BY <1>10, <1>1, BytesType DEF Propose, Loop
<1>11. CASE TakeNetworkBytes  BY <1>11, <1>1, BytesType DEF TakeNetworkBytes, Loop
<1>12. CASE RedoFails  BY <1>12, <1>0, NoBytesType DEF RedoFails, Hold, Leave, Loop, Seqs
<1>13. CASE NoAccountHash  BY <1>13, <1>0, NoBytesType DEF NoAccountHash, Hold, Leave, Loop, Seqs
<1>14. CASE BytesMissing  BY <1>14, <1>0, NoBytesType DEF BytesMissing, Hold, Leave, Loop, Seqs
<1>15. CASE WriteFails  BY <1>15, <1>0, NoBytesType DEF WriteFails, Hold, Leave, Loop, Seqs
<1>16. CASE Write  BY <1>16, <1>1, OverwriteType, PreImagesType DEF Write, Loop
<1>17. CASE Hash  BY <1>17, HasherAfterType DEF Hash, Loop
<1>18. CASE NoRoot
  BY <1>18, <1>0, <1>1, OverwriteType, NoBytesType DEF NoRoot, Hold, Leave, Loop, RollBack, Cur, Seqs
<1>19. CASE Match  BY <1>19, <1>1, ConstantsOK DEF Match, Loop, Tickets
<1>20. CASE Mismatch
  BY <1>20, <1>0, <1>1, OverwriteType DEF Mismatch, Loop, RollBack, RunAfterMismatch, Cur, Seqs
<1>21. CASE UndoFails  BY <1>21 DEF UndoFails, Loop, RunAfterMismatch
<1>22. CASE Redo  BY <1>22, HasherAfterType, NoBytesType DEF Redo, Rehashed, Loop
<1>23. CASE Strike
  BY <1>23, <1>0, HasherAfterType, NoBytesType DEF Strike, Hold, Leave, Rehashed, Loop, Seqs
<1>24. CASE Halt  BY <1>24, HasherAfterType DEF Halt, Rehashed, Loop
<1>25. CASE Land  BY <1>25, <1>0, <1>1, WalletsType, NoBytesType DEF Land, Leave, Loop, Cur, Seqs
<1>26. CASE Sigterm  BY <1>26 DEF Sigterm, Handler
<1>27. CASE Park  BY <1>27 DEF Park, Handler
<1>28. CASE ParkTimeout  BY <1>28 DEF ParkTimeout, Handler
<1>29. CASE WriteTicket  BY <1>29 DEF WriteTicket, Handler
<1>30. CASE WriteMarker  BY <1>30 DEF WriteMarker, Handler
<1>31. CASE Exit  BY <1>31 DEF Exit, Handler
<1>32. CASE Crash  BY <1>32 DEF Crash
<1>33. CASE Boot  BY <1>33 DEF Boot, FreshStop
<1>34. CASE TakeTicket  BY <1>34 DEF TakeTicket
<1>35. CASE Resume
  BY <1>35, <1>0, WalletsOfState, NoBytesType DEF Resume, StartLoop, TicketOK, ResumePoint, Tickets, Seqs
<1>36. CASE Fallback  BY <1>36 DEF Fallback
<1>37. CASE ColdStart
  BY <1>37, <1>0, ConstantsOK, WalletsOfState, NoBytesType DEF ColdStart, StartLoop, FreshStop, Seqs
<1>38. CASE UNCHANGED vars  BY <1>38
<1>39. QED
  BY <1>2, <1>3, <1>4, <1>5, <1>6, <1>7, <1>8, <1>9, <1>10, <1>11, <1>12, <1>13, <1>14, <1>15, <1>16, <1>17, <1>18, <1>19, <1>20, <1>21, <1>22, <1>23, <1>24, <1>25, <1>26, <1>27, <1>28, <1>29, <1>30, <1>31, <1>32, <1>33, <1>34, <1>35, <1>36, <1>37, <1>38
  DEF Next, LoopStep, HandlerStep, StartStep

\* Every variable of the loop keeps its type, for every chain and every bound.
THEOREM TypeCorrect == Spec => []TypeOK
<1>1. Spec => []TypeInv
  BY InitType, StepType, PTL DEF Spec
<1>2. TypeInv => TypeOK
  BY DEF TypeInv, TypeOK, Flags, Values
<1>3. QED
  BY <1>1, <1>2, PTL

-------------------------------------------------------------------------------
(* The store between ledgers *)

\* A ledger is in flight.
InFlight == {"meta", "propose", "process", "written", "hashed", "rolledback", "redo", "landed"}

\* The loop has not written this ledger, or has undone it.
Untouched == {"idle", "next", "parked", "meta", "propose", "process", "redo"}

\* The bookmark names the ledger the loop stands on.
Booked == bookmark = lastSynced \/ (bookmark = None /\ lastSynced = startSeq)

\* The gate is the loop's exactly while a ledger is in flight.
GateInv ==
  /\ proc = "up" => ((gate = "sync") <=> (pc \in InFlight))
  /\ proc = "resuming" => gate # "sync"

\* What the store, its bookmark and the hasher hold at each point of a ledger:
\* after the write, undo leads back to the last verified ledger.
StoreInv ==
  proc = "up" =>
    /\ pc \in Untouched =>
         store = Chain[lastSynced] /\ Booked /\ hasher \in {None, store}
    /\ pc \in {"written", "hashed"} =>
         /\ Overwrite(store, undo) = Chain[lastSynced]
         /\ bookmark = Cur /\ DOMAIN undo = DOMAIN batch
    /\ pc = "written" => hasher \in {None, Chain[lastSynced]}
    /\ pc = "hashed" => hasher = store
    /\ pc = "rolledback" =>
         /\ store = Chain[lastSynced] /\ bookmark = lastSynced
         /\ hasher \in State /\ \A k \in Keys \ DOMAIN undo : hasher[k] = store[k]
    /\ pc = "landed" => store = Chain[Cur] /\ bookmark = Cur /\ hasher = store

IInv == TypeInv /\ GateInv /\ StoreInv

\* The pre-images of a batch lead back to the state it was written on.
LEMMA UndoExact ==
  ASSUME ~ReadErrors, store \in State, NEW b \in Batches, NEW u \in PreImages(b)
  PROVE  Overwrite(Overwrite(store, b), u) = store /\ DOMAIN u = DOMAIN b
<1>1. u = [k \in DOMAIN b |-> store[k]]
  BY DEF PreImages
<1>2. DOMAIN b \subseteq Keys
  BY DEF Batches
<1>3. QED
  BY <1>1, <1>2 DEF Overwrite, State

\* Bringing the hasher to a state it already agrees with elsewhere gives that state.
LEMMA HasherExact ==
  ASSUME ~ReadErrors, NEW s \in State, hasher \in State \cup {None}, NEW keys,
         hasher # None => \A k \in Keys \ keys : hasher[k] = s[k],
         NEW h \in HasherAfter(keys, s)
  PROVE  h = s
<1>1. CASE hasher = None
  BY <1>1 DEF HasherAfter
<1>2. CASE hasher # None
  <2>1. h = [k \in Keys |-> IF k \in keys THEN s[k] ELSE hasher[k]]
    BY <1>2 DEF HasherAfter
  <2>2. QED
    BY <1>2, <2>1 DEF State
<1>3. QED
  BY <1>1, <1>2

\* A batch written over a state changes only the keys it names.
LEMMA OverwriteElsewhere ==
  ASSUME NEW s \in State, NEW b, NEW k \in Keys, k \notin DOMAIN b
  PROVE  Overwrite(s, b)[k] = s[k]
  BY DEF Overwrite

LEMMA InitInv == Init => IInv
  BY InitType DEF Init, IInv, GateInv, StoreInv, InFlight, Untouched, Booked

LEMMA StepGate == TypeInv /\ GateInv /\ [Next]_vars => GateInv'
<1> SUFFICES ASSUME TypeInv, GateInv, [Next]_vars PROVE GateInv'
  OBVIOUS
<1> USE DEF TypeInv, Values, GateInv, InFlight, diskVars, loopVars, bootVars, stopVars, vars
<1>1. CASE LedgerClosed  BY <1>1 DEF LedgerClosed
<1>2. CASE Reconnect  BY <1>2 DEF Reconnect, Loop
<1>3. CASE TakeEvent  BY <1>3 DEF TakeEvent, Loop
<1>4. CASE NoPeerLedger  BY <1>4 DEF NoPeerLedger, Loop
<1>5. CASE EnterLedger  BY <1>5 DEF EnterLedger, Loop
<1>6. CASE NoMetadata  BY <1>6 DEF NoMetadata, Hold, Leave, Loop
<1>7. CASE Metadata  BY <1>7 DEF Metadata, Loop
<1>8. CASE HoldBack  BY <1>8 DEF HoldBack, Hold, Leave, Loop
<1>9. CASE Propose  BY <1>9 DEF Propose, Loop
<1>10. CASE TakeNetworkBytes  BY <1>10 DEF TakeNetworkBytes, Loop
<1>11. CASE RedoFails  BY <1>11 DEF RedoFails, Hold, Leave, Loop
<1>12. CASE NoAccountHash  BY <1>12 DEF NoAccountHash, Hold, Leave, Loop
<1>13. CASE BytesMissing  BY <1>13 DEF BytesMissing, Hold, Leave, Loop
<1>14. CASE WriteFails  BY <1>14 DEF WriteFails, Hold, Leave, Loop
<1>15. CASE Write  BY <1>15 DEF Write, Loop
<1>16. CASE Hash  BY <1>16 DEF Hash, Loop
<1>17. CASE NoRoot  BY <1>17 DEF NoRoot, Hold, Leave, Loop
<1>18. CASE Match  BY <1>18 DEF Match, Loop
<1>19. CASE Mismatch  BY <1>19 DEF Mismatch, Loop
<1>20. CASE UndoFails  BY <1>20 DEF UndoFails, Loop
<1>21. CASE Redo  BY <1>21 DEF Redo, Loop
<1>22. CASE Strike  BY <1>22 DEF Strike, Hold, Leave, Loop
<1>23. CASE Halt  BY <1>23 DEF Halt, Loop
<1>24. CASE Land  BY <1>24 DEF Land, Leave, Loop
<1>25. CASE Sigterm  BY <1>25 DEF Sigterm, Handler
<1>26. CASE Park  BY <1>26 DEF Park, Handler
<1>27. CASE ParkTimeout  BY <1>27 DEF ParkTimeout, Handler
<1>28. CASE WriteTicket  BY <1>28 DEF WriteTicket, Handler
<1>29. CASE WriteMarker  BY <1>29 DEF WriteMarker, Handler
<1>30. CASE Exit  BY <1>30 DEF Exit, Handler
<1>31. CASE Crash  BY <1>31 DEF Crash
<1>32. CASE Boot  BY <1>32 DEF Boot, FreshStop
<1>33. CASE TakeTicket  BY <1>33 DEF TakeTicket
<1>34. CASE Resume  BY <1>34 DEF Resume, StartLoop
<1>35. CASE Fallback  BY <1>35 DEF Fallback
<1>36. CASE ColdStart  BY <1>36 DEF ColdStart, StartLoop, FreshStop
<1>37. CASE UNCHANGED vars  BY <1>37
<1>38. QED
  BY <1>1, <1>2, <1>3, <1>4, <1>5, <1>6, <1>7, <1>8, <1>9, <1>10, <1>11, <1>12, <1>13, <1>14, <1>15, <1>16, <1>17, <1>18, <1>19, <1>20, <1>21, <1>22, <1>23, <1>24, <1>25, <1>26, <1>27, <1>28, <1>29, <1>30, <1>31, <1>32, <1>33, <1>34, <1>35, <1>36, <1>37
  DEF Next, LoopStep, HandlerStep, StartStep

LEMMA StepStore ==
  ASSUME ~ReadErrors, IInv, [Next]_vars
  PROVE  StoreInv'
<1> USE DEF IInv, TypeInv, Values, StoreInv, Untouched, Booked, Cur, diskVars, loopVars, bootVars, stopVars, vars
<1>0. MaxSeq \in Nat /\ None \notin State
  BY ConstantsOK
<1>1. CASE LedgerClosed  BY <1>1 DEF LedgerClosed
<1>2. CASE Reconnect  BY <1>2 DEF Reconnect, Loop
<1>3. CASE TakeEvent  BY <1>3 DEF TakeEvent, Loop
<1>4. CASE NoPeerLedger  BY <1>4 DEF NoPeerLedger, Loop
<1>5. CASE EnterLedger  BY <1>5 DEF EnterLedger, Loop
<1>6. CASE NoMetadata  BY <1>6 DEF NoMetadata, Hold, Leave, Loop
<1>7. CASE Metadata  BY <1>7 DEF Metadata, Loop
<1>8. CASE HoldBack  BY <1>8 DEF HoldBack, Hold, Leave, Loop
<1>9. CASE Propose  BY <1>9 DEF Propose, Loop
<1>10. CASE TakeNetworkBytes  BY <1>10 DEF TakeNetworkBytes, Loop
<1>11. CASE RedoFails  BY <1>11 DEF RedoFails, Hold, Leave, Loop
<1>12. CASE NoAccountHash  BY <1>12 DEF NoAccountHash, Hold, Leave, Loop
<1>13. CASE BytesMissing
  <2>1. proc = "up" /\ pc = "process" /\ pc' = "idle" /\ hasher' = None
    BY <1>13 DEF BytesMissing, Hold, Leave, Loop
  <2>2. UNCHANGED <<store, bookmark, lastSynced, startSeq>>
    BY <1>13 DEF BytesMissing, Hold, Leave
  <2>3. QED
    BY <2>1, <2>2
<1>14. CASE WriteFails  BY <1>14 DEF WriteFails, Hold, Leave, Loop
<1>15. CASE Write
  <2>1. /\ store' = Overwrite(store, batch) /\ undo' \in PreImages(batch)
        /\ Overwrite(store', undo') = store /\ DOMAIN undo' = DOMAIN batch
    BY <1>15, UndoExact DEF Write
  <2>2. store = Chain[lastSynced] /\ hasher \in {None, store}
    BY <1>15 DEF Write, Loop
  <2>3. /\ pc' = "written" /\ bookmark' = lastSynced + 1
        /\ UNCHANGED <<lastSynced, batch, hasher>>
    BY <1>15 DEF Write
  <2>4. QED
    BY <2>1, <2>2, <2>3
<1>16. CASE Hash
  <2>1. /\ Overwrite(store, undo) = Chain[lastSynced] /\ DOMAIN undo = DOMAIN batch
        /\ hasher = None \/ hasher = Chain[lastSynced]
    BY <1>16 DEF Hash, Loop
  <2>2. \A k \in Keys \ DOMAIN batch : Chain[lastSynced][k] = store[k]
    BY <2>1, OverwriteElsewhere
  <2>3. hasher' = store
    BY <1>16, <2>1, <2>2, HasherExact DEF Hash
  <2>4. QED
    BY <1>16, <2>3 DEF Hash, Loop
<1>17. CASE NoRoot  BY <1>17, <1>0 DEF NoRoot, Hold, Leave, Loop, RollBack, Seqs
<1>18. CASE Match  BY <1>18 DEF Match, Loop
<1>19. CASE Mismatch
  <2>1. hasher = store /\ Overwrite(store, undo) = Chain[lastSynced]
    BY <1>19 DEF Mismatch, Loop
  <2>2. \A k \in Keys \ DOMAIN undo : hasher[k] = Chain[lastSynced][k]
    BY <2>1, OverwriteElsewhere
  <2>3. /\ store' = Chain[lastSynced] /\ bookmark' = lastSynced /\ hasher' = hasher
        /\ undo' = undo /\ lastSynced' = lastSynced
    BY <1>19, <1>0, <2>1 DEF Mismatch, RollBack, Seqs
  <2>4. QED
    BY <1>19, <2>1, <2>2, <2>3 DEF Mismatch, Loop
<1>20. CASE UndoFails  BY <1>20 DEF UndoFails, Loop, RunAfterMismatch
<1>21. CASE Redo
  <2>1. hasher \in State /\ \A k \in Keys \ DOMAIN undo : hasher[k] = store[k]
    BY <1>21 DEF Redo, Loop
  <2>2. hasher' = store
    BY <1>21, <2>1, HasherExact DEF Redo, Rehashed
  <2>3. QED
    BY <1>21, <2>2 DEF Redo, Loop
<1>22. CASE Strike
  <2>1. hasher \in State /\ \A k \in Keys \ DOMAIN undo : hasher[k] = store[k]
    BY <1>22 DEF Strike, Loop
  <2>2. hasher' = store
    BY <1>22, <2>1, HasherExact DEF Strike, Rehashed
  <2>3. QED
    BY <1>22, <2>2 DEF Strike, Hold, Leave, Loop
<1>23. CASE Halt
  <2>1. hasher \in State /\ \A k \in Keys \ DOMAIN undo : hasher[k] = store[k]
    BY <1>23 DEF Halt, Loop
  <2>2. hasher' = store
    BY <1>23, <2>1, HasherExact DEF Halt, Rehashed
  <2>3. QED
    BY <1>23, <2>2 DEF Halt, Loop
<1>24. CASE Land  BY <1>24 DEF Land, Leave, Loop
<1>25. CASE Sigterm  BY <1>25 DEF Sigterm, Handler
<1>26. CASE Park  BY <1>26 DEF Park, Handler
<1>27. CASE ParkTimeout  BY <1>27 DEF ParkTimeout, Handler
<1>28. CASE WriteTicket  BY <1>28 DEF WriteTicket, Handler
<1>29. CASE WriteMarker  BY <1>29 DEF WriteMarker, Handler
<1>30. CASE Exit  BY <1>30 DEF Exit, Handler
<1>31. CASE Crash  BY <1>31 DEF Crash
<1>32. CASE Boot  BY <1>32 DEF Boot, FreshStop
<1>33. CASE TakeTicket  BY <1>33 DEF TakeTicket
<1>34. CASE Resume  BY <1>34 DEF Resume, StartLoop, TicketOK, RootOK, ResumePoint
<1>35. CASE Fallback  BY <1>35 DEF Fallback
<1>36. CASE ColdStart  BY <1>36 DEF ColdStart, StartLoop, FreshStop
<1>37. CASE UNCHANGED vars  BY <1>37
<1>38. QED
  BY <1>1, <1>2, <1>3, <1>4, <1>5, <1>6, <1>7, <1>8, <1>9, <1>10, <1>11, <1>12, <1>13, <1>14, <1>15, <1>16, <1>17, <1>18, <1>19, <1>20, <1>21, <1>22, <1>23, <1>24, <1>25, <1>26, <1>27, <1>28, <1>29, <1>30, <1>31, <1>32, <1>33, <1>34, <1>35, <1>36, <1>37
  DEF Next, LoopStep, HandlerStep, StartStep

LEMMA Inductive ==
  ASSUME ~ReadErrors
  PROVE  Spec => []IInv
<1>1. IInv /\ [Next]_vars => IInv'
  BY StepType, StepGate, StepStore DEF IInv
<1>2. QED
  BY InitInv, <1>1, PTL DEF Spec

\* With a database that reads back what it was given, state.rocks holds exactly
\* the ledger last_synced names whenever no ledger is in flight, whatever bytes
\* were tried and rolled back and however the process was stopped and restarted
\* (process_ledger's write, verify, undo; run_warm_resume).
THEOREM StoreIsVerified ==
  ASSUME ~ReadErrors
  PROVE  Spec => []StoreVerified
<1>1. IInv /\ Quiet => pc \in Untouched /\ proc = "up"
  BY DEF IInv, TypeInv, Values, GateInv, InFlight, Untouched, Quiet
<1>2. IInv => StoreVerified
  BY <1>1 DEF IInv, StoreInv, Booked, StoreVerified
<1>3. QED
  BY Inductive, <1>2, PTL

\* The in-memory hasher never keeps a leaf of a ledger that was rolled back
\* (update_only after undo_batch, invalidate_tree).
THEOREM HasherIsCurrent ==
  ASSUME ~ReadErrors
  PROVE  Spec => []HasherTracksStore
<1>1. IInv => HasherTracksStore
  BY DEF IInv, TypeInv, Values, GateInv, StoreInv, InFlight, Untouched, HasherTracksStore, Quiet
<1>2. QED
  BY Inductive, <1>1, PTL

-------------------------------------------------------------------------------
(* The chain the rest of the node sees *)

\* The last ledger the loop verified.
Head == IF pc = "landed" THEN Cur ELSE lastSynced

\* Nothing is ahead of the network.
LiveInv == lastSynced <= live /\ target <= live

\* What the process and its ticket remember is the last ledger verified.
HeadInv ==
  /\ sig = "parked" => gate = "stop"
  /\ lastVerified # None => lastVerified.seq = Head
  /\ ticket # None => ticket.seq = Head
  /\ proc = "up" => ticket = None \/ gate = "stop"
  /\ proc = "resuming" =>
       /\ lastVerified = None
       /\ taken # None => taken.seq = Head /\ ticket = None

ChainInv == TypeInv /\ GateInv /\ LiveInv /\ HeadInv

LEMMA InitChain == Init => ChainInv
  BY InitInv DEF IInv, Init, ChainInv, LiveInv, HeadInv, Seqs

LEMMA StepLive == ChainInv /\ [Next]_vars => LiveInv'
<1> SUFFICES ASSUME ChainInv, [Next]_vars PROVE LiveInv'
  OBVIOUS
<1> USE DEF ChainInv, TypeInv, TargetAhead, Values, LiveInv, Cur, Seqs, diskVars, loopVars, bootVars, stopVars, vars
<1>0. MaxSeq \in Nat
  BY ConstantsOK
<1>1. CASE LedgerClosed  BY <1>1, <1>0 DEF LedgerClosed
<1>2. CASE Reconnect  BY <1>2, <1>0 DEF Reconnect, Loop
<1>3. CASE TakeEvent  BY <1>3, <1>0 DEF TakeEvent, Loop
<1>4. CASE NoPeerLedger  BY <1>4, <1>0 DEF NoPeerLedger, Loop
<1>5. CASE EnterLedger  BY <1>5, <1>0 DEF EnterLedger, Loop
<1>6. CASE NoMetadata  BY <1>6, <1>0 DEF NoMetadata, Hold, Leave, Loop
<1>7. CASE Metadata  BY <1>7, <1>0 DEF Metadata, Loop
<1>8. CASE HoldBack  BY <1>8, <1>0 DEF HoldBack, Hold, Leave, Loop
<1>9. CASE Propose  BY <1>9, <1>0 DEF Propose, Loop
<1>10. CASE TakeNetworkBytes  BY <1>10, <1>0 DEF TakeNetworkBytes, Loop
<1>11. CASE RedoFails  BY <1>11, <1>0 DEF RedoFails, Hold, Leave, Loop
<1>12. CASE NoAccountHash  BY <1>12, <1>0 DEF NoAccountHash, Hold, Leave, Loop
<1>13. CASE BytesMissing  BY <1>13, <1>0 DEF BytesMissing, Hold, Leave, Loop
<1>14. CASE WriteFails  BY <1>14, <1>0 DEF WriteFails, Hold, Leave, Loop
<1>15. CASE Write  BY <1>15, <1>0 DEF Write, Loop
<1>16. CASE Hash  BY <1>16, <1>0 DEF Hash, Loop
<1>17. CASE NoRoot  BY <1>17, <1>0 DEF NoRoot, Hold, Leave, Loop
<1>18. CASE Match  BY <1>18, <1>0 DEF Match, Loop
<1>19. CASE Mismatch  BY <1>19, <1>0 DEF Mismatch, Loop
<1>20. CASE UndoFails  BY <1>20, <1>0 DEF UndoFails, Loop
<1>21. CASE Redo  BY <1>21, <1>0 DEF Redo, Loop
<1>22. CASE Strike  BY <1>22, <1>0 DEF Strike, Hold, Leave, Loop
<1>23. CASE Halt  BY <1>23, <1>0 DEF Halt, Loop
<1>24. CASE Land  BY <1>24, <1>0 DEF Land, Leave, Loop
<1>25. CASE Sigterm  BY <1>25, <1>0 DEF Sigterm, Handler
<1>26. CASE Park  BY <1>26, <1>0 DEF Park, Handler
<1>27. CASE ParkTimeout  BY <1>27, <1>0 DEF ParkTimeout, Handler
<1>28. CASE WriteTicket  BY <1>28, <1>0 DEF WriteTicket, Handler
<1>29. CASE WriteMarker  BY <1>29, <1>0 DEF WriteMarker, Handler
<1>30. CASE Exit  BY <1>30, <1>0 DEF Exit, Handler
<1>31. CASE Crash  BY <1>31, <1>0 DEF Crash
<1>32. CASE Boot  BY <1>32, <1>0 DEF Boot, FreshStop
<1>33. CASE TakeTicket  BY <1>33, <1>0 DEF TakeTicket
<1>34. CASE Resume
  BY <1>34, <1>0 DEF Resume, StartLoop, TicketOK, ResumePoint, HeadInv, Head, Tickets
<1>35. CASE Fallback  BY <1>35, <1>0 DEF Fallback
<1>36. CASE ColdStart  BY <1>36, <1>0 DEF ColdStart, StartLoop, FreshStop
<1>37. CASE UNCHANGED vars  BY <1>37, <1>0
<1>38. QED
  BY <1>1, <1>2, <1>3, <1>4, <1>5, <1>6, <1>7, <1>8, <1>9, <1>10, <1>11, <1>12, <1>13, <1>14, <1>15, <1>16, <1>17, <1>18, <1>19, <1>20, <1>21, <1>22, <1>23, <1>24, <1>25, <1>26, <1>27, <1>28, <1>29, <1>30, <1>31, <1>32, <1>33, <1>34, <1>35, <1>36, <1>37
  DEF Next, LoopStep, HandlerStep, StartStep

LEMMA StepHead == ChainInv /\ [Next]_vars => HeadInv'
<1> SUFFICES ASSUME ChainInv, [Next]_vars PROVE HeadInv'
  OBVIOUS
<1> USE DEF ChainInv, TypeInv, Values, GateInv, InFlight, HeadInv, Head, Cur, diskVars, loopVars, bootVars, stopVars, vars
<1>1. CASE LedgerClosed  BY <1>1 DEF LedgerClosed
<1>2. CASE Reconnect  BY <1>2 DEF Reconnect, Loop
<1>3. CASE TakeEvent  BY <1>3 DEF TakeEvent, Loop
<1>4. CASE NoPeerLedger  BY <1>4 DEF NoPeerLedger, Loop
<1>5. CASE EnterLedger  BY <1>5 DEF EnterLedger, Loop
<1>6. CASE NoMetadata  BY <1>6 DEF NoMetadata, Hold, Leave, Loop
<1>7. CASE Metadata  BY <1>7 DEF Metadata, Loop
<1>8. CASE HoldBack  BY <1>8 DEF HoldBack, Hold, Leave, Loop
<1>9. CASE Propose  BY <1>9 DEF Propose, Loop
<1>10. CASE TakeNetworkBytes  BY <1>10 DEF TakeNetworkBytes, Loop
<1>11. CASE RedoFails  BY <1>11 DEF RedoFails, Hold, Leave, Loop
<1>12. CASE NoAccountHash  BY <1>12 DEF NoAccountHash, Hold, Leave, Loop
<1>13. CASE BytesMissing  BY <1>13 DEF BytesMissing, Hold, Leave, Loop
<1>14. CASE WriteFails  BY <1>14 DEF WriteFails, Hold, Leave, Loop
<1>15. CASE Write  BY <1>15 DEF Write, Loop
<1>16. CASE Hash  BY <1>16 DEF Hash, Loop
<1>17. CASE NoRoot  BY <1>17 DEF NoRoot, Hold, Leave, Loop
<1>18. CASE Match  BY <1>18 DEF Match, Loop
<1>19. CASE Mismatch  BY <1>19 DEF Mismatch, Loop
<1>20. CASE UndoFails  BY <1>20 DEF UndoFails, Loop
<1>21. CASE Redo  BY <1>21 DEF Redo, Loop
<1>22. CASE Strike  BY <1>22 DEF Strike, Hold, Leave, Loop
<1>23. CASE Halt  BY <1>23 DEF Halt, Loop
<1>24. CASE Land  BY <1>24 DEF Land, Leave, Loop
<1>25. CASE Sigterm  BY <1>25 DEF Sigterm, Handler
<1>26. CASE Park  BY <1>26 DEF Park, Handler
<1>27. CASE ParkTimeout  BY <1>27 DEF ParkTimeout, Handler
<1>28. CASE WriteTicket  BY <1>28 DEF WriteTicket, Handler
<1>29. CASE WriteMarker  BY <1>29 DEF WriteMarker, Handler
<1>30. CASE Exit  BY <1>30 DEF Exit, Handler
<1>31. CASE Crash  BY <1>31 DEF Crash
<1>32. CASE Boot  BY <1>32 DEF Boot, FreshStop
<1>33. CASE TakeTicket  BY <1>33 DEF TakeTicket
<1>34. CASE Resume  BY <1>34 DEF Resume, StartLoop, TicketOK, ResumePoint
<1>35. CASE Fallback  BY <1>35 DEF Fallback
<1>36. CASE ColdStart  BY <1>36 DEF ColdStart, StartLoop, FreshStop
<1>37. CASE UNCHANGED vars  BY <1>37
<1>38. QED
  BY <1>1, <1>2, <1>3, <1>4, <1>5, <1>6, <1>7, <1>8, <1>9, <1>10, <1>11, <1>12, <1>13, <1>14, <1>15, <1>16, <1>17, <1>18, <1>19, <1>20, <1>21, <1>22, <1>23, <1>24, <1>25, <1>26, <1>27, <1>28, <1>29, <1>30, <1>31, <1>32, <1>33, <1>34, <1>35, <1>36, <1>37
  DEF Next, LoopStep, HandlerStep, StartStep

LEMMA ChainInductive == Spec => []ChainInv
<1>1. ChainInv /\ [Next]_vars => ChainInv'
  BY StepType, StepGate, StepLive, StepHead DEF ChainInv
<1>2. QED
  BY InitChain, <1>1, PTL DEF Spec

\* A step of the loop is a step of the verified chain, or none.
LEMMA StepRefines ==
  ASSUME ChainInv, ChainInv', [Next]_vars
  PROVE  [Abs!ChainNext]_(Abs!chainVars)
<1> USE DEF ChainInv, TypeInv, Values, Abs!Running, diskVars, loopVars, bootVars, stopVars, vars
<1>0. MaxSeq \in Nat
  BY ConstantsOK
<1>1. CASE LedgerClosed  BY <1>1 DEF LedgerClosed, Cur, Abs!chainVars
<1>2. CASE Reconnect  BY <1>2 DEF Reconnect, Loop, Cur, Abs!chainVars
<1>3. CASE TakeEvent  BY <1>3 DEF TakeEvent, Loop, Cur, Abs!chainVars
<1>4. CASE NoPeerLedger  BY <1>4 DEF NoPeerLedger, Loop, Cur, Abs!chainVars
<1>5. CASE EnterLedger  BY <1>5 DEF EnterLedger, Loop, Cur, Abs!chainVars
<1>6. CASE NoMetadata  BY <1>6 DEF NoMetadata, Hold, Leave, Loop, Cur, Abs!chainVars
<1>7. CASE Metadata  BY <1>7 DEF Metadata, Loop, Cur, Abs!chainVars
<1>8. CASE HoldBack  BY <1>8 DEF HoldBack, Hold, Leave, Loop, Cur, Abs!chainVars
<1>9. CASE Propose  BY <1>9 DEF Propose, Loop, Cur, Abs!chainVars
<1>10. CASE TakeNetworkBytes  BY <1>10 DEF TakeNetworkBytes, Loop, Cur, Abs!chainVars
<1>11. CASE RedoFails  BY <1>11 DEF RedoFails, Hold, Leave, Loop, Cur, Abs!chainVars
<1>12. CASE NoAccountHash  BY <1>12 DEF NoAccountHash, Hold, Leave, Loop, Cur, Abs!chainVars
<1>13. CASE BytesMissing  BY <1>13 DEF BytesMissing, Hold, Leave, Loop, Cur, Abs!chainVars
<1>14. CASE WriteFails  BY <1>14 DEF WriteFails, Hold, Leave, Loop, Cur, Abs!chainVars
<1>15. CASE Write  BY <1>15 DEF Write, Loop, Cur, Abs!chainVars
<1>16. CASE Hash  BY <1>16 DEF Hash, Loop, Cur, Abs!chainVars
<1>17. CASE NoRoot  BY <1>17 DEF NoRoot, Hold, Leave, Loop, Cur, Abs!chainVars
<1>18. CASE Match
  <2>1. lastSynced < target /\ target <= MaxSeq
    BY <1>18 DEF Match, Loop, TargetAhead, Seqs
  <2>2. Abs!Verify
    BY <1>18, <1>0, <2>1 DEF Match, Loop, Cur, Seqs, Abs!Verify
  <2>3. QED
    BY <2>2 DEF Abs!ChainNext
<1>19. CASE Mismatch
  <2>1. CASE trial
    BY <1>19, <2>1 DEF Mismatch, Loop, RunAfterMismatch, Cur, Abs!chainVars
  <2>2. CASE ~trial
    <3>1. Abs!Reject
      BY <1>19, <2>2 DEF Mismatch, Loop, RunAfterMismatch, Cur, Abs!Reject
    <3>2. QED
      BY <3>1 DEF Abs!ChainNext
  <2>3. QED
    BY <2>1, <2>2
<1>20. CASE UndoFails
  <2>1. CASE proc = "up"
    <3>1. Abs!Leave
      BY <1>20, <2>1 DEF UndoFails, Loop, RunAfterMismatch, Cur, Abs!Leave
    <3>2. QED
      BY <3>1 DEF Abs!ChainNext
  <2>2. CASE proc # "up"
    BY <1>20, <2>2 DEF UndoFails, Loop, RunAfterMismatch, Cur, Abs!chainVars
  <2>3. QED
    BY <2>1, <2>2
<1>21. CASE Redo  BY <1>21 DEF Redo, Loop, Cur, Abs!chainVars
<1>22. CASE Strike  BY <1>22 DEF Strike, Hold, Leave, Loop, Cur, Abs!chainVars
<1>23. CASE Halt
  <2>1. CASE proc = "up"
    <3>1. Abs!Leave
      BY <1>23, <2>1 DEF Halt, Loop, Rehashed, Cur, Abs!Leave
    <3>2. QED
      BY <3>1 DEF Abs!ChainNext
  <2>2. CASE proc # "up"
    BY <1>23, <2>2 DEF Halt, Loop, Rehashed, Cur, Abs!chainVars
  <2>3. QED
    BY <2>1, <2>2
<1>24. CASE Land  BY <1>24 DEF Land, Leave, Loop, Cur, Abs!chainVars
<1>25. CASE Sigterm  BY <1>25 DEF Sigterm, Handler, Cur, Abs!chainVars
<1>26. CASE Park  BY <1>26 DEF Park, Handler, Cur, Abs!chainVars
<1>27. CASE ParkTimeout  BY <1>27 DEF ParkTimeout, Handler, Cur, Abs!chainVars
<1>28. CASE WriteTicket  BY <1>28 DEF WriteTicket, Handler, Cur, Abs!chainVars
<1>29. CASE WriteMarker  BY <1>29 DEF WriteMarker, Handler, Cur, Abs!chainVars
<1>30. CASE Exit
  <2>1. CASE proc = "up"
    <3>1. Abs!Leave
      BY <1>30, <2>1 DEF Exit, Handler, Cur, Abs!Leave
    <3>2. QED
      BY <3>1 DEF Abs!ChainNext
  <2>2. CASE proc # "up"
    BY <1>30, <2>2 DEF Exit, Handler, Cur, Abs!chainVars
  <2>3. QED
    BY <2>1, <2>2
<1>31. CASE Crash
  <2>1. CASE proc = "up"
    <3>1. Abs!Leave
      BY <1>31, <2>1 DEF Crash, Cur, Abs!Leave
    <3>2. QED
      BY <3>1 DEF Abs!ChainNext
  <2>2. CASE proc # "up"
    BY <1>31, <2>2 DEF Crash, Cur, Abs!chainVars
  <2>3. QED
    BY <2>1, <2>2
<1>32. CASE Boot  BY <1>32 DEF Boot, FreshStop, Cur, Abs!chainVars
<1>33. CASE TakeTicket  BY <1>33 DEF TakeTicket, Cur, Abs!chainVars
<1>34. CASE Resume
  <2>1. Abs!Return
    BY <1>34 DEF Resume, StartLoop, TicketOK, ResumePoint, HeadInv, Head, Cur, Abs!Return
  <2>2. QED
    BY <2>1 DEF Abs!ChainNext
<1>35. CASE Fallback  BY <1>35 DEF Fallback, Cur, Abs!chainVars
<1>36. CASE ColdStart
  <2>1. Head \in Nat /\ Head <= live /\ live <= MaxSeq
    BY <1>0 DEF Head, Cur, LiveInv, TargetAhead, Seqs
  <2>2. Abs!StartOver
    BY <1>36, <1>0, <2>1 DEF ColdStart, StartLoop, Head, Cur, Seqs, Abs!StartOver
  <2>3. QED
    BY <2>2 DEF Abs!ChainNext
<1>37. CASE UNCHANGED vars  BY <1>37 DEF Cur, Abs!chainVars
<1>38. QED
  BY <1>1, <1>2, <1>3, <1>4, <1>5, <1>6, <1>7, <1>8, <1>9, <1>10, <1>11, <1>12, <1>13, <1>14, <1>15, <1>16, <1>17, <1>18, <1>19, <1>20, <1>21, <1>22, <1>23, <1>24, <1>25, <1>26, <1>27, <1>28, <1>29, <1>30, <1>31, <1>32, <1>33, <1>34, <1>35, <1>36, <1>37
  DEF Next, LoopStep, HandlerStep, StartStep

\* The loop, with its rollbacks, crashes, stops and restarts, is the verified
\* chain: it verifies one ledger after the other, none twice and none skipped, and
\* a warm start stands where the store was left (start_ws_sync, run_warm_resume).
THEOREM ImplementsChain == Spec => ImplementsVerifiedChain
<1>1. Init => Abs!ChainInit
  BY DEF Init, Abs!ChainInit
<1>2. ChainInv /\ ChainInv' /\ [Next]_vars => [Abs!ChainNext]_(Abs!chainVars)
  BY StepRefines
<1>3. QED
  BY <1>1, <1>2, ChainInductive, PTL DEF Spec, ImplementsVerifiedChain, Abs!ChainSpec

-------------------------------------------------------------------------------
(* The stop *)

LEMMA StepFrozen ==
  ASSUME TypeInv, GateInv, [Next]_vars, gate = "stop", proc # "down"
  PROVE  UNCHANGED <<store, bookmark>>
<1> USE DEF TypeInv, Values, GateInv, InFlight, diskVars, loopVars, bootVars, stopVars, vars
<1>1. CASE LedgerClosed  BY <1>1 DEF LedgerClosed
<1>2. CASE Reconnect  BY <1>2 DEF Reconnect, Loop
<1>3. CASE TakeEvent  BY <1>3 DEF TakeEvent, Loop
<1>4. CASE NoPeerLedger  BY <1>4 DEF NoPeerLedger, Loop
<1>5. CASE EnterLedger  BY <1>5 DEF EnterLedger, Loop
<1>6. CASE NoMetadata  BY <1>6 DEF NoMetadata, Hold, Leave, Loop
<1>7. CASE Metadata  BY <1>7 DEF Metadata, Loop
<1>8. CASE HoldBack  BY <1>8 DEF HoldBack, Hold, Leave, Loop
<1>9. CASE Propose  BY <1>9 DEF Propose, Loop
<1>10. CASE TakeNetworkBytes  BY <1>10 DEF TakeNetworkBytes, Loop
<1>11. CASE RedoFails  BY <1>11 DEF RedoFails, Hold, Leave, Loop
<1>12. CASE NoAccountHash  BY <1>12 DEF NoAccountHash, Hold, Leave, Loop
<1>13. CASE BytesMissing  BY <1>13 DEF BytesMissing, Hold, Leave, Loop
<1>14. CASE WriteFails  BY <1>14 DEF WriteFails, Hold, Leave, Loop
<1>15. CASE Write  BY <1>15 DEF Write, Loop
<1>16. CASE Hash  BY <1>16 DEF Hash, Loop
<1>17. CASE NoRoot  BY <1>17 DEF NoRoot, Hold, Leave, Loop
<1>18. CASE Match  BY <1>18 DEF Match, Loop
<1>19. CASE Mismatch  BY <1>19 DEF Mismatch, Loop
<1>20. CASE UndoFails  BY <1>20 DEF UndoFails, Loop
<1>21. CASE Redo  BY <1>21 DEF Redo, Loop
<1>22. CASE Strike  BY <1>22 DEF Strike, Hold, Leave, Loop
<1>23. CASE Halt  BY <1>23 DEF Halt, Loop
<1>24. CASE Land  BY <1>24 DEF Land, Leave, Loop
<1>25. CASE Sigterm  BY <1>25 DEF Sigterm, Handler
<1>26. CASE Park  BY <1>26 DEF Park, Handler
<1>27. CASE ParkTimeout  BY <1>27 DEF ParkTimeout, Handler
<1>28. CASE WriteTicket  BY <1>28 DEF WriteTicket, Handler
<1>29. CASE WriteMarker  BY <1>29 DEF WriteMarker, Handler
<1>30. CASE Exit  BY <1>30 DEF Exit, Handler
<1>31. CASE Crash  BY <1>31 DEF Crash
<1>32. CASE Boot  BY <1>32 DEF Boot
<1>33. CASE TakeTicket  BY <1>33 DEF TakeTicket
<1>34. CASE Resume  BY <1>34 DEF Resume
<1>35. CASE Fallback  BY <1>35 DEF Fallback
<1>36. CASE ColdStart  BY <1>36 DEF ColdStart
<1>37. CASE UNCHANGED vars  BY <1>37
<1>38. QED
  BY <1>1, <1>2, <1>3, <1>4, <1>5, <1>6, <1>7, <1>8, <1>9, <1>10, <1>11, <1>12, <1>13, <1>14, <1>15, <1>16, <1>17, <1>18, <1>19, <1>20, <1>21, <1>22, <1>23, <1>24, <1>25, <1>26, <1>27, <1>28, <1>29, <1>30, <1>31, <1>32, <1>33, <1>34, <1>35, <1>36, <1>37
  DEF Next, LoopStep, HandlerStep, StartStep

\* Once the SIGTERM handler holds the gate nothing writes the store again
\* (request_stop_and_park forgets the guard, enter_ledger waits for it).
THEOREM StopFreezesStore == Spec => ParkedStoreFrozen
<1>1. ChainInv /\ [Next]_vars => ((gate = "stop" /\ proc # "down") => UNCHANGED <<store, bookmark>>)
  BY StepFrozen DEF ChainInv
<1>2. ChainInv /\ [Next]_vars => [(gate = "stop" /\ proc # "down") => UNCHANGED <<store, bookmark>>]_vars
  BY <1>1
<1>3. QED
  BY <1>2, ChainInductive, PTL DEF Spec, ParkedStoreFrozen

\* With every stop parked: once the handler is past parking it holds the gate.
SigInv == sig \in {"parked", "marking", "exiting"} => gate = "stop"

\* The store is a verified ledger, the one the bookmark names.
OnVerified == store = Chain[IF bookmark = None THEN startSeq ELSE bookmark]

\* A process that has the marker, or may write it, has a verified store.
MarkInv ==
  /\ proc = "down" /\ marker => OnVerified
  /\ proc = "resuming" => OnVerified
  /\ proc # "down" /\ marker => gate = "stop"

LEMMA InitMark == Init => SigInv /\ MarkInv
  BY DEF Init, SigInv, MarkInv

LEMMA StepSig ==
  ASSUME ~ParkTimesOut, TypeInv, GateInv, SigInv, [Next]_vars
  PROVE  SigInv'
<1> USE DEF TypeInv, Values, GateInv, InFlight, SigInv, diskVars, loopVars, bootVars, stopVars, vars
<1>1. CASE LedgerClosed  BY <1>1 DEF LedgerClosed
<1>2. CASE Reconnect  BY <1>2 DEF Reconnect, Loop
<1>3. CASE TakeEvent  BY <1>3 DEF TakeEvent, Loop
<1>4. CASE NoPeerLedger  BY <1>4 DEF NoPeerLedger, Loop
<1>5. CASE EnterLedger  BY <1>5 DEF EnterLedger, Loop
<1>6. CASE NoMetadata  BY <1>6 DEF NoMetadata, Hold, Leave, Loop
<1>7. CASE Metadata  BY <1>7 DEF Metadata, Loop
<1>8. CASE HoldBack  BY <1>8 DEF HoldBack, Hold, Leave, Loop
<1>9. CASE Propose  BY <1>9 DEF Propose, Loop
<1>10. CASE TakeNetworkBytes  BY <1>10 DEF TakeNetworkBytes, Loop
<1>11. CASE RedoFails  BY <1>11 DEF RedoFails, Hold, Leave, Loop
<1>12. CASE NoAccountHash  BY <1>12 DEF NoAccountHash, Hold, Leave, Loop
<1>13. CASE BytesMissing  BY <1>13 DEF BytesMissing, Hold, Leave, Loop
<1>14. CASE WriteFails  BY <1>14 DEF WriteFails, Hold, Leave, Loop
<1>15. CASE Write  BY <1>15 DEF Write, Loop
<1>16. CASE Hash  BY <1>16 DEF Hash, Loop
<1>17. CASE NoRoot  BY <1>17 DEF NoRoot, Hold, Leave, Loop
<1>18. CASE Match  BY <1>18 DEF Match, Loop
<1>19. CASE Mismatch  BY <1>19 DEF Mismatch, Loop
<1>20. CASE UndoFails  BY <1>20 DEF UndoFails, Loop
<1>21. CASE Redo  BY <1>21 DEF Redo, Loop
<1>22. CASE Strike  BY <1>22 DEF Strike, Hold, Leave, Loop
<1>23. CASE Halt  BY <1>23 DEF Halt, Loop
<1>24. CASE Land  BY <1>24 DEF Land, Leave, Loop
<1>25. CASE Sigterm  BY <1>25 DEF Sigterm, Handler
<1>26. CASE Park  BY <1>26 DEF Park, Handler
<1>27. CASE ParkTimeout  BY <1>27 DEF ParkTimeout, Handler
<1>28. CASE WriteTicket  BY <1>28 DEF WriteTicket, Handler
<1>29. CASE WriteMarker  BY <1>29 DEF WriteMarker, Handler
<1>30. CASE Exit  BY <1>30 DEF Exit, Handler
<1>31. CASE Crash  BY <1>31 DEF Crash
<1>32. CASE Boot  BY <1>32 DEF Boot, FreshStop
<1>33. CASE TakeTicket  BY <1>33 DEF TakeTicket
<1>34. CASE Resume  BY <1>34 DEF Resume, StartLoop, ResumePoint
<1>35. CASE Fallback  BY <1>35 DEF Fallback
<1>36. CASE ColdStart  BY <1>36 DEF ColdStart, StartLoop, FreshStop
<1>37. CASE UNCHANGED vars  BY <1>37
<1>38. QED
  BY <1>1, <1>2, <1>3, <1>4, <1>5, <1>6, <1>7, <1>8, <1>9, <1>10, <1>11, <1>12, <1>13, <1>14, <1>15, <1>16, <1>17, <1>18, <1>19, <1>20, <1>21, <1>22, <1>23, <1>24, <1>25, <1>26, <1>27, <1>28, <1>29, <1>30, <1>31, <1>32, <1>33, <1>34, <1>35, <1>36, <1>37
  DEF Next, LoopStep, HandlerStep, StartStep

\* A loop that holds no ledger stands on a verified store.
LEMMA StoppedIsVerified ==
  ASSUME IInv, proc = "up", gate # "sync"
  PROVE  OnVerified
<1>1. pc \in Untouched
  BY DEF IInv, TypeInv, Values, GateInv, InFlight, Untouched
<1>2. store = Chain[lastSynced] /\ Booked /\ lastSynced # None
  BY <1>1, ConstantsOK DEF IInv, TypeInv, Values, StoreInv, Seqs
<1>3. QED
  BY <1>2 DEF OnVerified, Booked

LEMMA StepMark ==
  ASSUME ~ForceStart, IInv, SigInv, MarkInv, [Next]_vars
  PROVE  MarkInv'
<1> USE DEF IInv, TypeInv, Values, GateInv, InFlight, SigInv, MarkInv, OnVerified, diskVars, loopVars, bootVars, stopVars, vars
<1>0. proc = "up" /\ gate = "stop" => OnVerified
  BY StoppedIsVerified
<1>1. CASE LedgerClosed  BY <1>1, <1>0 DEF LedgerClosed
<1>2. CASE Reconnect  BY <1>2, <1>0 DEF Reconnect, Loop
<1>3. CASE TakeEvent  BY <1>3, <1>0 DEF TakeEvent, Loop
<1>4. CASE NoPeerLedger  BY <1>4, <1>0 DEF NoPeerLedger, Loop
<1>5. CASE EnterLedger  BY <1>5, <1>0 DEF EnterLedger, Loop
<1>6. CASE NoMetadata  BY <1>6, <1>0 DEF NoMetadata, Hold, Leave, Loop
<1>7. CASE Metadata  BY <1>7, <1>0 DEF Metadata, Loop
<1>8. CASE HoldBack  BY <1>8, <1>0 DEF HoldBack, Hold, Leave, Loop
<1>9. CASE Propose  BY <1>9, <1>0 DEF Propose, Loop
<1>10. CASE TakeNetworkBytes  BY <1>10, <1>0 DEF TakeNetworkBytes, Loop
<1>11. CASE RedoFails  BY <1>11, <1>0 DEF RedoFails, Hold, Leave, Loop
<1>12. CASE NoAccountHash  BY <1>12, <1>0 DEF NoAccountHash, Hold, Leave, Loop
<1>13. CASE BytesMissing  BY <1>13, <1>0 DEF BytesMissing, Hold, Leave, Loop
<1>14. CASE WriteFails  BY <1>14, <1>0 DEF WriteFails, Hold, Leave, Loop
<1>15. CASE Write  BY <1>15, <1>0 DEF Write, Loop
<1>16. CASE Hash  BY <1>16, <1>0 DEF Hash, Loop
<1>17. CASE NoRoot  BY <1>17, <1>0 DEF NoRoot, Hold, Leave, Loop
<1>18. CASE Match  BY <1>18, <1>0 DEF Match, Loop
<1>19. CASE Mismatch  BY <1>19, <1>0 DEF Mismatch, Loop
<1>20. CASE UndoFails  BY <1>20, <1>0 DEF UndoFails, Loop
<1>21. CASE Redo  BY <1>21, <1>0 DEF Redo, Loop
<1>22. CASE Strike  BY <1>22, <1>0 DEF Strike, Hold, Leave, Loop
<1>23. CASE Halt  BY <1>23, <1>0 DEF Halt, Loop
<1>24. CASE Land  BY <1>24, <1>0 DEF Land, Leave, Loop
<1>25. CASE Sigterm  BY <1>25, <1>0 DEF Sigterm, Handler
<1>26. CASE Park  BY <1>26, <1>0 DEF Park, Handler
<1>27. CASE ParkTimeout  BY <1>27, <1>0 DEF ParkTimeout, Handler
<1>28. CASE WriteTicket  BY <1>28, <1>0 DEF WriteTicket, Handler
<1>29. CASE WriteMarker  BY <1>29, <1>0 DEF WriteMarker, Handler
<1>30. CASE Exit  BY <1>30, <1>0 DEF Exit, Handler
<1>31. CASE Crash  BY <1>31, <1>0 DEF Crash
<1>32. CASE Boot  BY <1>32, <1>0 DEF Boot, FreshStop
<1>33. CASE TakeTicket  BY <1>33, <1>0 DEF TakeTicket
<1>34. CASE Resume  BY <1>34, <1>0 DEF Resume, StartLoop, ResumePoint
<1>35. CASE Fallback  BY <1>35, <1>0 DEF Fallback
<1>36. CASE ColdStart  BY <1>36, <1>0 DEF ColdStart, StartLoop, FreshStop
<1>37. CASE UNCHANGED vars  BY <1>37, <1>0
<1>38. QED
  BY <1>1, <1>2, <1>3, <1>4, <1>5, <1>6, <1>7, <1>8, <1>9, <1>10, <1>11, <1>12, <1>13, <1>14, <1>15, <1>16, <1>17, <1>18, <1>19, <1>20, <1>21, <1>22, <1>23, <1>24, <1>25, <1>26, <1>27, <1>28, <1>29, <1>30, <1>31, <1>32, <1>33, <1>34, <1>35, <1>36, <1>37
  DEF Next, LoopStep, HandlerStep, StartStep

\* If every stop parks and no start is forced, the clean-shutdown marker means
\* what startup.rs says: the store is a verified ledger.
THEOREM MarkerMeansVerified ==
  ASSUME ~ReadErrors, ~ParkTimesOut, ~ForceStart
  PROVE  Spec => []CleanMarkerMeansVerified
<1>1. IInv /\ SigInv /\ MarkInv /\ [Next]_vars => SigInv' /\ MarkInv'
  BY StepSig, StepMark DEF IInv
<1>2. MarkInv => CleanMarkerMeansVerified
  BY DEF MarkInv, OnVerified, CleanMarkerMeansVerified
<1>3. QED
  BY Inductive, InitMark, <1>1, <1>2, PTL DEF Spec

-------------------------------------------------------------------------------
(* The ticket *)

\* A ticket on disk holds the store it was written for.
TicketInv ==
  /\ lastVerified # None => lastVerified.root = Chain[lastVerified.seq]
  /\ ticket # None => ticket.root = store /\ ticket.root = Chain[ticket.seq]

LEMMA StepTicket ==
  ASSUME IInv, ChainInv, TicketInv, [Next]_vars
  PROVE  TicketInv'
<1> USE DEF IInv, ChainInv, TypeInv, Values, GateInv, InFlight, HeadInv, TicketInv, diskVars, loopVars, bootVars, stopVars, vars
<1>1. CASE LedgerClosed  BY <1>1 DEF LedgerClosed
<1>2. CASE Reconnect  BY <1>2 DEF Reconnect, Loop
<1>3. CASE TakeEvent  BY <1>3 DEF TakeEvent, Loop
<1>4. CASE NoPeerLedger  BY <1>4 DEF NoPeerLedger, Loop
<1>5. CASE EnterLedger  BY <1>5 DEF EnterLedger, Loop
<1>6. CASE NoMetadata  BY <1>6 DEF NoMetadata, Hold, Leave, Loop
<1>7. CASE Metadata  BY <1>7 DEF Metadata, Loop
<1>8. CASE HoldBack  BY <1>8 DEF HoldBack, Hold, Leave, Loop
<1>9. CASE Propose  BY <1>9 DEF Propose, Loop
<1>10. CASE TakeNetworkBytes  BY <1>10 DEF TakeNetworkBytes, Loop
<1>11. CASE RedoFails  BY <1>11 DEF RedoFails, Hold, Leave, Loop
<1>12. CASE NoAccountHash  BY <1>12 DEF NoAccountHash, Hold, Leave, Loop
<1>13. CASE BytesMissing  BY <1>13 DEF BytesMissing, Hold, Leave, Loop
<1>14. CASE WriteFails  BY <1>14 DEF WriteFails, Hold, Leave, Loop
<1>15. CASE Write  BY <1>15 DEF Write, Loop
<1>16. CASE Hash  BY <1>16 DEF Hash, Loop
<1>17. CASE NoRoot  BY <1>17 DEF NoRoot, Hold, Leave, Loop
<1>18. CASE Match  BY <1>18, ConstantsOK DEF Match, Loop, Cur
<1>19. CASE Mismatch  BY <1>19 DEF Mismatch, Loop
<1>20. CASE UndoFails  BY <1>20 DEF UndoFails, Loop
<1>21. CASE Redo  BY <1>21 DEF Redo, Loop
<1>22. CASE Strike  BY <1>22 DEF Strike, Hold, Leave, Loop
<1>23. CASE Halt  BY <1>23 DEF Halt, Loop
<1>24. CASE Land  BY <1>24 DEF Land, Leave, Loop
<1>25. CASE Sigterm  BY <1>25 DEF Sigterm, Handler
<1>26. CASE Park  BY <1>26 DEF Park, Handler
<1>27. CASE ParkTimeout  BY <1>27 DEF ParkTimeout, Handler
<1>28. CASE WriteTicket
  <2>1. CASE ticket' = ticket
    BY <1>28, <2>1 DEF WriteTicket
  <2>2. CASE ticket' # ticket
    <3>1. /\ lastVerified # None /\ ticket' = lastVerified /\ gate = "stop"
          /\ proc # "down" /\ UNCHANGED <<store, lastVerified>>
      BY <1>28, <2>2 DEF WriteTicket, Handler
    <3>2. proc = "up" /\ pc \in Untouched
      BY <3>1 DEF Untouched
    <3>3. store = Chain[lastSynced] /\ Head = lastSynced
      BY <3>2 DEF StoreInv, Untouched, Head
    <3>4. QED
      BY <3>1, <3>3
  <2>3. QED
    BY <2>1, <2>2
<1>29. CASE WriteMarker  BY <1>29 DEF WriteMarker, Handler
<1>30. CASE Exit  BY <1>30 DEF Exit, Handler
<1>31. CASE Crash  BY <1>31 DEF Crash
<1>32. CASE Boot  BY <1>32 DEF Boot, FreshStop
<1>33. CASE TakeTicket  BY <1>33 DEF TakeTicket
<1>34. CASE Resume  BY <1>34 DEF Resume, StartLoop, ResumePoint
<1>35. CASE Fallback  BY <1>35 DEF Fallback
<1>36. CASE ColdStart  BY <1>36 DEF ColdStart, StartLoop, FreshStop
<1>37. CASE UNCHANGED vars  BY <1>37
<1>38. QED
  BY <1>1, <1>2, <1>3, <1>4, <1>5, <1>6, <1>7, <1>8, <1>9, <1>10, <1>11, <1>12, <1>13, <1>14, <1>15, <1>16, <1>17, <1>18, <1>19, <1>20, <1>21, <1>22, <1>23, <1>24, <1>25, <1>26, <1>27, <1>28, <1>29, <1>30, <1>31, <1>32, <1>33, <1>34, <1>35, <1>36, <1>37
  DEF Next, LoopStep, HandlerStep, StartStep

\* A ticket that check_ticket accepts is for the very state in the store, and
\* for the ledger it names: check_root only confirms it.
THEOREM TicketIsForStore ==
  ASSUME ~ReadErrors
  PROVE  Spec => []TicketNamesStore
<1>1. Init => TicketInv
  BY DEF Init, TicketInv
<1>2. IInv /\ ChainInv /\ TicketInv /\ [Next]_vars => TicketInv'
  BY StepTicket
<1>3. TicketInv => TicketNamesStore
  BY DEF TicketInv, TicketNamesStore
<1>4. QED
  BY Inductive, ChainInductive, <1>1, <1>2, <1>3, PTL DEF Spec

-------------------------------------------------------------------------------
(* The signing run *)

\* Before its first verified ledger a process stands where it started.
RunInv ==
  proc = "up" =>
    /\ lastVerified = None => matches = 0 /\ Head = startSeq
    /\ lastVerified # None => matches <= Head - startSeq

LEMMA StepRun ==
  ASSUME ChainInv, RunInv, [Next]_vars
  PROVE  RunInv'
<1> USE DEF ChainInv, TypeInv, Values, HeadInv, Head, Cur, RunInv, Seqs, diskVars, loopVars, bootVars, stopVars, vars
<1>0. MaxSeq \in Nat
  BY ConstantsOK
<1>1. CASE LedgerClosed  BY <1>1, <1>0 DEF LedgerClosed
<1>2. CASE Reconnect  BY <1>2, <1>0 DEF Reconnect, Loop
<1>3. CASE TakeEvent  BY <1>3, <1>0 DEF TakeEvent, Loop
<1>4. CASE NoPeerLedger  BY <1>4, <1>0 DEF NoPeerLedger, Loop
<1>5. CASE EnterLedger  BY <1>5, <1>0 DEF EnterLedger, Loop
<1>6. CASE NoMetadata  BY <1>6, <1>0 DEF NoMetadata, Hold, Leave, Loop
<1>7. CASE Metadata  BY <1>7, <1>0 DEF Metadata, Loop
<1>8. CASE HoldBack  BY <1>8, <1>0 DEF HoldBack, Hold, Leave, Loop
<1>9. CASE Propose  BY <1>9, <1>0 DEF Propose, Loop
<1>10. CASE TakeNetworkBytes  BY <1>10, <1>0 DEF TakeNetworkBytes, Loop
<1>11. CASE RedoFails  BY <1>11, <1>0 DEF RedoFails, Hold, Leave, Loop
<1>12. CASE NoAccountHash  BY <1>12, <1>0 DEF NoAccountHash, Hold, Leave, Loop
<1>13. CASE BytesMissing  BY <1>13, <1>0 DEF BytesMissing, Hold, Leave, Loop
<1>14. CASE WriteFails  BY <1>14, <1>0 DEF WriteFails, Hold, Leave, Loop
<1>15. CASE Write  BY <1>15, <1>0 DEF Write, Loop
<1>16. CASE Hash  BY <1>16, <1>0 DEF Hash, Loop
<1>17. CASE NoRoot  BY <1>17, <1>0 DEF NoRoot, Hold, Leave, Loop
<1>18. CASE Match
  <2>1. /\ proc = "up" /\ pc = "hashed" /\ pc' = "landed" /\ matches' = matches + 1
        /\ lastVerified'.seq = lastSynced + 1 /\ lastVerified' # None
        /\ UNCHANGED <<startSeq, lastSynced>>
    BY <1>18, <1>0, ConstantsOK DEF Match, Loop, TargetAhead
  <2>2. QED
    BY <2>1, <1>0
<1>19. CASE Mismatch  BY <1>19, <1>0 DEF Mismatch, Loop, RunAfterMismatch
<1>20. CASE UndoFails  BY <1>20, <1>0 DEF UndoFails, Loop, RunAfterMismatch
<1>21. CASE Redo  BY <1>21, <1>0 DEF Redo, Loop
<1>22. CASE Strike  BY <1>22, <1>0 DEF Strike, Hold, Leave, Loop
<1>23. CASE Halt  BY <1>23, <1>0 DEF Halt, Loop
<1>24. CASE Land  BY <1>24, <1>0 DEF Land, Leave, Loop
<1>25. CASE Sigterm  BY <1>25, <1>0 DEF Sigterm, Handler
<1>26. CASE Park  BY <1>26, <1>0 DEF Park, Handler
<1>27. CASE ParkTimeout  BY <1>27, <1>0 DEF ParkTimeout, Handler
<1>28. CASE WriteTicket  BY <1>28, <1>0 DEF WriteTicket, Handler
<1>29. CASE WriteMarker  BY <1>29, <1>0 DEF WriteMarker, Handler
<1>30. CASE Exit  BY <1>30, <1>0 DEF Exit, Handler
<1>31. CASE Crash  BY <1>31, <1>0 DEF Crash
<1>32. CASE Boot  BY <1>32, <1>0 DEF Boot, FreshStop
<1>33. CASE TakeTicket  BY <1>33, <1>0 DEF TakeTicket
<1>34. CASE Resume  BY <1>34, <1>0 DEF Resume, StartLoop, TicketOK, ResumePoint
<1>35. CASE Fallback  BY <1>35, <1>0 DEF Fallback
<1>36. CASE ColdStart  BY <1>36, <1>0 DEF ColdStart, StartLoop, FreshStop
<1>37. CASE UNCHANGED vars  BY <1>37, <1>0
<1>38. QED
  BY <1>1, <1>2, <1>3, <1>4, <1>5, <1>6, <1>7, <1>8, <1>9, <1>10, <1>11, <1>12, <1>13, <1>14, <1>15, <1>16, <1>17, <1>18, <1>19, <1>20, <1>21, <1>22, <1>23, <1>24, <1>25, <1>26, <1>27, <1>28, <1>29, <1>30, <1>31, <1>32, <1>33, <1>34, <1>35, <1>36, <1>37
  DEF Next, LoopStep, HandlerStep, StartStep

\* The run that opens the signing gate never counts more ledgers than this
\* process verified (set_network_hash, record_verified).
THEOREM RunIsHonest == Spec => []RunCountsLedgersOnce
<1>1. Init => RunInv
  BY DEF Init, RunInv, Head
<1>2. ChainInv /\ RunInv /\ [Next]_vars => RunInv'
  BY StepRun
<1>3. ChainInv /\ RunInv => RunCountsLedgersOnce
  BY DEF ChainInv, TypeInv, Values, HeadInv, RunInv, RunCountsLedgersOnce
<1>4. QED
  BY ChainInductive, <1>1, <1>2, <1>3, PTL DEF Spec

LEMMA StepTrial ==
  ASSUME TypeInv, [Next]_vars, trial, proc = "up"
  PROVE  matches' >= matches /\ streak' <= streak
<1> USE DEF TypeInv, Values, diskVars, loopVars, bootVars, stopVars, vars
<1>1. CASE LedgerClosed  BY <1>1 DEF LedgerClosed
<1>2. CASE Reconnect  BY <1>2 DEF Reconnect, Loop
<1>3. CASE TakeEvent  BY <1>3 DEF TakeEvent, Loop
<1>4. CASE NoPeerLedger  BY <1>4 DEF NoPeerLedger, Loop
<1>5. CASE EnterLedger  BY <1>5 DEF EnterLedger, Loop
<1>6. CASE NoMetadata  BY <1>6 DEF NoMetadata, Hold, Leave, Loop
<1>7. CASE Metadata  BY <1>7 DEF Metadata, Loop
<1>8. CASE HoldBack  BY <1>8 DEF HoldBack, Hold, Leave, Loop
<1>9. CASE Propose  BY <1>9 DEF Propose, Loop
<1>10. CASE TakeNetworkBytes  BY <1>10 DEF TakeNetworkBytes, Loop
<1>11. CASE RedoFails  BY <1>11 DEF RedoFails, Hold, Leave, Loop
<1>12. CASE NoAccountHash  BY <1>12 DEF NoAccountHash, Hold, Leave, Loop
<1>13. CASE BytesMissing  BY <1>13 DEF BytesMissing, Hold, Leave, Loop
<1>14. CASE WriteFails  BY <1>14 DEF WriteFails, Hold, Leave, Loop
<1>15. CASE Write  BY <1>15 DEF Write, Loop
<1>16. CASE Hash  BY <1>16 DEF Hash, Loop
<1>17. CASE NoRoot  BY <1>17 DEF NoRoot, Hold, Leave, Loop
<1>18. CASE Match  BY <1>18 DEF Match, Loop
<1>19. CASE Mismatch  BY <1>19 DEF Mismatch, Loop, RunAfterMismatch
<1>20. CASE UndoFails  BY <1>20 DEF UndoFails, Loop, RunAfterMismatch
<1>21. CASE Redo  BY <1>21 DEF Redo, Loop
<1>22. CASE Strike  BY <1>22 DEF Strike, Hold, Leave, Loop
<1>23. CASE Halt  BY <1>23 DEF Halt, Loop
<1>24. CASE Land  BY <1>24 DEF Land, Leave, Loop
<1>25. CASE Sigterm  BY <1>25 DEF Sigterm, Handler
<1>26. CASE Park  BY <1>26 DEF Park, Handler
<1>27. CASE ParkTimeout  BY <1>27 DEF ParkTimeout, Handler
<1>28. CASE WriteTicket  BY <1>28 DEF WriteTicket, Handler
<1>29. CASE WriteMarker  BY <1>29 DEF WriteMarker, Handler
<1>30. CASE Exit  BY <1>30 DEF Exit, Handler
<1>31. CASE Crash  BY <1>31 DEF Crash
<1>32. CASE Boot  BY <1>32 DEF Boot
<1>33. CASE TakeTicket  BY <1>33 DEF TakeTicket
<1>34. CASE Resume  BY <1>34 DEF Resume
<1>35. CASE Fallback  BY <1>35 DEF Fallback
<1>36. CASE ColdStart  BY <1>36 DEF ColdStart
<1>37. CASE UNCHANGED vars  BY <1>37
<1>38. QED
  BY <1>1, <1>2, <1>3, <1>4, <1>5, <1>6, <1>7, <1>8, <1>9, <1>10, <1>11, <1>12, <1>13, <1>14, <1>15, <1>16, <1>17, <1>18, <1>19, <1>20, <1>21, <1>22, <1>23, <1>24, <1>25, <1>26, <1>27, <1>28, <1>29, <1>30, <1>31, <1>32, <1>33, <1>34, <1>35, <1>36, <1>37
  DEF Next, LoopStep, HandlerStep, StartStep

\* A proposal of ours that fails the state hash is no strike and does not end the
\* signing run (process_ledger returns before set_network_hash).
THEOREM TrialNeverCounts == Spec => TrialIsQuiet
<1>1. ChainInv /\ [Next]_vars =>
        [(trial /\ proc = "up") => matches' >= matches /\ streak' <= streak]_vars
  BY StepTrial DEF ChainInv
<1>2. QED
  BY <1>1, ChainInductive, PTL DEF Spec, TrialIsQuiet

-------------------------------------------------------------------------------
(* The wallet count *)

\* From peers the count waits until the ledger lands.
WalletInv == proc = "up" => wallets = Accounts(Chain[lastSynced])

\* Counting a ledger's created and deleted accounts leads to its account count.
LEMMA AdjustExact ==
  ASSUME NEW seq \in Seqs, wallets = Accounts(Chain[seq - 1])
  PROVE  AdjustedWallets(seq) = Accounts(Chain[seq])
<1>1. WalletMod \in Nat /\ Accounts(Chain[seq]) \in 0 .. WalletMod - 1
      /\ Accounts(Chain[seq - 1]) \in 0 .. WalletMod - 1
  BY ConstantsOK, WalletsOfState
<1>2. wallets + WalletDelta(seq) = Accounts(Chain[seq])
  BY <1>1 DEF WalletDelta
<1>3. QED
  BY <1>1, <1>2 DEF AdjustedWallets

LEMMA StepWallets ==
  ASSUME Peers, IInv, WalletInv, [Next]_vars
  PROVE  WalletInv'
<1> USE DEF IInv, TypeInv, Values, WalletInv, diskVars, loopVars, bootVars, stopVars, vars
<1>0. MaxSeq \in Nat
  BY ConstantsOK
<1>1. CASE LedgerClosed  BY <1>1 DEF LedgerClosed
<1>2. CASE Reconnect  BY <1>2 DEF Reconnect, Loop
<1>3. CASE TakeEvent  BY <1>3 DEF TakeEvent, Loop
<1>4. CASE NoPeerLedger  BY <1>4 DEF NoPeerLedger, Loop
<1>5. CASE EnterLedger  BY <1>5 DEF EnterLedger, Loop
<1>6. CASE NoMetadata  BY <1>6 DEF NoMetadata, Hold, Leave, Loop
<1>7. CASE Metadata  BY <1>7 DEF Metadata, Loop
<1>8. CASE HoldBack  BY <1>8 DEF HoldBack, Hold, Leave, Loop
<1>9. CASE Propose  BY <1>9 DEF Propose, Loop
<1>10. CASE TakeNetworkBytes  BY <1>10 DEF TakeNetworkBytes, Loop
<1>11. CASE RedoFails  BY <1>11 DEF RedoFails, Hold, Leave, Loop
<1>12. CASE NoAccountHash  BY <1>12 DEF NoAccountHash, Hold, Leave, Loop
<1>13. CASE BytesMissing  BY <1>13 DEF BytesMissing, Hold, Leave, Loop
<1>14. CASE WriteFails  BY <1>14 DEF WriteFails, Hold, Leave, Loop
<1>15. CASE Write  BY <1>15 DEF Write, Loop
<1>16. CASE Hash  BY <1>16 DEF Hash, Loop
<1>17. CASE NoRoot  BY <1>17 DEF NoRoot, Hold, Leave, Loop
<1>18. CASE Match  BY <1>18 DEF Match, Loop
<1>19. CASE Mismatch  BY <1>19 DEF Mismatch, Loop
<1>20. CASE UndoFails  BY <1>20 DEF UndoFails, Loop
<1>21. CASE Redo  BY <1>21 DEF Redo, Loop
<1>22. CASE Strike  BY <1>22 DEF Strike, Hold, Leave, Loop
<1>23. CASE Halt  BY <1>23 DEF Halt, Loop
<1>24. CASE Land
  <2>1. Cur \in Seqs /\ Cur - 1 = lastSynced
    BY <1>24, <1>0 DEF Land, Loop, Cur, TargetAhead, Seqs
  <2>2. AdjustedWallets(Cur) = Accounts(Chain[Cur])
    BY <1>24, <2>1, AdjustExact DEF Land, Loop
  <2>3. QED
    BY <1>24, <2>2 DEF Land, Leave
<1>25. CASE Sigterm  BY <1>25 DEF Sigterm, Handler
<1>26. CASE Park  BY <1>26 DEF Park, Handler
<1>27. CASE ParkTimeout  BY <1>27 DEF ParkTimeout, Handler
<1>28. CASE WriteTicket  BY <1>28 DEF WriteTicket, Handler
<1>29. CASE WriteMarker  BY <1>29 DEF WriteMarker, Handler
<1>30. CASE Exit  BY <1>30 DEF Exit, Handler
<1>31. CASE Crash  BY <1>31 DEF Crash
<1>32. CASE Boot  BY <1>32 DEF Boot, FreshStop
<1>33. CASE TakeTicket  BY <1>33 DEF TakeTicket
<1>34. CASE Resume  BY <1>34 DEF Resume, StartLoop, TicketOK, RootOK, ResumePoint
<1>35. CASE Fallback  BY <1>35 DEF Fallback
<1>36. CASE ColdStart  BY <1>36 DEF ColdStart, StartLoop, FreshStop
<1>37. CASE UNCHANGED vars  BY <1>37
<1>38. QED
  BY <1>1, <1>2, <1>3, <1>4, <1>5, <1>6, <1>7, <1>8, <1>9, <1>10, <1>11, <1>12, <1>13, <1>14, <1>15, <1>16, <1>17, <1>18, <1>19, <1>20, <1>21, <1>22, <1>23, <1>24, <1>25, <1>26, <1>27, <1>28, <1>29, <1>30, <1>31, <1>32, <1>33, <1>34, <1>35, <1>36, <1>37
  DEF Next, LoopStep, HandlerStep, StartStep

\* From the peer source wallet_count is the number of account roots in
\* state.rocks between ledgers, however often a ledger was held (start_ws_sync
\* adjusts it after the ledger landed).
THEOREM WalletsAreCounted ==
  ASSUME Peers, ~ReadErrors
  PROVE  Spec => []WalletCountMatchesStore
<1>1. Init => WalletInv
  BY DEF Init, WalletInv
<1>2. IInv /\ WalletInv /\ [Next]_vars => WalletInv'
  BY StepWallets
<1>3. IInv /\ WalletInv => WalletCountMatchesStore
  <2>1. IInv /\ Quiet => pc \in Untouched /\ proc = "up"
    BY DEF IInv, TypeInv, Values, GateInv, InFlight, Untouched, Quiet
  <2>2. QED
    BY <2>1 DEF IInv, StoreInv, WalletInv, WalletCountMatchesStore
<1>4. QED
  BY Inductive, <1>1, <1>2, <1>3, PTL DEF Spec
=============================================================================
