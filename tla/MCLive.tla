-------------------------------- MODULE MCLive --------------------------------
(***************************************************************************)
(* Small instances of what the node must get done in the end: the ledger    *)
(* loop (the chain of MCWsSync), the driver's jobs, the walk along parent    *)
(* hashes, the state's download.  `part` names the one a behaviour is about; *)
(* the others keep their first state.                                        *)
(***************************************************************************)
EXTENDS WsSync, PeerFetch, PeerLedgers, PeerState, TLC

CONSTANTS k1, k2, v1, v2, p1, p2

MCKeys == {k1, k2}
MCVals == {v1, v2}
MCChain ==
  [s \in 0 .. MaxSeq |->
     CASE s % 4 = 0 -> (k1 :> v1) @@ (k2 :> Absent)
       [] s % 4 = 1 -> (k1 :> v2) @@ (k2 :> v1)
       [] s % 4 = 2 -> (k1 :> Absent) @@ (k2 :> v1)
       [] OTHER     -> (k1 :> v1) @@ (k2 :> v1)]

MCKindOf == [j \in FetchJobs |-> IF j = "t" THEN "ledger" ELSE "state"]
MCLedgerOf == [j \in FetchJobs |-> "L"]
MCTree == [l \in {"L"} |-> {"root", "leaf"}]
MCAbove == [z \in {"root", "leaf"} |-> IF z = "root" THEN {} ELSE {"root"}]

MCHash == [s \in 1 .. LastLedger |-> 10 + s]

MCOver == [z \in Places |-> CASE z = "r" -> {} [] z \in {"a", "x"} -> {"r"} [] OTHER -> {"r", "a"}]

VARIABLE part

all_vars == <<part, vars, fetch_vars, ledger_vars, state_vars>>

MCInit ==
  /\ part \in {"loop", "jobs", "ledgers", "state"}
  /\ Init /\ FetchInit /\ PeerLedgersInit /\ StateInit

MCNext ==
  \/ part = "loop" /\ Next /\ UNCHANGED <<part, fetch_vars, ledger_vars, state_vars>>
  \/ part = "jobs" /\ FetchNext /\ UNCHANGED <<part, vars, ledger_vars, state_vars>>
  \/ part = "ledgers" /\ PeerLedgersNext /\ UNCHANGED <<part, vars, fetch_vars, state_vars>>
  \/ part = "state" /\ StateNext /\ UNCHANGED <<part, vars, fetch_vars, ledger_vars>>

\* Each part's own fairness: WsSync!Fairness, the driver's clock, PeerLedgersFairness, StateFairness.
MCFairness ==
  /\ WF_vars(part = "loop" /\ LedgerClosed) /\ WF_vars(part = "loop" /\ LoopStep /\ ~Fault)
  /\ WF_vars(part = "loop" /\ HandlerStep) /\ <>[][~(part = "loop" /\ Fault)]_vars
  /\ WF_fetch_vars(part = "jobs" /\ FetchTick)
  /\ WF_ledger_vars(part = "ledgers" /\ (HeaderComes \/ HeaderFails))
  /\ SF_ledger_vars(part = "ledgers" /\ AskNext) /\ SF_ledger_vars(part = "ledgers" /\ NextHeaderComes)
  /\ \A a \in Sound : /\ SF_state_vars(part = "state" /\ AskState(a))
                      /\ SF_state_vars(part = "state" /\ AnswersWell(a))
  /\ \A a \in StatePeers : SF_state_vars(part = "state" /\ Release(a))
  /\ WF_state_vars(part = "state" /\ Save) /\ SF_state_vars(part = "state" /\ Complete)
  /\ WF_state_vars(part = "state" /\ ResumeFetch)
  /\ WF_state_vars(part = "state" /\ sync_phase = "ending" /\ Sync)

MCSpec == MCInit /\ [][MCNext]_all_vars /\ MCFairness

\* The loop's properties, in its behaviours; PeerState!FetchCompletes in those of the state.
StateCompletes == []<>(part = "state" => sync_phase \in {"proven", "converting", "ready"})

\* What must get done: the loop lands every ledger, and ends when it is told to (WsSync!CatchesUp and
\* StopExits); what peers are asked for comes to its end: every job, every ledger's hash, the state.
LiveGetsThere == CatchesUp /\ StopExits /\ EveryJobEnds /\ EveryLedgerNamed /\ StateCompletes
===============================================================================
