--------------------------- MODULE BacktestProofs ---------------------------
(***************************************************************************)
(* Proofs about Backtest, for all runs, windows and mappings: the types,   *)
(* that a complete run is whole, and that the tables are a RunLedger.      *)
(*                                                                         *)
(* CompleteIsWhole is not inductive: what makes the closing counts right   *)
(* is that, at every moment of the persist phase, the rows of the replayed *)
(* run are those of the outcomes but for the ones still to be stored.      *)
(***************************************************************************)
EXTENDS Backtest, FiniteSetTheorems, TLAPS

ScoredIn(f) == {r \in Resolutions : f[r] = "scored"}

\* The rows of a run that is being stored.
Storing(run) ==
    /\ todo \subseteq {r \in Resolutions : outcome[r] # "none"}
    /\ half \subseteq ScoredIn(outcome) \ todo
    /\ \A r \in Resolutions : prediction[run][r] = IF r \in todo THEN "none" ELSE outcome[r]
    /\ trace[run] = ScoredIn(outcome) \ (todo \cup half)

Empty(run) == (\A r \in Resolutions : prediction[run][r] = "none") /\ trace[run] = {}

Whole(run) ==
    /\ total[run] = Counted(prediction[run])
    /\ scored[run] = CountedScored(prediction[run])
    /\ trace[run] = ScoredIn(prediction[run])

AtWork(run) == phase \in {"evaluate", "persist"} /\ run \in current

RunInv(run) ==
    /\ status[run] = "none" => Empty(run)
    /\ status[run] = "complete" => Whole(run)
    /\ AtWork(run) => status[run] = "in_progress" /\ current = {run}
    /\ AtWork(run) /\ phase = "evaluate" => Empty(run)
    /\ AtWork(run) /\ phase = "persist" => Storing(run)

IInv ==
    /\ TypeOK
    /\ phase # "persist" => half = {}
    /\ \A run \in Runs : RunInv(run)

-----------------------------------------------------------------------------

\* Counted and CountedScored are natural numbers.
LEMMA CountsType ==
    ASSUME NEW f
    PROVE  Counted(f) \in Nat /\ CountedScored(f) \in Nat
<1>1. /\ IsFiniteSet({r \in Resolutions : f[r] # "none"})
      /\ IsFiniteSet({r \in Resolutions : f[r] = "scored"})
    BY FiniteAssumption, FS_Subset
<1> QED BY <1>1, FS_CardinalityType DEF Counted, CountedScored

\* Backtest: the type invariant is inductive.
LEMMA TypeStep ==
    ASSUME TypeOK, [Next]_vars
    PROVE  TypeOK'
<1> USE DEF TypeOK, world, tables, locals, Statuses, Outcomes, Phases, NoOutcome,
            Fault, ForgetLocals
<1>1. ASSUME NEW run \in Runs, NEW r \in Resolutions, InsertPrediction(run, r)
      PROVE  TypeOK'
    BY <1>1 DEF InsertPrediction
<1>2. ASSUME NEW run \in Runs, NEW r \in Resolutions, InsertTrace(run, r)
      PROVE  TypeOK'
    BY <1>2 DEF InsertTrace
<1>3. ASSUME NEW run \in Runs, Evaluate(run)
      PROVE  TypeOK'
    BY <1>3 DEF Evaluate, InScope
<1>4. ASSUME NEW run \in Runs, CompleteRun(run)
      PROVE  TypeOK'
    <2>1. Counted(outcome) \in Nat /\ CountedScored(outcome) \in Nat  BY CountsType
    <2> QED BY <1>4, <2>1 DEF CompleteRun
<1>5. ASSUME NEW run \in Runs, FailEvaluation(run) \/ FailStatement(run)
      PROVE  TypeOK'
    BY <1>5 DEF FailEvaluation, FailStatement, MarkFailed
<1>6. ASSUME NEW run \in Runs, PruneRun(run)
      PROVE  TypeOK'
    BY <1>6 DEF PruneRun
<1>7. ASSUME FinishPrune \/ Kill
      PROVE  TypeOK'
    BY <1>7 DEF FinishPrune, Kill
<1>8. ASSUME Command
      PROVE  TypeOK'
    BY <1>8 DEF Command, StartReplay, StartPrune, Listed
<1>9. ASSUME World
      PROVE  TypeOK'
    BY <1>9 DEF World, StoreResolution, RateClass
<1>10. ASSUME UNCHANGED vars
       PROVE  TypeOK'
    BY <1>10 DEF vars
<1> QED BY <1>1, <1>2, <1>3, <1>4, <1>5, <1>6, <1>7, <1>8, <1>9, <1>10 DEF Next, Step, Failure

\* Backtest: the strengthened invariant holds at the start.
LEMMA InitIInv == Init => IInv
<1> SUFFICES ASSUME Init PROVE IInv
    OBVIOUS
<1>1. TypeOK
    BY DEF Init, TypeOK, Statuses, Outcomes, Phases, NoOutcome
<1>2. \A run \in Runs : RunInv(run)
    BY DEF Init, RunInv, Empty, NoOutcome, AtWork
<1> QED BY <1>1, <1>2 DEF Init, IInv

\* Backtest: what a run's invariant says depends on that run's rows only.
LEMMA OtherRun ==
    ASSUME NEW run \in Runs, RunInv(run), ~AtWork(run)',
           status'[run] = status[run], total'[run] = total[run], scored'[run] = scored[run],
           prediction'[run] = prediction[run], trace'[run] = trace[run]
    PROVE  RunInv(run)'
BY DEF RunInv, Empty, Whole, AtWork, ScoredIn

\* Backtest: a step that stores nothing of a run and leaves the command alone.
LEMMA SameRows ==
    ASSUME NEW run \in Runs, RunInv(run), UNCHANGED <<tables, locals>>
    PROVE  RunInv(run)'
BY DEF RunInv, Empty, Whole, AtWork, ScoredIn, Storing, tables, locals

\* Backtest: the strengthened invariant is inductive.
LEMMA IInvStep ==
    ASSUME IInv, [Next]_vars
    PROVE  IInv'
<1>t. TypeOK /\ TypeOK'  BY TypeStep DEF IInv
<1>1. ASSUME NEW run \in Runs, NEW r \in Resolutions, InsertPrediction(run, r)
      PROVE  IInv'
    <2>1. RunInv(run) /\ AtWork(run) /\ Storing(run)
        BY <1>1 DEF IInv, RunInv, AtWork, InsertPrediction
    <2>2. Storing(run)'
        BY <1>1, <1>t, <2>1 DEF Storing, ScoredIn, InsertPrediction, TypeOK
    <2>3. RunInv(run)'
        BY <1>1, <2>1, <2>2 DEF RunInv, AtWork, InsertPrediction
    <2>4. ASSUME NEW other \in Runs, other # run
          PROVE  RunInv(other)'
        <3>1. RunInv(other)  BY DEF IInv
        <3> QED BY <1>1, <1>t, <2>4, <3>1, OtherRun DEF InsertPrediction, AtWork, TypeOK
    <2> QED BY <1>1, <1>t, <2>3, <2>4 DEF IInv, InsertPrediction
<1>2. ASSUME NEW run \in Runs, NEW r \in Resolutions, InsertTrace(run, r)
      PROVE  IInv'
    <2>1. RunInv(run) /\ AtWork(run) /\ Storing(run)
        BY <1>2 DEF IInv, RunInv, AtWork, InsertTrace
    <2>2. Storing(run)'
        <3>1. trace'[run] = trace[run] \cup {r} /\ half' = half \ {r}
            BY <1>2, <1>t DEF InsertTrace, TypeOK
        <3>2. r \in half /\ UNCHANGED <<todo, outcome, prediction>>
            BY <1>2 DEF InsertTrace
        <3> QED BY <2>1, <3>1, <3>2 DEF Storing, ScoredIn
    <2>3. RunInv(run)'
        BY <1>2, <2>1, <2>2 DEF RunInv, AtWork, InsertTrace
    <2>4. ASSUME NEW other \in Runs, other # run
          PROVE  RunInv(other)'
        <3>1. RunInv(other)  BY DEF IInv
        <3> QED BY <1>2, <1>t, <2>4, <3>1, OtherRun DEF InsertTrace, AtWork, TypeOK
    <2> QED BY <1>2, <1>t, <2>3, <2>4 DEF IInv, InsertTrace
<1>3. ASSUME NEW run \in Runs, Evaluate(run)
      PROVE  IInv'
    <2>1. RunInv(run) /\ AtWork(run) /\ Empty(run) /\ half = {}
        BY <1>3 DEF IInv, RunInv, AtWork, Evaluate
    <2>2. todo' = {r \in Resolutions : outcome'[r] # "none"}
        BY <1>3, <1>t DEF Evaluate, InScope, TypeOK
    <2>3. Storing(run)'
        BY <1>3, <1>t, <2>1, <2>2 DEF Storing, ScoredIn, Empty, Evaluate, TypeOK, tables
    <2>4. RunInv(run)'
        BY <1>3, <2>1, <2>3 DEF RunInv, AtWork, Evaluate, tables
    <2>5. ASSUME NEW other \in Runs, other # run
          PROVE  RunInv(other)'
        <3>1. RunInv(other)  BY DEF IInv
        <3> QED BY <1>3, <1>t, <2>5, <3>1, OtherRun DEF Evaluate, AtWork, TypeOK, tables
    <2> QED BY <1>3, <1>t, <2>4, <2>5 DEF IInv, Evaluate
<1>4. ASSUME NEW run \in Runs, CompleteRun(run)
      PROVE  IInv'
    <2>1. RunInv(run) /\ Storing(run) /\ todo = {} /\ half = {}
        BY <1>4 DEF IInv, RunInv, AtWork, CompleteRun
    <2>2. /\ prediction' = prediction /\ trace' = trace /\ status'[run] = "complete"
          /\ total'[run] = Counted(outcome) /\ scored'[run] = CountedScored(outcome)
          /\ phase' = "idle" /\ current' = {} /\ half' = {}
        BY <1>4, <1>t DEF CompleteRun, ForgetLocals, TypeOK
    <2>3. prediction[run] = outcome
        BY <1>t, <2>1 DEF Storing, TypeOK
    <2>4. Whole(run)'
        BY <2>1, <2>2, <2>3 DEF Whole, Storing, ScoredIn, Counted, CountedScored
    <2>5. RunInv(run)'
        BY <2>2, <2>4 DEF RunInv, AtWork
    <2>6. ASSUME NEW other \in Runs, other # run
          PROVE  RunInv(other)'
        <3>1. RunInv(other)  BY DEF IInv
        <3> QED BY <1>4, <1>t, <2>2, <2>6, <3>1, OtherRun DEF CompleteRun, AtWork, TypeOK
    <2> QED BY <1>t, <2>2, <2>5, <2>6 DEF IInv
<1>5. ASSUME NEW run \in Runs, FailEvaluation(run) \/ FailStatement(run)
      PROVE  IInv'
    <2>1. MarkFailed(run)
        BY <1>5 DEF FailEvaluation, FailStatement
    <2>2. phase' = "idle" /\ current' = {} /\ half' = {} /\ status'[run] = "failed"
        BY <2>1, <1>t DEF MarkFailed, ForgetLocals, TypeOK
    <2>3. RunInv(run)'
        BY <2>2 DEF RunInv, AtWork
    <2>4. ASSUME NEW other \in Runs, other # run
          PROVE  RunInv(other)'
        <3>1. RunInv(other)  BY DEF IInv
        <3> QED BY <2>1, <2>2, <1>t, <2>4, <3>1, OtherRun DEF MarkFailed, AtWork, TypeOK
    <2> QED BY <1>t, <2>2, <2>3, <2>4 DEF IInv
<1>6. ASSUME NEW run \in Runs, PruneRun(run)
      PROVE  IInv'
    <2>1. /\ phase = "prune" /\ phase' = "prune" /\ half' = half
          /\ status'[run] = "none" /\ prediction'[run] = NoOutcome /\ trace'[run] = {}
        BY <1>6, <1>t DEF PruneRun, TypeOK
    <2>2. RunInv(run)'
        BY <2>1 DEF RunInv, AtWork, Empty, NoOutcome
    <2>3. ASSUME NEW other \in Runs, other # run
          PROVE  RunInv(other)'
        <3>1. RunInv(other)  BY DEF IInv
        <3> QED BY <1>6, <1>t, <2>1, <2>3, <3>1, OtherRun DEF PruneRun, AtWork, TypeOK
    <2> QED BY <1>t, <2>1, <2>2, <2>3 DEF IInv
<1>7. ASSUME FinishPrune \/ Kill
      PROVE  IInv'
    <2>1. UNCHANGED tables /\ phase' = "idle" /\ half' = {}
        BY <1>7 DEF FinishPrune, Kill, ForgetLocals
    <2>2. ASSUME NEW run \in Runs
          PROVE  RunInv(run)'
        <3>1. RunInv(run)  BY DEF IInv
        <3> QED BY <2>1, <3>1, OtherRun DEF AtWork, tables
    <2> QED BY <1>t, <2>1, <2>2 DEF IInv
<1>8. ASSUME NEW run \in Runs, StartReplay(run)
      PROVE  IInv'
    <2>1. /\ status[run] = "none" /\ status'[run] = "in_progress"
          /\ prediction' = prediction /\ trace' = trace
          /\ phase = "idle" /\ phase' = "evaluate" /\ current' = {run} /\ half' = half
        BY <1>8, <1>t DEF StartReplay, MayInsert, TypeOK
    <2>2. RunInv(run)'
        <3>1. Empty(run)  BY <2>1 DEF IInv, RunInv
        <3> QED BY <2>1, <3>1 DEF RunInv, AtWork, Empty
    <2>3. ASSUME NEW other \in Runs, other # run
          PROVE  RunInv(other)'
        <3>1. RunInv(other)  BY DEF IInv
        <3> QED BY <1>8, <1>t, <2>1, <2>3, <3>1, OtherRun DEF StartReplay, AtWork, TypeOK
    <2> QED BY <1>t, <2>1, <2>2, <2>3 DEF IInv
<1>9. ASSUME NEW chosen \in SUBSET Runs, StartPrune(chosen)
      PROVE  IInv'
    <2>1. UNCHANGED tables /\ phase = "idle" /\ phase' = "prune" /\ half' = half
        BY <1>9 DEF StartPrune
    <2>2. ASSUME NEW run \in Runs
          PROVE  RunInv(run)'
        <3>1. RunInv(run)  BY DEF IInv
        <3> QED BY <2>1, <3>1, OtherRun DEF AtWork, tables
    <2> QED BY <1>t, <2>1, <2>2 DEF IInv
<1>10. ASSUME World \/ UNCHANGED vars
       PROVE  IInv'
    <2>1. UNCHANGED <<tables, locals>>
        BY <1>10 DEF World, StoreResolution, RateClass, vars
    <2>2. \A run \in Runs : RunInv(run)'
        BY <2>1, SameRows DEF IInv
    <2> QED BY <1>t, <2>1, <2>2 DEF IInv, locals
<1> QED BY <1>1, <1>2, <1>3, <1>4, <1>5, <1>6, <1>7, <1>8, <1>9, <1>10
        DEF Next, Step, Failure, Command

-----------------------------------------------------------------------------

\* Backtest: the strengthened invariant is an invariant.
THEOREM Invariant == Spec => []IInv
BY InitIInv, IInvStep, PTL DEF Spec

\* Backtest: every variable keeps its type.
THEOREM TypesHold == Spec => []TypeOK
BY Invariant, PTL DEF IInv

\* replay.py: a run that says complete has every prediction its row counts, and
\* each scored one with its trace, however many statements failed and whenever
\* commands were killed.
THEOREM CompleteRunsAreWhole == Spec => []CompleteIsWhole
<1>1. IInv => CompleteIsWhole
    BY DEF IInv, RunInv, Whole, ScoredIn, CompleteIsWhole
<1> QED BY <1>1, Invariant, PTL

-----------------------------------------------------------------------------
(* The refinement.                                                         *)

LedgerRows == [run \in Runs |-> StoredRows(run)]

\* Backtest: an empty table is an empty ledger.
LEMMA LedgerInit == Init => Ledger!Init
<1> SUFFICES ASSUME Init PROVE Ledger!Init
    OBVIOUS
<1>1. \A run \in Runs : StoredRows(run) = {}
    BY DEF Init, StoredRows, NoOutcome
<1> QED BY <1>1 DEF Init, Ledger!Init

\* Backtest: what is stored of a run depends on its predictions and its traces.
LEMMA SameStored ==
    ASSUME UNCHANGED <<prediction, trace>>
    PROVE  LedgerRows' = LedgerRows
BY DEF LedgerRows, StoredRows

\* A stored prediction, and a stored trace, is one row more.
LEMMA OneRowMore ==
    ASSUME NEW run \in Runs, NEW row,
           StoredRows(run)' = StoredRows(run) \cup {row},
           \A other \in Runs \ {run} : StoredRows(other)' = StoredRows(other)
    PROVE  LedgerRows' = [LedgerRows EXCEPT ![run] = @ \cup {row}]
BY DEF LedgerRows

\* Backtest: every step appends to an open run, opens one, closes one, removes
\* one with its rows, or is no step of the ledger.
LEMMA LedgerStep ==
    ASSUME IInv, [Next]_vars
    PROVE  [Ledger!Next]_(Ledger!vars)
<1>t. TypeOK  BY DEF IInv
<1> USE DEF Ledger!Next, Ledger!vars, Ledger!Closed
<1>1. ASSUME NEW run \in Runs, NEW r \in Resolutions, InsertPrediction(run, r)
      PROVE  Ledger!Append(run)
    <2>1. RunInv(run) /\ status[run] = "in_progress" /\ outcome[r] # "none" /\ status' = status
        BY <1>1 DEF IInv, RunInv, AtWork, Storing, InsertPrediction
    <2>2. /\ prediction' = [prediction EXCEPT ![run][r] = outcome[r]] /\ trace' = trace
        BY <1>1 DEF InsertPrediction
    <2>3. StoredRows(run)' = StoredRows(run) \cup {<<"prediction", r>>}
        BY <1>t, <2>1, <2>2 DEF StoredRows, TypeOK
    <2>4. \A other \in Runs \ {run} : StoredRows(other)' = StoredRows(other)
        BY <1>t, <2>2 DEF StoredRows, TypeOK
    <2>5. LedgerRows' = [LedgerRows EXCEPT ![run] = @ \cup {<<"prediction", r>>}]
        BY <2>3, <2>4, OneRowMore
    <2> QED BY <2>1, <2>5 DEF Ledger!Append, LedgerRows
<1>2. ASSUME NEW run \in Runs, NEW r \in Resolutions, InsertTrace(run, r)
      PROVE  Ledger!Append(run)
    <2>1. RunInv(run) /\ status[run] = "in_progress" /\ status' = status
        BY <1>2 DEF IInv, RunInv, AtWork, InsertTrace
    <2>2. prediction' = prediction /\ trace' = [trace EXCEPT ![run] = @ \cup {r}]
        BY <1>2 DEF InsertTrace
    <2>3. StoredRows(run)' = StoredRows(run) \cup {<<"trace", r>>}
        BY <1>t, <2>2 DEF StoredRows, TypeOK
    <2>4. \A other \in Runs \ {run} : StoredRows(other)' = StoredRows(other)
        BY <1>t, <2>2 DEF StoredRows, TypeOK
    <2>5. LedgerRows' = [LedgerRows EXCEPT ![run] = @ \cup {<<"trace", r>>}]
        BY <2>3, <2>4, OneRowMore
    <2> QED BY <2>1, <2>5 DEF Ledger!Append, LedgerRows
<1>3. ASSUME NEW run \in Runs, CompleteRun(run)
      PROVE  Ledger!Close(run)
    <2>1. status[run] = "in_progress"
        BY <1>3 DEF IInv, RunInv, AtWork, CompleteRun
    <2>2. status' = [status EXCEPT ![run] = "complete"] /\ LedgerRows' = LedgerRows
        BY <1>3, SameStored DEF CompleteRun
    <2> QED BY <2>1, <2>2 DEF Ledger!Close, LedgerRows
<1>4. ASSUME NEW run \in Runs, FailEvaluation(run) \/ FailStatement(run)
      PROVE  Ledger!Close(run)
    <2>1. status[run] = "in_progress"
        BY <1>4 DEF IInv, RunInv, AtWork, FailEvaluation, FailStatement
    <2>2. status' = [status EXCEPT ![run] = "failed"] /\ LedgerRows' = LedgerRows
        BY <1>4, SameStored DEF FailEvaluation, FailStatement, MarkFailed
    <2> QED BY <2>1, <2>2 DEF Ledger!Close, LedgerRows
<1>5. ASSUME NEW run \in Runs, PruneRun(run)
      PROVE  Ledger!Expunge(run)
    <2>1. /\ status' = [status EXCEPT ![run] = "none"]
          /\ prediction' = [prediction EXCEPT ![run] = NoOutcome]
          /\ trace' = [trace EXCEPT ![run] = {}]
        BY <1>5 DEF PruneRun
    <2>2. StoredRows(run)' = {}
        BY <1>t, <2>1 DEF StoredRows, TypeOK, NoOutcome
    <2>3. \A other \in Runs \ {run} : StoredRows(other)' = StoredRows(other)
        BY <1>t, <2>1 DEF StoredRows, TypeOK
    <2>4. LedgerRows' = [LedgerRows EXCEPT ![run] = {}]
        BY <2>2, <2>3 DEF LedgerRows
    <2> QED BY <2>1, <2>4 DEF Ledger!Expunge, LedgerRows
<1>6. ASSUME NEW run \in Runs, StartReplay(run)
      PROVE  Ledger!Open(run)
    <2>1. LedgerRows' = LedgerRows
        BY <1>6, SameStored DEF StartReplay
    <2> QED BY <1>6, <2>1 DEF StartReplay, MayInsert, Ledger!Open, LedgerRows
<1>7. ASSUME \/ \E run \in Runs : Evaluate(run)
             \/ FinishPrune \/ Kill \/ World \/ UNCHANGED vars
             \/ \E chosen \in SUBSET Runs : StartPrune(chosen)
      PROVE  UNCHANGED Ledger!vars
    <2>1. UNCHANGED <<status, prediction, trace>>
        BY <1>7
        DEF Evaluate, FinishPrune, Kill, World, StoreResolution, RateClass, StartPrune,
            vars, tables
    <2>2. LedgerRows' = LedgerRows
        BY <2>1, SameStored
    <2> QED BY <2>1, <2>2 DEF LedgerRows
<1> QED BY <1>1, <1>2, <1>3, <1>4, <1>5, <1>6, <1>7 DEF Next, Step, Failure, Command

\* persistence/operations.py: the tables are an append-only ledger of runs,
\* whatever the windows and however commands fail or are killed.
THEOREM TablesAreALedger == Spec => ImplementsLedger
<1>1. Spec => Ledger!Init
    BY LedgerInit DEF Spec
<1>2. IInv /\ [Next]_vars => [Ledger!Next]_(Ledger!vars)
    BY LedgerStep
<1> QED BY <1>1, <1>2, Invariant, PTL DEF Spec, ImplementsLedger, Ledger!Spec

=============================================================================
