------------------------------ MODULE Backtest ------------------------------
(***************************************************************************)
(* The calibration backtest: `run` replays the stored resolutions of a     *)
(* window against data frozen at a prediction instant and stores a run     *)
(* row, predictions and traces; `prune` deletes runs.                      *)
(*                                                                         *)
(* A run id is a hash of the parameters, so the same parameters always     *)
(* give the same id.  The row is inserted first, every prediction and      *)
(* every trace is a statement that commits on its own, and the row is      *)
(* updated last.  A prune deletes a run in one transaction.  The database  *)
(* file admits one process, so commands do not interleave, and what the    *)
(* evaluations read does not change under them.                            *)
(*                                                                         *)
(* Left out: the window that may not reach into the last 30 days, several  *)
(* active mappings of one class and market (the first outcome counts), the *)
(* source rows the posterior is computed from, and its numbers.            *)
(***************************************************************************)
EXTENDS Naturals, FiniteSets

CONSTANTS
    Runs,           \* run ids, one for each combination of parameters in use
    Resolutions,    \* resolutions of mapped markets
    Window,         \* Window[run]: the resolutions its parameters select
    Classes,        \* event classes
    ClassOf,        \* ClassOf[r]: the class r's market is mapped to
    MaxFaults       \* bound: failed statements and kills

ASSUME WindowAssumption == Window \in [Runs -> SUBSET Resolutions]
ASSUME ClassAssumption  == ClassOf \in [Resolutions -> Classes]
ASSUME BoundAssumption  == MaxFaults \in Nat
ASSUME FiniteAssumption == IsFiniteSet(Resolutions)

Statuses  == {"none", "in_progress", "complete", "failed"}
Outcomes  == {"none", "scored", "skipped"}
Phases    == {"idle", "evaluate", "persist", "prune"}
NoOutcome == [r \in Resolutions |-> "none"]

VARIABLES
    stored,     \* resolutions in polymarket_resolutions
    rated,      \* classes with a base rate in the library
    status,     \* status[run] of its row, "none" without one
    total,      \* total[run]: its predictions_total
    scored,     \* scored[run]: its predictions_scored
    prediction, \* prediction[run][r]: the row in backtest_predictions
    trace,      \* trace[run]: resolutions with a row in backtest_traces
    phase,      \* of the running command
    current,    \* the runs it is about: one replayed, or those yet to be pruned
    outcome,    \* outcome[r], as the evaluations returned it
    todo,       \* outcomes yet to be stored
    half,       \* stored predictions whose trace comes next
    faults

world  == <<stored, rated>>
tables == <<status, total, scored, prediction, trace>>
locals == <<phase, current, outcome, todo, half>>
vars   == <<world, tables, locals, faults>>

TypeOK ==
    /\ stored \subseteq Resolutions
    /\ rated \subseteq Classes
    /\ status \in [Runs -> Statuses]
    /\ total \in [Runs -> Nat] /\ scored \in [Runs -> Nat]
    /\ prediction \in [Runs -> [Resolutions -> Outcomes]]
    /\ trace \in [Runs -> SUBSET Resolutions]
    /\ phase \in Phases /\ current \subseteq Runs
    /\ outcome \in [Resolutions -> Outcomes]
    /\ todo \subseteq Resolutions /\ half \subseteq Resolutions
    /\ faults \in Nat

Init ==
    /\ stored = {}
    /\ rated = {}
    /\ status = [run \in Runs |-> "none"]
    /\ total = [run \in Runs |-> 0] /\ scored = [run \in Runs |-> 0]
    /\ prediction = [run \in Runs |-> NoOutcome]
    /\ trace = [run \in Runs |-> {}]
    /\ phase = "idle" /\ current = {}
    /\ outcome = NoOutcome /\ todo = {} /\ half = {}
    /\ faults = 0

Fault == faults < MaxFaults /\ faults' = faults + 1

ForgetLocals ==
    /\ phase' = "idle" /\ current' = {}
    /\ outcome' = NoOutcome /\ todo' = {} /\ half' = {}

-----------------------------------------------------------------------------
(* Other commands, between those of the backtest.                          *)

StoreResolution(r) ==
    /\ phase = "idle" /\ r \notin stored
    /\ stored' = stored \cup {r}
    /\ UNCHANGED <<rated, tables, locals, faults>>

RateClass(c) ==
    /\ phase = "idle" /\ c \notin rated
    /\ rated' = rated \cup {c}
    /\ UNCHANGED <<stored, tables, locals, faults>>

-----------------------------------------------------------------------------
(* calibration-backtest run.                                               *)

InScope(run) == Window[run] \cap stored

\* Faulty variant: a row that is not complete may be written over.
NotComplete(run) == status[run] # "complete"

\* A complete run is answered from its rows.  With any other row the insert is
\* a duplicate key, raised before the replay's own handler is in place.
MayInsert(run) == status[run] = "none"

StartReplay(run) ==
    /\ phase = "idle" /\ InScope(run) # {}
    /\ MayInsert(run)
    /\ status' = [status EXCEPT ![run] = "in_progress"]
    /\ phase' = "evaluate" /\ current' = {run}
    /\ UNCHANGED <<world, total, scored, prediction, trace, outcome, todo, half, faults>>

\* Any error inside an evaluation skips its prediction, but for the errors of
\* the subsystem, such as a class without a base rate: they end the run.  A
\* resolution that is skipped before its class is evaluated (too near its
\* cutoff, no frozen data, no polarity) raises none.
Evaluable(run) == \A r \in InScope(run) : ClassOf[r] \in rated

Evaluate(run) ==
    /\ phase = "evaluate" /\ current = {run}
    /\ outcome' \in
        {f \in [Resolutions -> Outcomes] :
            \A r \in Resolutions :
                /\ f[r] = "none" <=> r \notin InScope(run)
                /\ f[r] = "scored" => ClassOf[r] \in rated}
    /\ todo' = InScope(run)
    /\ phase' = "persist"
    /\ UNCHANGED <<world, tables, current, half, faults>>

InsertPrediction(run, r) ==
    /\ phase = "persist" /\ current = {run} /\ half = {} /\ r \in todo
    /\ prediction' = [prediction EXCEPT ![run][r] = outcome[r]]
    /\ todo' = todo \ {r}
    /\ half' = IF outcome[r] = "scored" THEN {r} ELSE {}
    /\ UNCHANGED <<world, status, total, scored, trace, phase, current, outcome, faults>>

InsertTrace(run, r) ==
    /\ phase = "persist" /\ current = {run} /\ r \in half
    /\ trace' = [trace EXCEPT ![run] = @ \cup {r}]
    /\ half' = half \ {r}
    /\ UNCHANGED <<world, status, total, scored, prediction, phase, current, outcome,
                   todo, faults>>

Counted(f)       == Cardinality({r \in Resolutions : f[r] # "none"})
CountedScored(f) == Cardinality({r \in Resolutions : f[r] = "scored"})

CompleteRun(run) ==
    /\ phase = "persist" /\ current = {run} /\ todo = {} /\ half = {}
    /\ status' = [status EXCEPT ![run] = "complete"]
    /\ total' = [total EXCEPT ![run] = Counted(outcome)]
    /\ scored' = [scored EXCEPT ![run] = CountedScored(outcome)]
    /\ ForgetLocals
    /\ UNCHANGED <<world, prediction, trace, faults>>

MarkFailed(run) ==
    /\ status' = [status EXCEPT ![run] = "failed"]
    /\ ForgetLocals
    /\ UNCHANGED <<world, total, scored, prediction, trace>>

\* The class of some resolution has no base rate, and its evaluation was reached.
FailEvaluation(run) ==
    /\ phase = "evaluate" /\ current = {run} /\ ~Evaluable(run)
    /\ MarkFailed(run)
    /\ UNCHANGED faults

\* Faulty variant: the statement that failed is skipped.
SkipStatement(run) ==
    /\ phase = "persist" /\ current = {run}
    /\ IF half # {} THEN half' = {} /\ UNCHANGED todo
                    ELSE UNCHANGED half /\ \E r \in todo : todo' = todo \ {r}
    /\ Fault
    /\ UNCHANGED <<world, tables, phase, current, outcome>>

\* A statement fails, in the evaluations or after them.
FailStatement(run) ==
    /\ phase \in {"evaluate", "persist"} /\ current = {run}
    /\ MarkFailed(run)
    /\ Fault

-----------------------------------------------------------------------------
(* calibration-backtest prune.                                             *)

\* Faulty variant: a row in progress is taken for a replay at work.
Ended == {run \in Runs : status[run] \in {"complete", "failed"}}

Listed == {run \in Runs : status[run] # "none"}

\* The rows started before a date: any subset, as the dates may be.
StartPrune(chosen) ==
    /\ phase = "idle"
    /\ chosen \subseteq Listed
    /\ phase' = "prune" /\ current' = chosen
    /\ UNCHANGED <<world, tables, outcome, todo, half, faults>>

\* Faulty variant: the run row and its predictions go, the traces stay.
PruneRow(run) ==
    /\ phase = "prune" /\ run \in current
    /\ status' = [status EXCEPT ![run] = "none"]
    /\ total' = [total EXCEPT ![run] = 0] /\ scored' = [scored EXCEPT ![run] = 0]
    /\ prediction' = [prediction EXCEPT ![run] = NoOutcome]
    /\ current' = current \ {run}
    /\ UNCHANGED <<world, trace, phase, outcome, todo, half, faults>>

\* Traces, predictions and the row, in one transaction.
PruneRun(run) ==
    /\ phase = "prune" /\ run \in current
    /\ status' = [status EXCEPT ![run] = "none"]
    /\ total' = [total EXCEPT ![run] = 0] /\ scored' = [scored EXCEPT ![run] = 0]
    /\ prediction' = [prediction EXCEPT ![run] = NoOutcome]
    /\ trace' = [trace EXCEPT ![run] = {}]
    /\ current' = current \ {run}
    /\ UNCHANGED <<world, phase, outcome, todo, half, faults>>

FinishPrune ==
    /\ phase = "prune" /\ current = {}
    /\ ForgetLocals
    /\ UNCHANGED <<world, tables, faults>>

-----------------------------------------------------------------------------

\* A kill, or an error that the failed status could not be stored after either:
\* a row stays in progress.
Kill ==
    /\ phase # "idle"
    /\ ForgetLocals
    /\ Fault
    /\ UNCHANGED <<world, tables>>

Step ==
    \/ \E run \in Runs :
        \/ Evaluate(run) \/ CompleteRun(run) \/ FailEvaluation(run) \/ PruneRun(run)
        \/ \E r \in Resolutions : InsertPrediction(run, r) \/ InsertTrace(run, r)
    \/ FinishPrune

Failure == (\E run \in Runs : FailStatement(run)) \/ Kill

Command == (\E run \in Runs : StartReplay(run)) \/ (\E chosen \in SUBSET Runs : StartPrune(chosen))

World ==
    \/ \E r \in Resolutions : StoreResolution(r)
    \/ \E c \in Classes : RateClass(c)

Next == Step \/ Failure \/ Command \/ World

Spec == Init /\ [][Next]_vars

\* A command goes on once started, markets resolve, the library is refreshed,
\* and an operator who is refused a run deletes its row and tries again.
Fairness ==
    /\ WF_vars(Step)
    /\ \A r \in Resolutions : SF_vars(StoreResolution(r))
    /\ \A c \in Classes : SF_vars(RateClass(c))
    /\ \A run \in Runs :
        /\ SF_vars(StartReplay(run))
        /\ SF_vars(status[run] # "complete" /\ StartPrune({run}))

FairSpec == Spec /\ Fairness

-----------------------------------------------------------------------------
(* Properties.                                                             *)

\* replay.py: what the cache answers of a complete run is what its row says:
\* the counted predictions are stored, and each scored one with its trace.
CompleteIsWhole ==
    \A run \in Runs :
        status[run] = "complete" =>
            /\ total[run] = Counted(prediction[run])
            /\ scored[run] = CountedScored(prediction[run])
            /\ trace[run] = {r \in Resolutions : prediction[run][r] = "scored"}

StoredRows(run) ==
    {<<"prediction", r>> : r \in {q \in Resolutions : prediction[run][q] # "none"}}
    \cup {<<"trace", r>> : r \in trace[run]}

Ledger == INSTANCE RunLedger WITH
    Rows  <- {"prediction", "trace"} \X Resolutions,
    state <- status,
    rows  <- [run \in Runs |-> StoredRows(run)]

\* persistence/operations.py: the tables are an append-only ledger of runs.
ImplementsLedger == Ledger!Spec

\* replay.py: whatever failed or was killed, each run gets complete once.
EventuallyComplete == \A run \in Runs : <>(status[run] = "complete")

=============================================================================
