------------------------------ MODULE Backfill ------------------------------
(***************************************************************************)
(* data_ingest/backfill.py: one source's historical backfill, run by       *)
(* `razor-rooster ingest backfill`, paused by the disk caps                *)
(* (cap_enforcement.py), interrupted at any point and run again.           *)
(*                                                                         *)
(* Durable state: the source's rows in its canonical table (`stored`, the  *)
(* records that have a row, of which those in `torn` have only superseded  *)
(* ones) and the backfill_state row (`row`).  The rest is memory of the    *)
(* running command and is lost when it stops.                              *)
(***************************************************************************)
EXTENDS ResumeTokens, FiniteSets

CONSTANTS
    BatchSize,  \* records per batch, defaults.batch_size of the schedule
    MaxStops    \* bound on failures, kills and global-cap episodes explored

ASSUME BatchSizeAssumption == BatchSize \in Nat \ {0}
ASSUME MaxStopsAssumption  == MaxStops \in Nat

VARIABLES
    grain,      \* how the source's connector makes its tokens; fixed
    stored,     \* records of the source with a row in the canonical table
    torn,       \* those of them whose rows are all superseded
    row,        \* the backfill_state row: [token, status, count]
    pc,         \* where run_backfill is: "idle" when no command runs
    run,        \* its locals: [mode, next, from, last, count, lo, hi]
    cap,        \* per_source[source].max_bytes, in records
    corpus,     \* "full": above pause_backfill_at_pct of the global cap
    stops       \* failures, kills and global-cap episodes so far

vars == <<grain, stored, torn, row, pc, run, cap, corpus, stops>>

PauseStatuses == {"CAP_REACHED", "GLOBAL_CAP_REACHED"}
Statuses == {"none", "in_progress", "completed", "failed"} \cup PauseStatuses
Modes == {"resume", "restart"}  \* without or with --restart
Corpus == {"roomy", "full"}
Pcs == {"idle", "pull", "batch", "insert", "merged", "ended"}

Runs == [mode : Modes, next : Nat, from : Nat, last : Tokens,
         count : Nat, lo : Nat, hi : Nat]

NoRun == [mode |-> "resume", next |-> 1, from |-> 0, last |-> NoToken,
          count |-> 0, lo |-> 1, hi |-> 0]

\* What a reader of the table finds.
Held == stored \ torn

TypeOK ==
    /\ grain \in Connectors
    /\ stored \in SUBSET (1 .. N)
    /\ torn \in SUBSET stored
    /\ row \in [token : Tokens, status : Statuses, count : Nat]
    /\ pc \in Pcs
    /\ run \in Runs
    /\ cap \in 1 .. N + 1
    /\ corpus \in Corpus
    /\ stops \in 0 .. MaxStops

\* A source never backfilled has no row; the readers see (None, None).
Init ==
    /\ grain \in Connectors
    /\ stored = {} /\ torn = {}
    /\ row = [token |-> NoToken, status |-> "none", count |-> 0]
    /\ pc = "idle"
    /\ run = NoRun
    /\ cap \in 1 .. N + 1
    /\ corpus = "roomy"
    /\ stops = 0

-----------------------------------------------------------------------------
(* The steps of run_backfill.                                              *)

\* upsert_backfill_state
Upsert(token, status, count) ==
    row' = [token |-> token, status |-> status, count |-> count]

\* The command starts: read the prior token (unless --restart), mark the row
\* in_progress, and position the connector's stream.
Begin(mode) ==
    LET token == IF mode = "restart" THEN NoToken ELSE row.token IN
    /\ pc = "idle"
    /\ Upsert(token, "in_progress", 0)
    /\ run' = [NoRun EXCEPT !.mode = mode,
                         !.next = token.done + 1, !.from = token.from]
    /\ pc' = "pull"
    /\ UNCHANGED <<grain, stored, torn, cap, corpus, stops>>

\* _batched_records: the next batch, or the end of the stream.
PullBatch ==
    /\ pc = "pull"
    /\ run.next =< N
    /\ run' = [run EXCEPT !.lo = run.next,
                          !.hi = IF run.next + BatchSize - 1 =< N
                                 THEN run.next + BatchSize - 1 ELSE N]
    /\ pc' = "batch"
    /\ UNCHANGED <<grain, stored, torn, row, cap, corpus, stops>>

StreamEnds ==
    /\ pc = "pull"
    /\ run.next > N
    /\ pc' = "ended"
    /\ UNCHANGED <<grain, stored, torn, row, run, cap, corpus, stops>>

PauseReasonAhead ==
    IF corpus = "full" THEN "GLOBAL_CAP_REACHED"
    ELSE IF Cardinality(stored) + BatchSize >= cap THEN "CAP_REACHED" ELSE "none"

\* cap_enforcement.check: the global cap takes precedence over the source's.
PauseReason ==
    IF corpus = "full" THEN "GLOBAL_CAP_REACHED"
    ELSE IF Cardinality(stored) >= cap THEN "CAP_REACHED" ELSE "none"

\* The cap check pauses the run: the row takes the run's own last token.
Pause ==
    /\ pc = "batch"
    /\ PauseReason \in PauseStatuses
    /\ Upsert(run.last, PauseReason, run.count)
    /\ pc' = "idle"
    /\ run' = NoRun
    /\ UNCHANGED <<grain, stored, torn, cap, corpus, stops>>

\* The cap check passes and the persister's merge supersedes, one autocommitted
\* UPDATE each, the rows of the batch's records that the source has revised.
Supersede ==
    /\ pc = "batch"
    /\ PauseReason = "none"
    /\ \E R \in SUBSET (run.lo .. run.hi \cap Held) : torn' = torn \cup R
    /\ pc' = "insert"
    /\ UNCHANGED <<grain, stored, row, run, cap, corpus, stops>>

\* The merge inserts the batch; the report's counters and last token follow in
\* memory.
Persist ==
    /\ pc = "insert"
    /\ stored' = stored \cup run.lo .. run.hi
    /\ torn' = torn \ (run.lo .. run.hi)
    /\ run' = [run EXCEPT !.last = TokenAt(grain, run.hi, run.from),
                          !.count = run.count + (run.hi - run.lo + 1),
                          !.next = run.hi + 1]
    /\ pc' = "merged"
    /\ UNCHANGED <<grain, row, cap, corpus, stops>>

\* Faulty variant: the token is written at the end of the run only.
SaveTokenLate ==
    /\ pc = "merged"
    /\ Upsert(row.token, "in_progress", run.count)
    /\ pc' = "pull"
    /\ UNCHANGED <<grain, stored, torn, run, cap, corpus, stops>>

\* The token reaches the row only after the batch is committed.
SaveToken ==
    /\ pc = "merged"
    /\ Upsert(run.last, "in_progress", run.count)
    /\ pc' = "pull"
    /\ UNCHANGED <<grain, stored, torn, run, cap, corpus, stops>>

Complete ==
    /\ pc = "ended"
    /\ Upsert(run.last, "completed", run.count)
    /\ pc' = "idle"
    /\ run' = NoRun
    /\ UNCHANGED <<grain, stored, torn, cap, corpus, stops>>

\* Faulty variant: the handler saves the token of the batch that failed.
FailSavesBatch ==
    /\ pc # "idle"
    /\ stops < MaxStops
    /\ Upsert(IF pc \in {"batch", "insert"} THEN TokenAt(grain, run.hi, run.from) ELSE run.last, "failed", run.count)
    /\ pc' = "idle"
    /\ run' = NoRun
    /\ stops' = stops + 1
    /\ UNCHANGED <<grain, stored, torn, cap, corpus>>

\* An exception in the fetch, the normalisation, the merge or an upsert: the
\* handler marks the row failed with the run's own last token and re-raises.
Fail ==
    /\ pc # "idle"
    /\ stops < MaxStops
    /\ Upsert(run.last, "failed", run.count)
    /\ pc' = "idle"
    /\ run' = NoRun
    /\ stops' = stops + 1
    /\ UNCHANGED <<grain, stored, torn, cap, corpus>>

\* Ctrl-C (not an Exception), a kill or a reboot, or a handler whose own
\* upsert fails: nothing more is written.
Interrupt ==
    /\ pc # "idle"
    /\ stops < MaxStops
    /\ pc' = "idle"
    /\ run' = NoRun
    /\ stops' = stops + 1
    /\ UNCHANGED <<grain, stored, torn, row, cap, corpus>>

-----------------------------------------------------------------------------
(* The operator and the other sources that share the disk.                 *)

RaiseCap ==
    /\ pc = "idle"
    /\ cap < N + 1
    /\ cap' = cap + 1
    /\ UNCHANGED <<grain, stored, torn, row, pc, run, corpus, stops>>

CorpusFills ==
    /\ corpus = "roomy"
    /\ stops < MaxStops
    /\ corpus' = "full"
    /\ stops' = stops + 1
    /\ UNCHANGED <<grain, stored, torn, row, pc, run, cap>>

CorpusShrinks ==
    /\ corpus = "full"
    /\ corpus' = "roomy"
    /\ UNCHANGED <<grain, stored, torn, row, pc, run, cap, stops>>

RunStep ==
    \/ PullBatch \/ StreamEnds \/ Pause \/ Supersede \/ Persist
    \/ SaveToken \/ Complete

Next ==
    \/ \E mode \in Modes : Begin(mode)
    \/ PullBatch \/ StreamEnds \/ Pause \/ Supersede \/ Persist
    \/ SaveToken \/ Complete
    \/ Fail \/ Interrupt
    \/ RaiseCap \/ CorpusFills \/ CorpusShrinks

Spec == Init /\ [][Next]_vars

\* A running command is sequential code that keeps going.
RunFairness == WF_vars(RunStep)

\* The operator runs the command again until it completes, without --restart,
\* and makes room when a cap stopped it.
OperatorFairness ==
    /\ WF_vars(row.status # "completed" /\ Begin("resume"))
    /\ SF_vars(RaiseCap)
    /\ WF_vars(CorpusShrinks)

FairSpec == Spec /\ RunFairness /\ OperatorFairness

-----------------------------------------------------------------------------
(* Properties.                                                             *)

\* What a token says is done is in the table, with an active row even if a merge
\* of a later run was cut in two: a resumed run skips nothing
\* (base.py: a token is produced "at points where resumption is safe").
TokenSound == row.token # NoToken => \A i \in 1 .. N : i =< row.token.done => i \in Held

\* A row marked completed means the whole window is in the table, however many
\* runs, pauses, failures and kills it took.
CompletedIsWhole == row.status = "completed" => Held = 1 .. N

\* A kill at this moment costs at most one batch (and, for the offset grain, the
\* page the batch ended in): what the run fetched and the row's token does not
\* cover is the batch whose token is about to be saved.
WorkAtRisk ==
    pc # "idle" =>
        run.next - 1 - row.token.done
            =< BatchSize + IF grain = "offset" THEN PageSize ELSE 0

\* Progress is kept: a saved token moves back only to the beginning, and only when
\* the operator starts over or a run stops before its first batch.
TokenAdvances ==
    [][row'.token.done < row.token.done
        => row'.token = NoToken /\ (run'.mode = "restart" \/ run.last = NoToken)]_vars

\* What a backfill promises: a copy of the window with a checkpoint, of which
\* none of its own runs loses anything.
Copy == INSTANCE CheckpointedCopy
    WITH Items <- 1 .. N, wanted <- 1 .. N, copied <- Held, lost <- {},
         covered <- 1 .. row.token.done, whole <- (row.status = "completed")

\* Every behaviour of the backfill is one of the checkpointed copy.
ImplementsCopy == Copy!Spec

\* Enough re-runs complete the backfill: pauses, failures and kills only delay it.
EventuallyCompleted == <>(row.status = "completed")

=============================================================================
