----------------------------- MODULE IngestCycle -----------------------------
(***************************************************************************)
(* data_ingest/scheduler.py: evaluate_due, run_cycle, the per-connector    *)
(* persister, and connectors/base.py: run_incremental.                     *)
(*                                                                         *)
(* A cycle decides which sources are due, runs each on a worker of a       *)
(* bounded pool (or one by one), and moves a source's watermark            *)
(* last_successful_fetch to the moment the cycle started.  The database is *)
(* autocommit, so a crash keeps the batches already merged.                *)
(*                                                                         *)
(* An item of a source is the tick it is about (its event or observation   *)
(* date); it is published Lag ticks later, however long that is.  A merge  *)
(* first supersedes the rows of what the source has revised and then       *)
(* inserts: StagingMerge has the details, here a table is the set of items *)
(* it holds and `gone` those of them whose rows are all superseded.        *)
(***************************************************************************)
EXTENDS Integers, FiniteSets

CONSTANTS
    Sources,        \* the scheduled sources that have a connector
    Gated,          \* those whose stream first reads the license row (ACLED)
    Filter,         \* Filter[s]: what fetch_incremental(since) asks the source for
    Lag,            \* Lag[s]: ticks from an item's date to its publication
    Cadence,        \* ticks between fetches
    MaxWorkers,     \* defaults.max_workers
    Conns,          \* max_connections of the store
    MaxTime,        \* bound: ticks
    MaxFaults       \* bound: errors, missing credentials and crashes

ASSUME GatedAssumption == Gated \subseteq Sources
ASSUME FilterAssumption == Filter \in [Sources -> {"all", "published", "occurred"}]
ASSUME LagAssumption == Lag \in [Sources -> Nat]
ASSUME NumbersAssumption ==
    /\ Cadence \in Nat \ {0} /\ MaxWorkers \in Nat \ {0} /\ Conns \in Nat \ {0}
    /\ MaxTime \in Nat /\ MaxFaults \in Nat

VARIABLES
    now,
    table,          \* table[s]: the items of s in its canonical table
    gone,           \* gone[s]: those of them that have superseded rows only
    lastOk,         \* sources.last_successful_fetch, Never when NULL
    lastFail,       \* sources.last_failed_fetch, Never when NULL
    phase,          \* "running" while a process runs a cycle, else "idle"
    started,        \* started_at of the cycle
    pooled,         \* "pool" when the cycle runs on the executor, else "serial"
    st,             \* st[s]: how far s has come in this cycle
    since,          \* since[s]: the watermark the decision was made from
    buffer,         \* buffer[s]: items fetched and not merged yet
    batch,          \* batch[s]: those of them whose merge has begun
    overtaken,      \* history, overtaken[s]: items of a source asked by their date,
                    \* dated before a watermark of it and published after
    faults

db      == <<table, gone, lastOk, lastFail, overtaken>>
stream  == <<buffer, batch>>
cycle   == <<phase, started, pooled, since>>
cycleVars == <<now, db, cycle, st, stream, faults>>

Never == -1

Items == 0..MaxTime

\* What a worker is at: "conn" and "gate" wait for a connection, "ok",
\* "failed" and "skipped" have left run_incremental with that status and wait
\* for a connection to record it.
Waiting == {"conn", "gate", "ok", "failed", "skipped"}
Active  == Waiting \cup {"fetch", "flush", "merge"}
Stages  == Active \cup {"off", "queued", "done"}

CycleTypeOK ==
    /\ now \in Nat
    /\ table \in [Sources -> SUBSET Items]
    /\ gone \in [Sources -> SUBSET Items]
    /\ lastOk \in [Sources -> Int]
    /\ lastFail \in [Sources -> Int]
    /\ phase \in {"idle", "running"}
    /\ started \in Nat
    /\ pooled \in {"pool", "serial"}
    /\ st \in [Sources -> Stages]
    /\ since \in [Sources -> Int]
    /\ buffer \in [Sources -> SUBSET Items]
    /\ batch \in [Sources -> SUBSET Items]
    /\ overtaken \in [Sources -> SUBSET Items]
    /\ faults \in Nat

CycleInit ==
    /\ now = 0
    /\ table = [s \in Sources |-> {}]
    /\ gone = [s \in Sources |-> {}]
    /\ lastOk = [s \in Sources |-> Never]
    /\ lastFail = [s \in Sources |-> Never]
    /\ phase = "idle"
    /\ started = 0
    /\ pooled = "serial"
    /\ st = [s \in Sources |-> "off"]
    /\ since = [s \in Sources |-> Never]
    /\ buffer = [s \in Sources |-> {}]
    /\ batch = [s \in Sources |-> {}]
    /\ overtaken = [s \in Sources |-> {}]
    /\ faults = 0

\* What a reader of the table finds.
Shown(s) == table[s] \ gone[s]

\* External: what a source shows at the moment, and what it answers when asked
\* for what came since w, by publication date, by the date the item is about, or
\* at all.
Published(s) == {i \in Items : i + Lag[s] <= now}

Matches(s, i, w) ==
    /\ Filter[s] = "published" => i + Lag[s] >= w
    /\ Filter[s] = "occurred"  => i >= w

Answer(s) == {i \in Published(s) : Matches(s, i, since[s])}

\* The persister's connection is held from before the stream starts to its end.
Holders == {s \in Sources : st[s] \in {"gate", "fetch", "flush", "merge"}}
Spare   == Cardinality(Holders) < Conns

Goto(s, stage) == st' = [st EXCEPT ![s] = stage]

At(s, stage) == phase = "running" /\ st[s] = stage

Fault == faults < MaxFaults /\ faults' = faults + 1

-----------------------------------------------------------------------------
(* The cycle.                                                              *)

IsDue(s) == lastOk[s] = Never \/ now - lastOk[s] >= Cadence

BeginCycle(only) ==
    /\ phase = "idle"
    /\ LET due == {s \in only : IsDue(s)} IN
          /\ st' = [s \in Sources |-> IF s \in due THEN "queued" ELSE "off"]
          /\ pooled' = IF MaxWorkers <= 1 \/ Cardinality(due) <= 1 THEN "serial" ELSE "pool"
    /\ phase' = "running"
    /\ started' = now
    /\ since' = lastOk
    /\ buffer' = [s \in Sources |-> {}]
    /\ batch' = [s \in Sources |-> {}]
    /\ UNCHANGED <<now, db, faults>>

\* The process is gone, and its memory with it: at the end of the cycle, at an
\* exception that leaves run_cycle, or killed.
Stop ==
    /\ phase' = "idle" /\ started' = 0 /\ pooled' = "serial"
    /\ since' = [s \in Sources |-> Never]
    /\ st' = [s \in Sources |-> "off"]
    /\ buffer' = [s \in Sources |-> {}] /\ batch' = [s \in Sources |-> {}]

Running == {s \in Sources : st[s] \in Active}

Slots == IF pooled = "pool" THEN MaxWorkers ELSE 1

\* A worker picks the source up: credentials, connector and persister are built.
Start(s) ==
    /\ At(s, "queued")
    /\ Cardinality(Running) < Slots
    /\ Goto(s, "conn")
    /\ UNCHANGED <<now, db, cycle, stream, faults>>

\* run_one raises: the pool's loop reports it; the serial loop passes it on.
Raise(s) ==
    \/ pooled = "pool" /\ Goto(s, "done") /\ UNCHANGED <<cycle, stream>>
    \/ pooled = "serial" /\ Stop

\* The connector cannot be built (its series or query configuration is broken).
SetupFails(s) ==
    /\ At(s, "queued")
    /\ Cardinality(Running) < Slots
    /\ Fault
    /\ Raise(s)
    /\ UNCHANGED <<now, db>>

\* Faulty variant: the sources that were not due are waited for as well.
EndCycleWaitsAll ==
    /\ phase = "running"
    /\ \A s \in Sources : st[s] = "done"
    /\ Stop
    /\ UNCHANGED <<now, db, faults>>

EndCycle ==
    /\ phase = "running"
    /\ \A s \in Sources : st[s] \in {"off", "done"}
    /\ Stop
    /\ UNCHANGED <<now, db, faults>>

-----------------------------------------------------------------------------
(* run_incremental and the persister.                                      *)

TakeConnection(s) ==
    /\ At(s, "conn")
    /\ Spare
    /\ Goto(s, IF s \in Gated THEN "gate" ELSE "fetch")
    /\ UNCHANGED <<now, db, cycle, stream, faults>>

\* ConnectionAcquisitionTimeout, in the persister or in the license gate that
\* asks for a second connection: both are the source's failure.
TimesOut(s) ==
    /\ At(s, "conn") \/ At(s, "gate")
    /\ ~Spare
    /\ Goto(s, "failed")
    /\ UNCHANGED <<now, db, cycle, stream, faults>>

PassGate(s) ==
    /\ At(s, "gate")
    /\ Spare
    /\ Goto(s, "fetch")
    /\ UNCHANGED <<now, db, cycle, stream, faults>>

\* The source answers; the records are those it shows at this moment.
Fetch(s) ==
    /\ At(s, "fetch")
    /\ buffer' = [buffer EXCEPT ![s] = Answer(s)]
    /\ Goto(s, "flush")
    /\ UNCHANGED <<now, db, cycle, batch, faults>>

\* The merge of a batch supersedes the rows of its revised items, each in a
\* transaction of its own.
BeginFlush(s) ==
    /\ At(s, "flush")
    /\ \E B \in SUBSET buffer[s] :
          /\ B # {}
          /\ batch' = [batch EXCEPT ![s] = B]
          /\ \E R \in SUBSET (B \cap table[s]) : gone' = [gone EXCEPT ![s] = @ \cup R]
    /\ Goto(s, "merge")
    /\ UNCHANGED <<now, table, lastOk, lastFail, overtaken, cycle, buffer, faults>>

\* Then it inserts the batch.
Flush(s) ==
    /\ At(s, "merge")
    /\ table' = [table EXCEPT ![s] = @ \cup batch[s]]
    /\ gone' = [gone EXCEPT ![s] = @ \ batch[s]]
    /\ buffer' = [buffer EXCEPT ![s] = @ \ batch[s]]
    /\ batch' = [batch EXCEPT ![s] = {}]
    /\ Goto(s, "flush")
    /\ UNCHANGED <<now, lastOk, lastFail, overtaken, cycle, faults>>

EndStream(s) ==
    /\ At(s, "flush")
    /\ buffer[s] = {}
    /\ Goto(s, "ok")
    /\ UNCHANGED <<now, db, cycle, stream, faults>>

\* Anything raised while streaming; a missing credential skips the source.
StreamFails(s) ==
    /\ At(s, "gate") \/ At(s, "fetch") \/ At(s, "flush") \/ At(s, "merge")
    /\ Fault
    /\ \/ Goto(s, "failed")
       \/ st[s] = "fetch" /\ Goto(s, "skipped")
    /\ UNCHANGED <<now, db, cycle, stream>>

\* The items a watermark w overtakes: the source is asked by their date, which is
\* before w, and they are published after w.
Behind(s, w) == {i \in Items : Filter[s] = "occurred" /\ i < w /\ w < i + Lag[s]}

\* Faulty variants of Record: the watermark set to the clock; the failure kept
\* after a success; a failure that clears the watermark; a failure taken for a
\* success.
RecordAs(s, lastOks, lastFails) ==
    /\ phase = "running"
    /\ st[s] \in {"ok", "failed", "skipped"}
    /\ Spare
    /\ lastOk' = [lastOk EXCEPT ![s] = lastOks]
    /\ overtaken' = [overtaken EXCEPT ![s] = @ \cup Behind(s, lastOks)]
    /\ lastFail' = [lastFail EXCEPT ![s] = lastFails]
    /\ Goto(s, "done")
    /\ UNCHANGED <<now, table, gone, cycle, stream, faults>>

RecordNow(s) ==
    IF st[s] = "ok" THEN RecordAs(s, now, Never) ELSE RecordAs(s, lastOk[s], started)

RecordKeepsFailure(s) ==
    IF st[s] = "ok" THEN RecordAs(s, started, lastFail[s]) ELSE RecordAs(s, lastOk[s], started)

RecordAllOk(s) == RecordAs(s, started, Never)

\* run_one records the status, on a connection of its own.
Record(s) ==
    /\ phase = "running"
    /\ Spare
    /\ \/ st[s] = "ok" /\ lastOk' = [lastOk EXCEPT ![s] = started]
                       /\ lastFail' = [lastFail EXCEPT ![s] = Never]
                       /\ overtaken' = [overtaken EXCEPT ![s] = @ \cup Behind(s, started)]
       \/ st[s] = "failed" /\ lastFail' = [lastFail EXCEPT ![s] = started]
                           /\ UNCHANGED <<lastOk, overtaken>>
       \/ st[s] = "skipped" /\ UNCHANGED <<lastOk, lastFail, overtaken>>
    /\ Goto(s, "done")
    /\ UNCHANGED <<now, table, gone, cycle, stream, faults>>

\* No connection within the timeout, or the statement fails: run_one raises.
RecordFails(s) ==
    /\ phase = "running"
    /\ st[s] \in {"ok", "failed", "skipped"}
    /\ (~Spare /\ UNCHANGED faults) \/ Fault
    /\ Raise(s)
    /\ UNCHANGED <<now, db>>

-----------------------------------------------------------------------------
(* The environment.                                                        *)

Tick ==
    /\ now < MaxTime
    /\ now' = now + 1
    /\ UNCHANGED <<db, cycle, st, stream, faults>>

\* The process dies; the database keeps what was merged.
Crash ==
    /\ phase = "running"
    /\ Fault
    /\ Stop
    /\ UNCHANGED <<now, db>>

WorkerStep(s) ==
    \/ Start(s) \/ TakeConnection(s) \/ TimesOut(s) \/ PassGate(s) \/ Fetch(s)
    \/ BeginFlush(s) \/ Flush(s) \/ EndStream(s) \/ Record(s) \/ RecordFails(s)

\* The operator runs the whole schedule, or one source with --source.
Selections == {Sources} \cup {{s} : s \in Sources}

CycleNext ==
    \/ \E only \in Selections : BeginCycle(only)
    \/ \E s \in Sources :
          \/ Start(s) \/ SetupFails(s) \/ TakeConnection(s) \/ TimesOut(s) \/ PassGate(s)
          \/ Fetch(s) \/ BeginFlush(s) \/ Flush(s) \/ EndStream(s) \/ StreamFails(s)
          \/ Record(s) \/ RecordFails(s)
    \/ EndCycle
    \/ Tick
    \/ Crash

CycleSpec == CycleInit /\ [][CycleNext]_cycleVars

\* Worker threads run, connection waits time out, the executor shuts down, time
\* passes, and the operator's daily job runs the whole schedule again.
CycleFairness ==
    /\ \A s \in Sources : WF_cycleVars(WorkerStep(s))
    /\ WF_cycleVars(EndCycle)
    /\ WF_cycleVars(Tick)
    /\ SF_cycleVars(BeginCycle(Sources))

CycleFairSpec == CycleSpec /\ CycleFairness

-----------------------------------------------------------------------------
(* Properties.                                                             *)

\* What last_successful_fetch hides.  Everything published by then is in the
\* table, or has lost its row to a merge that was cut in two and is asked for
\* again by the next fetch; only a source that is asked by the date of its items
\* (ACLED) loses any, and only those that an earlier watermark overtook.
Kept(s, i) == i \in Shown(s) \/ (i \in gone[s] /\ Matches(s, i, lastOk[s]))

WatermarkSound ==
    \A s \in Sources, i \in Items : i + Lag[s] <= lastOk[s] => Kept(s, i) \/ i \in overtaken[s]

\* A source that the freshness view shows as failing failed after its last success.
FailureIsNews == \A s \in Sources : lastFail[s] # Never => lastFail[s] >= lastOk[s]

\* The watermark never moves back.
WatermarkAdvances == [][\A s \in Sources : lastOk'[s] >= lastOk[s]]_cycleVars

\* No cycle hangs, not even when every worker waits for another's connection.
CycleEnds == phase = "running" ~> phase = "idle"

\* Every item that a fetch can still come due for before the horizon reaches its
\* table, unless a watermark overtook it at a source that is asked by date.
EventuallyIngested ==
    \A s \in Sources, i \in Items :
        i + Lag[s] + Cadence - 1 <= MaxTime => <>(i \in Shown(s) \cup overtaken[s])

=============================================================================
