--------------------------- MODULE ResolutionSync ---------------------------
(***************************************************************************)
(* polymarket_connector/sync/resolutions.py: the resumable backfill of     *)
(* resolved markets and the daily delta, over Gamma's listing of resolved  *)
(* markets.                                                                *)
(*                                                                         *)
(* Markets are numbered in the order they resolve, and the listing is      *)
(* newest first: the page at an offset moves towards newer markets while   *)
(* other markets resolve.  The jobs run one at a time (a CLI invocation    *)
(* owns the database file), each a sequence of autocommitted statements    *)
(* between which it may fail or be killed.  The staging merge of a page is *)
(* two of them here: it supersedes the active row of every market whose    *)
(* payload was revised, and then inserts the page in one statement.  A job *)
(* that ends in between leaves those markets without an active row.        *)
(* (StagingMerge opens the merge further.)  Of the freshness row a job     *)
(* also touches, only the failure of that write matters here.              *)
(***************************************************************************)
EXTENDS Integers, FiniteSets

CONSTANTS
    PageSize,       \* page_size
    MaxPages,       \* max_pages of the delta
    MaxBurst,       \* markets that may resolve between two requests of a job
    MaxResolved,    \* bound: markets that ever resolve
    MaxFaults       \* bound: failures and kills

ASSUME PageSizeAssumption    == PageSize \in Nat \ {0}
ASSUME MaxPagesAssumption    == MaxPages \in Nat \ {0}
ASSUME BurstAssumption       == MaxBurst \in Nat /\ MaxBurst < PageSize
ASSUME MaxResolvedAssumption == MaxResolved \in Nat
ASSUME MaxFaultsAssumption   == MaxFaults \in Nat

VARIABLES
    resolved,   \* how many markets have resolved at Polymarket
    burst,      \* how many of them since the running job's last request
    stored,     \* markets with a row in polymarket_resolutions, active or not
    torn,       \* those of them whose rows are all superseded
    lost,       \* history: the torn ones that no resumed backfill lists again
    marked,     \* markets the UPDATE of polymarket_markets has reached
    row,        \* the job's row in backfill_state
    job,        \* the running job and its locals
    cutTop,     \* history: the newest market when a job last was cut short
    faults

vars == <<resolved, burst, stored, torn, lost, marked, row, job, cutTop, faults>>

table == <<stored, torn, lost>>

\* The markets that a reader of the table finds.
Active == stored \ torn

Larger(a, b) == IF a >= b THEN a ELSE b

(***************************************************************************)
(* The row's "base" and the job's are history: the newest market that the  *)
(* walk behind the saved offset has asked for.                             *)
(***************************************************************************)
Rows == [offset: Nat, status: {"none", "in_progress", "failed", "completed"},
         base: Nat]
NoRow == [offset |-> 0, status |-> "none", base |-> 0]

Jobs == [kind: {"none", "backfill", "delta"},
         pc: {"idle", "fetch", "persist", "insert", "mark", "save", "next", "complete"},
         offset: Nat, lo: Int, hi: Int, pages: Nat,
         fresh: {"yes", "no"}, base: Nat]
NoJob == [kind |-> "none", pc |-> "idle", offset |-> 0, lo |-> 1, hi |-> 0,
          pages |-> 0, fresh |-> "no", base |-> 0]

Running(kind, pc) == job.kind = kind /\ job.pc = pc
Page == job.lo .. job.hi
PageIsShort == job.hi - job.lo + 1 < PageSize

Init ==
    /\ resolved \in 0 .. MaxResolved
    /\ burst = 0
    /\ stored = {} /\ torn = {} /\ lost = {}
    /\ marked = {}
    /\ row = NoRow
    /\ job = NoJob
    /\ cutTop = 0
    /\ faults = 0

(***************************************************************************)
(* Another market resolves.  Fewer than a page of them do so between two   *)
(* requests of one job.                                                    *)
(***************************************************************************)
Resolve ==
    /\ resolved < MaxResolved
    /\ \/ job.kind = "none" /\ burst' = 0
       \/ job.kind # "none" /\ burst < MaxBurst /\ burst' = burst + 1
    /\ resolved' = resolved + 1
    /\ UNCHANGED <<table, marked, row, job, cutTop, faults>>

Begin(kind, offset, base) ==
    /\ job.kind = "none"
    /\ job' = [NoJob EXCEPT !.kind = kind, !.pc = "fetch",
                            !.offset = offset, !.base = base]
    /\ burst' = 0
    /\ UNCHANGED <<resolved, table, marked, cutTop, faults>>

BeginBackfill ==
    /\ Begin("backfill", row.offset, row.base)
    /\ UNCHANGED row

\* --restart: the state row is deleted and the walk starts at offset 0.
BeginRestart ==
    /\ Begin("backfill", 0, 0)
    /\ row' = NoRow

\* Faulty variant: the delta starts where the backfill stopped.
BeginDeltaAtOffset ==
    /\ Begin("delta", row.offset, row.base)
    /\ UNCHANGED row

BeginDelta ==
    /\ Begin("delta", 0, row.base)
    /\ UNCHANGED row

FetchPage ==
    /\ job.pc = "fetch"
    /\ job.offset < resolved
    /\ LET newest == resolved - job.offset
       IN  job' = [job EXCEPT !.pc = "persist", !.hi = newest,
                              !.lo = Larger(1, newest - PageSize + 1),
                              !.base = Larger(job.base, newest)]
    /\ burst' = 0
    /\ UNCHANGED <<resolved, table, marked, row, cutTop, faults>>

\* Faulty variant: the backfill asks again after an empty page.
FetchEmptyAgain ==
    /\ job.pc = "fetch"
    /\ job.offset >= resolved
    /\ job' = IF job.kind = "delta" THEN NoJob ELSE job
    /\ burst' = 0
    /\ UNCHANGED <<resolved, table, marked, row, cutTop, faults>>

\* An empty page completes a backfill and ends a delta.
FetchEmpty ==
    /\ job.pc = "fetch"
    /\ job.offset >= resolved
    /\ \/ job.kind = "backfill" /\ job' = [job EXCEPT !.pc = "complete"]
       \/ job.kind = "delta"    /\ job' = NoJob
    /\ burst' = 0
    /\ UNCHANGED <<resolved, table, marked, row, cutTop, faults>>

(***************************************************************************)
(* staging_merge in _persist_resolutions, first half: an autocommitted     *)
(* UPDATE for each market of the page that has an active row of another    *)
(* payload.  The markets are lost when the merge is a delta's, or that of  *)
(* a backfill begun after one that completed: should the job end here, no  *)
(* walk resumed at the saved offset need list them again.                  *)
(***************************************************************************)
Supersede ==
    /\ job.pc = "persist"
    /\ \E R \in SUBSET (Page \cap Active) :
          /\ torn' = torn \cup R
          /\ lost' = IF job.kind = "delta" \/ row.status = "completed"
                     THEN lost \cup R ELSE lost
    /\ job' = [job EXCEPT !.pc = "insert"]
    /\ UNCHANGED <<resolved, burst, stored, marked, row, cutTop, faults>>

\* Second half: one INSERT of the markets without an active row.  "fresh" says
\* that there were some, new or revised.
Merge(fresh) ==
    /\ job.pc = "insert"
    /\ stored' = stored \cup Page
    /\ torn' = torn \ Page
    /\ lost' = lost \ Page
    /\ job' = [job EXCEPT !.pc = "mark", !.fresh = IF fresh THEN "yes" ELSE "no",
                          !.pages = job.pages + 1]
    /\ UNCHANGED <<resolved, burst, marked, row, cutTop, faults>>

\* Faulty variant: a page with one unchanged market already counts as known.
InsertStopsAtKnown == Merge(Page \cap Active = {})

Insert == Merge(~(Page \subseteq Active))

\* _mark_markets_resolved; the backfill then advances its offset.
Mark ==
    /\ job.pc = "mark"
    /\ marked' = marked \cup Page
    /\ \/ /\ job.kind = "backfill"
          /\ job' = [job EXCEPT !.pc = "save",
                         !.offset = job.offset + (job.hi - job.lo + 1)]
       \/ /\ job.kind = "delta"
          /\ job' = [job EXCEPT !.pc = "next"]
    /\ UNCHANGED <<resolved, burst, table, row, cutTop, faults>>

\* _upsert_backfill_offset
Upsert(status) ==
    row' = [offset |-> job.offset, status |-> status, base |-> job.base]

SaveOffset ==
    /\ job.pc = "save"
    /\ Upsert("in_progress")
    /\ job' = [job EXCEPT !.pc = "next"]
    /\ UNCHANGED <<resolved, burst, table, marked, cutTop, faults>>

\* Faulty variant: a walk that stops at its max_pages is recorded as completed.
BackfillCapCompletes ==
    /\ Running("backfill", "next")
    /\ job' \in {[job EXCEPT !.pc = "complete"], [job EXCEPT !.pc = "fetch"]}
    /\ UNCHANGED <<resolved, burst, table, marked, row, cutTop, faults>>

\* After a page: the backfill completes on a short one, and otherwise goes on
\* or stops at its optional max_pages, leaving the row in progress.
BackfillNext ==
    /\ Running("backfill", "next")
    /\ \/ PageIsShort  /\ job' = [job EXCEPT !.pc = "complete"]
       \/ ~PageIsShort /\ job' = [job EXCEPT !.pc = "fetch"]
       \/ ~PageIsShort /\ job' = NoJob
    /\ UNCHANGED <<resolved, burst, table, marked, row, cutTop, faults>>

Complete ==
    /\ job.pc = "complete"
    /\ Upsert("completed")
    /\ job' = NoJob
    /\ UNCHANGED <<resolved, burst, table, marked, cutTop, faults>>

\* The short circuit, a page that changes nothing, or a short page.
DeltaEnds ==
    /\ Running("delta", "next")
    /\ \/ job.fresh = "no"
       \/ PageIsShort
    /\ job' = NoJob
    /\ UNCHANGED <<resolved, burst, table, marked, row, cutTop, faults>>

DeltaGoesOn ==
    /\ Running("delta", "next")
    /\ job.fresh = "yes"
    /\ ~PageIsShort
    /\ job.pages < MaxPages
    /\ job' = [job EXCEPT !.pc = "fetch",
                          !.offset = job.offset + (job.hi - job.lo + 1)]
    /\ UNCHANGED <<resolved, burst, table, marked, row, cutTop, faults>>

\* The walk's cap: the loop runs out of pages before it meets a known one.
DeltaCapped ==
    /\ Running("delta", "next")
    /\ job.fresh = "yes"
    /\ ~PageIsShort
    /\ job.pages >= MaxPages
    /\ job' = NoJob
    /\ cutTop' = resolved
    /\ UNCHANGED <<resolved, burst, table, marked, row, faults>>

(***************************************************************************)
(* A request, a statement or (at "next") the write of the freshness row    *)
(* raises inside the try.  The backfill's handler saves the offset as it   *)
(* stands; the delta only reports.                                         *)
(***************************************************************************)
InTry == {"fetch", "persist", "insert", "mark", "save", "next"}

BackfillFails ==
    /\ faults < MaxFaults
    /\ job.kind = "backfill"
    /\ job.pc \in InTry
    /\ Upsert("failed")
    /\ job' = NoJob
    /\ faults' = faults + 1
    /\ UNCHANGED <<resolved, burst, table, marked, cutTop>>

DeltaFails ==
    /\ faults < MaxFaults
    /\ job.kind = "delta"
    /\ job' = NoJob
    /\ cutTop' = IF job.pages > 0 THEN resolved ELSE cutTop
    /\ faults' = faults + 1
    /\ UNCHANGED <<resolved, burst, table, marked, row>>

\* The backfill is killed, or its handler's own write raises.  A kill of the
\* delta leaves what DeltaFails leaves.
BackfillKilled ==
    /\ faults < MaxFaults
    /\ job.kind = "backfill"
    /\ job' = NoJob
    /\ cutTop' = IF job.pc \in {"mark", "save"} THEN resolved ELSE cutTop
    /\ faults' = faults + 1
    /\ UNCHANGED <<resolved, burst, table, marked, row>>

Next ==
    \/ Resolve
    \/ BeginBackfill \/ BeginRestart \/ BeginDelta
    \/ FetchPage \/ FetchEmpty \/ Supersede \/ Insert \/ Mark \/ SaveOffset
    \/ BackfillNext \/ Complete
    \/ DeltaEnds \/ DeltaGoesOn \/ DeltaCapped
    \/ BackfillFails \/ DeltaFails \/ BackfillKilled

Spec == Init /\ [][Next]_vars

JobSteps ==
    \/ FetchPage \/ FetchEmpty \/ Supersede \/ Insert \/ Mark \/ SaveOffset
    \/ BackfillNext \/ Complete
    \/ DeltaEnds \/ DeltaGoesOn \/ DeltaCapped

\* A running job takes its next statement, and the daily delta is daily.
FairSpec ==
    /\ Spec
    /\ WF_vars(JobSteps)
    /\ SF_vars(BeginDelta)

-----------------------------------------------------------------------------

(***************************************************************************)
(* TypeOK: every variable keeps its type; nothing is stored or marked      *)
(* that did not resolve, or torn that was not stored.                      *)
(***************************************************************************)
TypeOK ==
    /\ resolved \in 0 .. MaxResolved
    /\ burst \in 0 .. MaxBurst
    /\ stored \in SUBSET (1 .. resolved)
    /\ torn \in SUBSET stored /\ lost \in SUBSET torn
    /\ marked \in SUBSET stored
    /\ row \in Rows
    /\ job \in Jobs
    /\ cutTop \in 0 .. resolved
    /\ faults \in 0 .. MaxFaults

\* Stored and marked, but for what a cut merge has lost.
Done == marked \cap (Active \cup lost)

(***************************************************************************)
(* OffsetCovers (resolutions.py:103-106, "the next run picks up at the     *)
(* same offset"): whatever resolved, was revised, failed or was killed     *)
(* meanwhile, a market no newer than the walk's first that a resumption at *)
(* the saved offset would no longer list is stored and marked, or was lost *)
(* by a merge of another job.  What the walk's own merges have torn, a     *)
(* resumption lists again.                                                 *)
(***************************************************************************)
OffsetCovers ==
    \A k \in 1 .. resolved :
        k <= row.base /\ k > resolved - row.offset => k \in Done

(***************************************************************************)
(* CompletedIsWhole (resolutions.py:145-146, 167): a backfill recorded as  *)
(* completed has stored and marked every market up to the newest one that  *)
(* its walk asked for, but for those another job's merge has lost.         *)
(***************************************************************************)
CompletedIsWhole ==
    row.status = "completed" => 1 .. row.base \subseteq Done

(***************************************************************************)
(* HoleMeansCut (resolutions.py:227-228): after a completed backfill, and  *)
(* unless some job was since cut short after it stored a page, no market   *)
(* older than a stored one is missing or unmarked while no job runs, and   *)
(* only what a merge had superseded when it was cut is without an active   *)
(* row: stopping at the first unchanged page is enough, although the       *)
(* listing moves between the requests.                                     *)
(***************************************************************************)
HoleMeansCut ==
    job.kind = "none" /\ row.status = "completed" /\ cutTop <= row.base =>
        \A k \in stored : 1 .. k \subseteq Done

(***************************************************************************)
(* OffsetAdvances (resolutions.py:18-20, "Backfill commits per page to     *)
(* keep the resume token tight"): only --restart moves the saved offset    *)
(* back, and it advances by no more than a page.                           *)
(***************************************************************************)
OffsetAdvances ==
    [][\/ row'.offset \in row.offset .. row.offset + PageSize
       \/ row' = NoRow]_vars

(***************************************************************************)
(* ImplementsWalk: with markets for records and an offset for a token, the *)
(* backfill of the resolutions keeps the promise of data_ingest's backfill *)
(* (its docstring, lines 103-106).  It asks for the markets up to the      *)
(* newest one its walk began with; a resumption will not ask for those the *)
(* saved offset is past, so none of these goes missing but by a merge of   *)
(* another job that is cut.                                                *)
(***************************************************************************)
Walk == INSTANCE CheckpointedCopy
    WITH Items <- 1 .. MaxResolved, wanted <- 1 .. row.base,
         copied <- marked \cap Active, lost <- marked \cap lost,
         covered <- {k \in 1 .. row.base : k > resolved - row.offset},
         whole <- (row.status = "completed")

ImplementsWalk == Walk!Spec

(***************************************************************************)
(* JobEnds: every backfill and every delta comes to an end.                *)
(***************************************************************************)
JobEnds == (job.kind # "none") ~> (job.kind = "none")

(***************************************************************************)
(* EventuallyStored: after a completed backfill a market that resolves is  *)
(* eventually stored by a daily delta, unless a job is cut short or        *)
(* another backfill begins to rewrite the row.                             *)
(***************************************************************************)
EventuallyStored ==
    \A k \in 1 .. MaxResolved :
        (k <= resolved /\ k \notin torn /\ row.status = "completed")
            ~> (k \in Active \/ cutTop > 0 \/ row.status # "completed")

=============================================================================
