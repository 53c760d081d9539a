------------------------------ MODULE Watchlist ------------------------------
(***************************************************************************)
(* From a comparison to an expired watch: the comparison cycle and its     *)
(* linkage pass (mispricing_detector), the analysis cycle and its          *)
(* expiration pass (position_engine), the monitor cycle (monitor), and the *)
(* operator's marks.  Each is a command of its own process; the database   *)
(* file admits one process at a time, so commands do not interleave, but   *)
(* every statement commits by itself and a command may be killed between   *)
(* any two.                                                                *)
(*                                                                         *)
(* The linkage pass keeps a watermark: the largest resolution_ts it has    *)
(* handled.  It ties comparisons to resolutions; the expiration pass and   *)
(* the monitor depend on that tie.  A resolution is dated by the venue and *)
(* stored by a sync (ResolutionSync) at any later moment, in any order.    *)
(***************************************************************************)
EXTENDS Naturals, FiniteSets

CONSTANTS
    Polymarket,     \* the markets of one venue ...
    Kalshi,         \* ... and of the other
    OperatorMapped, \* markets the operator mapped to a class; the rest may be auto-mapped
    MaxTs,          \* bound: the dates of resolutions are 1..MaxTs
    MaxComparisons, \* bound: comparisons ever made
    MaxAnalyses,    \* bound: analyses ever made
    MaxFaults,      \* bound: kills and failing rows
    None

Markets     == Polymarket \cup Kalshi
Comparisons == 1..MaxComparisons
Analyses    == 1..MaxAnalyses

ASSUME VenuesAssumption ==
    /\ Polymarket \cap Kalshi = {}
    /\ OperatorMapped \subseteq Markets
    /\ None \notin Markets
ASSUME BoundsAssumption ==
    MaxTs \in Nat /\ MaxComparisons \in Nat /\ MaxAnalyses \in Nat /\ MaxFaults \in Nat

VARIABLES
    flagged,        \* markets whose row says resolved
    resolvedAt,     \* resolvedAt[m]: resolution_ts of m's resolution row, 0 when there is none
    compared,       \* compared[c]: the market of comparison c, None when there is no such row
    surfaced,       \* comparisons that passed the surfacing gates
    linked,         \* comparisons with a comparison_resolutions row
    watermark,      \* last_linkage_ts, 0 when unset
    analysed,       \* analysed[a]: the comparison of analysis a, 0 when there is no such row
    known,          \* analyses that carry their comparison's market (error rows do not)
    watch,          \* watch[a]: the latest watch state
    seen,           \* analyses whose latest follow-up says resolved
    cmd,            \* what the running command is at
    pending,        \* markets (mappings or resolutions) it has yet to handle
    ids,            \* comparisons or analyses it has yet to handle
    maxSeen,        \* linkage: the largest resolution_ts handled
    errors,         \* linkage: markets whose resolution failed in the current pass
    detected,       \* monitor: whether this cycle met a resolution
    faults

venue    == <<flagged, resolvedAt>>
linkage  == <<linked, watermark>>
compares == <<compared, surfaced>>
position == <<analysed, known>>
pass     == <<pending, ids, maxSeen, errors, detected>>
vars     == <<venue, compares, linkage, position, watch, seen, cmd, pass, faults>>

Active   == {"watching", "acted_on"}
Marks    == Active \cup {"dismissed"}
Commands == {"idle", "compare", "link", "analyze", "expire", "evaluate"}

TypeOK ==
    /\ flagged \subseteq Markets
    /\ resolvedAt \in [Markets -> Nat]
    /\ compared \in [Comparisons -> Markets \cup {None}]
    /\ surfaced \subseteq Comparisons
    /\ linked \subseteq Comparisons
    /\ watermark \in Nat
    /\ analysed \in [Analyses -> Comparisons \cup {0}]
    /\ known \subseteq Analyses
    /\ watch \in [Analyses -> Marks \cup {"none", "expired"}]
    /\ seen \subseteq Analyses
    /\ cmd \in Commands
    /\ pending \subseteq Markets
    /\ ids \subseteq Comparisons \cup Analyses
    /\ maxSeen \in Nat
    /\ errors \subseteq Markets
    /\ detected \in BOOLEAN
    /\ faults \in Nat

Init ==
    /\ flagged = {}
    /\ resolvedAt = [m \in Markets |-> 0]
    /\ compared = [c \in Comparisons |-> None]
    /\ surfaced = {} /\ linked = {} /\ watermark = 0
    /\ analysed = [a \in Analyses |-> 0]
    /\ known = {}
    /\ watch = [a \in Analyses |-> "none"]
    /\ seen = {}
    /\ cmd = "idle"
    /\ pending = {} /\ ids = {} /\ maxSeen = 0 /\ errors = {} /\ detected = FALSE
    /\ faults = 0

Fault == faults < MaxFaults /\ faults' = faults + 1

\* The locals of a command go with it.
ForgetLocals ==
    /\ cmd' = "idle"
    /\ pending' = {} /\ ids' = {} /\ maxSeen' = 0 /\ errors' = {} /\ detected' = FALSE

-----------------------------------------------------------------------------
(* The connectors, as far as the rest reads them.                          *)

FlagMarket(m) ==
    /\ cmd = "idle" /\ m \notin flagged
    /\ flagged' = flagged \cup {m}
    /\ UNCHANGED <<resolvedAt, compares, linkage, position, watch, seen, cmd, pass, faults>>

\* The row may come long after the date it carries.
StoreResolution(m, ts) ==
    /\ cmd = "idle" /\ resolvedAt[m] = 0
    /\ resolvedAt' = [resolvedAt EXCEPT ![m] = ts]
    /\ UNCHANGED <<flagged, compares, linkage, position, watch, seen, cmd, pass, faults>>

-----------------------------------------------------------------------------
(* mispricing_detector: the comparison cycle.                              *)

AutoMapped == {m \in Polymarket \ OperatorMapped : m \notin flagged}

\* Without a mapping the cycle ends here, and no linkage pass follows it.
StartCompare ==
    /\ cmd = "idle" /\ OperatorMapped \cup AutoMapped # {}
    /\ cmd' = "compare"
    /\ pending' = OperatorMapped \cup AutoMapped
    /\ UNCHANGED <<venue, compares, linkage, position, watch, seen, ids, maxSeen, errors,
                   detected, faults>>

IsFresh(table, none, i) == table[i] = none /\ \A j \in 1..(i - 1) : table[j] # none

\* One mapping: a comparison (surfaced or not, an error among the latter), or a
\* market that is not binary and is skipped.
CompareMapping(m) ==
    /\ cmd = "compare" /\ m \in pending
    /\ pending' = pending \ {m}
    /\ \/ \E c \in Comparisons :
            /\ IsFresh(compared, None, c)
            /\ compared' = [compared EXCEPT ![c] = m]
            /\ surfaced' \in {surfaced, surfaced \cup {c}}
       \/ UNCHANGED compares
    /\ UNCHANGED <<venue, linkage, position, watch, seen, cmd, ids, maxSeen, errors, detected,
                   faults>>

\* Faulty variant: a date that equals its predecessor's successor is skipped.
NewResolutionsOffByOne == {m \in Polymarket : resolvedAt[m] > 0 /\ resolvedAt[m] > watermark + 1}

\* polymarket_resolutions later than the watermark; settlements are not read.
NewResolutions == {m \in Polymarket : resolvedAt[m] > watermark}

\* The linkage pass, after the last mapping or as a command of its own.
StartLink ==
    /\ cmd = "idle" \/ (cmd = "compare" /\ pending = {})
    /\ cmd' = "link"
    /\ pending' = NewResolutions
    /\ maxSeen' = watermark
    /\ UNCHANGED <<venue, compares, linkage, position, watch, seen, ids, errors, detected, faults>>

\* Faulty variant: only comparisons that were shown are linked.
SurfacedComparisonsOf(m) == {c \in surfaced : compared[c] = m}

ComparisonsOf(m) == {c \in Comparisons : compared[c] = m}

\* ORDER BY resolution_ts
IsNext(m) == m \in pending /\ \A other \in pending : resolvedAt[m] <= resolvedAt[other]

LinkResolution(m) ==
    /\ cmd = "link" /\ IsNext(m)
    /\ linked' = linked \cup ComparisonsOf(m)
    /\ pending' = pending \ {m}
    /\ maxSeen' = IF resolvedAt[m] > maxSeen THEN resolvedAt[m] ELSE maxSeen
    /\ UNCHANGED <<venue, compares, watermark, position, watch, seen, cmd, ids, errors, detected,
                   faults>>

\* A write raises: the comparisons linked before it stay linked.
FailResolution(m) ==
    /\ cmd = "link" /\ IsNext(m)
    /\ \E some \in SUBSET ComparisonsOf(m) : linked' = linked \cup some
    /\ pending' = pending \ {m}
    /\ errors' = errors \cup {m}
    /\ Fault
    /\ UNCHANGED <<venue, compares, watermark, position, watch, seen, cmd, ids, maxSeen, detected>>

FinishLink ==
    /\ cmd = "link" /\ pending = {}
    /\ watermark' = maxSeen
    /\ ForgetLocals
    /\ UNCHANGED <<venue, compares, linked, position, watch, seen, faults>>

-----------------------------------------------------------------------------
(* position_engine: the analysis cycle, the expiration pass and the marks. *)

\* With include_suppressed every comparison, else the surfaced ones; analysed
\* before or not.
StartAnalysis(all) ==
    /\ cmd = "idle"
    /\ cmd' = "analyze"
    /\ ids' = IF all THEN {c \in Comparisons : compared[c] # None} ELSE surfaced
    /\ UNCHANGED <<venue, compares, linkage, position, watch, seen, pending, maxSeen, errors,
                   detected, faults>>

\* An analysis, an error row in its place, or nothing when the linter objects.
Analyze(c) ==
    /\ cmd = "analyze" /\ c \in ids
    /\ ids' = ids \ {c}
    /\ \/ \E a \in Analyses :
            /\ IsFresh(analysed, 0, a)
            /\ analysed' = [analysed EXCEPT ![a] = c]
            /\ known' \in {known, known \cup {a}}
       \/ UNCHANGED position
    /\ UNCHANGED <<venue, compares, linkage, watch, seen, cmd, pending, maxSeen, errors, detected,
                   faults>>

\* Faulty variant: a LEFT JOIN, every analysis is examined.
EveryAnalysis == {a \in Analyses : analysed[a] # 0}

\* analyses INNER JOIN comparison_resolutions
LinkedAnalyses == {a \in Analyses : analysed[a] \in linked}

\* The pass runs after the last analysis, and after a monitor cycle that met a
\* resolution.
StartExpire ==
    /\ ids = {}
    /\ cmd = "analyze" \/ (cmd = "evaluate" /\ detected)
    /\ cmd' = "expire"
    /\ ids' = LinkedAnalyses
    /\ detected' = FALSE
    /\ UNCHANGED <<venue, compares, linkage, position, watch, seen, pending, maxSeen, errors,
                   faults>>

\* Faulty variant: a position that was acted on is not looked at.
OnlyWatching(a) == watch[a] = "watching"

\* Faulty variant: whatever was not expired yet is.
NotExpiredYet(a) == watch[a] # "expired"

IsActive(a) == watch[a] \in Active

ExpireAnalysis(a) ==
    /\ cmd = "expire" /\ a \in ids
    /\ ids' = ids \ {a}
    /\ watch' = IF IsActive(a) THEN [watch EXCEPT ![a] = "expired"] ELSE watch
    /\ UNCHANGED <<venue, compares, linkage, position, seen, cmd, pending, maxSeen, errors,
                   detected, faults>>

FailExpire(a) ==
    /\ cmd = "expire" /\ a \in ids
    /\ ids' = ids \ {a}
    /\ Fault
    /\ UNCHANGED <<venue, compares, linkage, position, watch, seen, cmd, pending, maxSeen, errors,
                   detected>>

\* The expiration pass is over, or the monitor cycle met no resolution.
FinishCycle ==
    /\ ids = {}
    /\ cmd = "expire" \/ (cmd = "evaluate" /\ ~detected)
    /\ ForgetLocals
    /\ UNCHANGED <<venue, compares, linkage, position, watch, seen, faults>>

\* watch, acted-on and dismiss: whatever the state was before.
SetState(a, mark) ==
    /\ cmd = "idle" /\ analysed[a] # 0
    /\ watch' = [watch EXCEPT ![a] = mark]
    /\ UNCHANGED <<venue, compares, linkage, position, seen, cmd, pass, faults>>

-----------------------------------------------------------------------------
(* monitor: one follow-up per watched analysis.                            *)

StartMonitor ==
    /\ cmd = "idle"
    /\ cmd' = "evaluate"
    /\ ids' = {a \in Analyses : watch[a] \in Active}
    /\ UNCHANGED <<venue, compares, linkage, position, watch, seen, pending, maxSeen, errors,
                   detected, faults>>

\* Polymarket wants the market's flag besides the row; Kalshi a settlement.
Resolves(m) == resolvedAt[m] > 0 /\ (m \in Polymarket => m \in flagged)

IsResolved(a) == a \in known /\ Resolves(compared[analysed[a]])

Evaluate(a) ==
    /\ cmd = "evaluate" /\ a \in ids
    /\ ids' = ids \ {a}
    /\ seen' = IF IsResolved(a) THEN seen \cup {a} ELSE seen \ {a}
    /\ detected' = (detected \/ IsResolved(a))
    /\ UNCHANGED <<venue, compares, linkage, position, watch, cmd, pending, maxSeen, errors,
                   faults>>

\* The evaluation raises: an error follow-up, if it can be written, says unresolved.
FailEvaluate(a) ==
    /\ cmd = "evaluate" /\ a \in ids
    /\ ids' = ids \ {a}
    /\ seen' \in {seen, seen \ {a}}
    /\ Fault
    /\ UNCHANGED <<venue, compares, linkage, position, watch, cmd, pending, maxSeen, errors,
                   detected>>

-----------------------------------------------------------------------------

\* A kill, or an exception no loop catches: what was written stays.
Kill ==
    /\ cmd # "idle"
    /\ ForgetLocals
    /\ Fault
    /\ UNCHANGED <<venue, compares, linkage, position, watch, seen>>

Connector ==
    \E m \in Markets : FlagMarket(m) \/ \E ts \in 1..MaxTs : StoreResolution(m, ts)

Step ==
    \/ \E m \in Markets : CompareMapping(m) \/ LinkResolution(m)
    \/ \E c \in Comparisons : Analyze(c)
    \/ \E a \in Analyses : ExpireAnalysis(a) \/ Evaluate(a)
    \/ (cmd = "compare" /\ StartLink) \/ FinishLink \/ StartExpire \/ FinishCycle

Failure ==
    \/ \E m \in Markets : FailResolution(m)
    \/ \E a \in Analyses : FailExpire(a) \/ FailEvaluate(a)
    \/ Kill

Command ==
    \/ StartCompare \/ (cmd = "idle" /\ StartLink) \/ StartMonitor
    \/ \E all \in BOOLEAN : StartAnalysis(all)
    \/ \E a \in Analyses, mark \in Marks : SetState(a, mark)

Next == Connector \/ Step \/ Failure \/ Command

Spec == Init /\ [][Next]_vars

\* A command goes on once started, and the daily script comes back to each.
Fairness ==
    /\ WF_vars(Step)
    /\ SF_vars(cmd = "idle" /\ StartLink)
    /\ SF_vars(StartAnalysis(FALSE))
    /\ SF_vars(StartMonitor)

FairSpec == Spec /\ Fairness

-----------------------------------------------------------------------------
(* Properties.                                                             *)

\* linkage.py, expiration.py: the system expires a watch only when the market
\* of its comparison has a stored resolution (the link is the evidence, made by
\* another command, perhaps one that was killed).
ExpiredMeansResolved ==
    \A a \in Analyses : watch[a] = "expired" => resolvedAt[compared[analysed[a]]] > 0

\* linkage.py: the watermark moves over a resolution only when every comparison
\* of its market is linked or the pass reports that resolution as failed.
WatermarkCovers ==
    [][watermark' # watermark =>
         \A m \in Polymarket : resolvedAt[m] > watermark =>
            m \in errors \/ \A c \in Comparisons : compared[c] = m => c \in linked]_vars

\* The marks seen through the rows: nothing but the operator sets one, and the
\* passes only expire active marks of linked analyses.
Lifecycle == INSTANCE WatchLifecycle WITH mark <- watch, closed <- LinkedAnalyses

ImplementsLifecycle == Lifecycle!Spec

\* linkage.py: a comparison whose market's resolution is later than the
\* watermark is linked, or the resolution is reported as failed.
EventuallyLinked ==
    \A c \in Comparisons, m \in Polymarket :
        (compared[c] = m /\ resolvedAt[m] > watermark) ~> (c \in linked \/ m \in errors)

\* expiration.py: an active mark of a linked analysis does not last.
EventuallyExpired ==
    \A a \in Analyses :
        (analysed[a] \in linked /\ watch[a] \in Active) ~> watch[a] \notin Active

=============================================================================
