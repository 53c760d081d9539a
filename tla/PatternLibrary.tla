--------------------------- MODULE PatternLibrary ---------------------------
(***************************************************************************)
(* From a class definition to a surfaced comparison: the refresh           *)
(* (pattern_library) that recomputes the outputs of the registered         *)
(* classes, the scan (signal_scanner) that reads them, and the comparison  *)
(* cycle (mispricing_detector) that reads the latest scan.                 *)
(*                                                                         *)
(* Definitions live in the code and change between commands.  A refresh    *)
(* recomputes each class in a pool of workers, output after output, and    *)
(* writes most of them with a DELETE and INSERTs that commit separately,   *)
(* so an exception or a kill leaves a class half old, half new or with a   *)
(* hole.  What an engine yields no rows for is not touched at all, and     *)
(* outcomes and calibrations are deleted by the keys that are written      *)
(* again: rows of earlier definitions may stay beside the new ones.        *)
(* Commands exclude each other (the database file admits one process); a   *)
(* refresh also holds a lock file, which outlives it when it is killed.    *)
(* The registry table and the version log, which no later step reads, are  *)
(* left out.                                                               *)
(***************************************************************************)
EXTENDS Naturals, FiniteSets

CONSTANTS
    Classes,        \* event classes
    Definitions,    \* Definitions[c]: the definition versions c may have, 0 for "not registered"
    Precursors,     \* Precursors[c][v]: the precursors of version v of c
    WithAnalogues,  \* classes that declare analogue features
    MaxWorkers,     \* max_workers
    MaxFaults       \* bound: exceptions and kills

Versions  == {0} \cup UNION {Definitions[c] : c \in Classes}
Variables == UNION {Precursors[c][v] : c \in Classes, v \in Versions}
Fixed     == {"outcomes", "base_rate", "calibration", "analogues"}
Outputs   == Fixed \cup Variables
Keyed     == {"outcomes", "calibration"}    \* whose rows are deleted key by key

ASSUME DefinitionsAssumption ==
    /\ Definitions \in [Classes -> SUBSET Nat]
    /\ Precursors \in [Classes -> [Versions -> SUBSET Variables]]
    /\ Variables \cap (Fixed \cup {"stamp"}) = {}
    /\ WithAnalogues \subseteq Classes
ASSUME BoundsAssumption == MaxWorkers \in Nat /\ MaxFaults \in Nat

Kinds    == {"never", "none", "blank", "flagged", "silent"}
Scans    == [asked : SUBSET Classes, record : [Classes -> Kinds], stale : BOOLEAN]
Commands == {"idle", "refresh", "scan", "compare"}

VARIABLES
    code,       \* code[c]: the definition version in the code, 0 when c is not registered
    out,        \* out[c][o]: the definition versions of the rows of an output (of a base
                \* rate, of the latest); 0 among them while rows were deleted, or some
                \* inserted, and the rest is not inserted yet
    barren,     \* ghost: classes whose last refresh found no occurrences
    logged,     \* some refresh came to its log row
    lock,       \* the lock file exists
    done,       \* the scan that completed last
    cmd,        \* the running command
    queue,      \* classes it has yet to handle
    todo,       \* todo[c]: stages a worker has yet to come through
    gone,       \* gone[c]: the output whose rows were deleted and are not all inserted yet
    scan,       \* scan: the running scan
    strict,     \* scan: abort on drift
    shown,      \* compare: classes surfaced in this cycle
    missing,    \* compare: classes without a scan record
    unfinished, \* ghost: classes whose last refresh did not reach its stamp
    faults

library == <<out, barren, logged, lock, unfinished>>
locals  == <<queue, todo, gone, scan, strict, shown, missing>>
vars    == <<code, library, done, cmd, locals, faults>>

NoScan == [asked |-> {}, record |-> [c \in Classes |-> "none"], stale |-> TRUE]
Never  == [NoScan EXCEPT !.record = [c \in Classes |-> "never"]]

TypeOK ==
    /\ code \in [Classes -> Versions]
    /\ out \in [Classes -> [Outputs -> SUBSET Versions]]
    /\ barren \subseteq Classes
    /\ logged \in BOOLEAN /\ lock \in BOOLEAN
    /\ done \in Scans
    /\ cmd \in Commands
    /\ queue \subseteq Classes
    /\ todo \in [Classes -> SUBSET (Outputs \cup {"stamp"})]
    /\ gone \in [Classes -> SUBSET Outputs]
    /\ scan \in Scans
    /\ strict \in BOOLEAN
    /\ shown \subseteq Classes /\ missing \subseteq Classes
    /\ unfinished \subseteq Classes
    /\ faults \in Nat

Init ==
    /\ code \in {f \in [Classes -> Versions] : \A c \in Classes : f[c] \in Definitions[c]}
    /\ out = [c \in Classes |-> [o \in Outputs |-> {}]]
    /\ barren = {}
    /\ logged = FALSE /\ lock = FALSE
    /\ done = Never
    /\ cmd = "idle"
    /\ queue = {} /\ todo = [c \in Classes |-> {}] /\ gone = [c \in Classes |-> {}]
    /\ scan = NoScan /\ strict = FALSE
    /\ shown = {} /\ missing = {}
    /\ unfinished = {}
    /\ faults = 0

Registered == {c \in Classes : code[c] # 0}

Fault == faults < MaxFaults /\ faults' = faults + 1

\* The locals of a command go with it.  A scan that did not complete stays in
\* its table and no command reads it.
ForgetLocals ==
    /\ cmd' = "idle"
    /\ queue' = {} /\ todo' = [c \in Classes |-> {}] /\ gone' = [c \in Classes |-> {}]
    /\ scan' = NoScan /\ strict' = FALSE
    /\ shown' = {} /\ missing' = {}

-----------------------------------------------------------------------------
(* The author of the classes, and the operator.                            *)

EditClass(c, v) ==
    /\ cmd = "idle" /\ v \in Definitions[c] \ {code[c]}
    /\ code' = [code EXCEPT ![c] = v]
    /\ UNCHANGED <<library, done, cmd, locals, faults>>

\* The operator finds the lock of a killed refresh and deletes it.
RemoveLock ==
    /\ cmd = "idle" /\ lock
    /\ lock' = FALSE
    /\ UNCHANGED <<code, out, barren, logged, unfinished, done, cmd, locals, faults>>

-----------------------------------------------------------------------------
(* pattern_library: the refresh.                                           *)

\* Faulty variant: only classes that changed are recomputed.
ChangedOnly(selection) == {c \in Registered \cap selection : out[c]["base_rate"] # {code[c]}}

WorkingSet(selection) == Registered \cap selection

\* While a lock file is there the command gives up after ten seconds.
StartRefresh(selection) ==
    /\ cmd = "idle" /\ ~lock
    /\ cmd' = "refresh"
    /\ lock' = TRUE
    /\ queue' = WorkingSet(selection)
    /\ UNCHANGED <<code, out, barren, logged, unfinished, done, todo, gone, scan, strict, shown, missing,
                   faults>>

AtWork == {c \in Classes : todo[c] # {}}

Declared(c) == {"outcomes", "base_rate", "calibration"} \cup Precursors[c][code[c]]
                \cup IF c \in WithAnalogues THEN {"analogues"} ELSE {}

StartClass(c) ==
    /\ cmd = "refresh" /\ c \in queue /\ Cardinality(AtWork) < MaxWorkers
    /\ queue' = queue \ {c}
    /\ todo' = [todo EXCEPT ![c] = Declared(c) \cup {"stamp"}]
    /\ unfinished' = unfinished \cup {c}
    /\ barren' = barren \ {c}
    /\ UNCHANGED <<code, out, logged, lock, done, cmd, gone, scan, strict, shown, missing, faults>>

Rank(o) ==
    CASE o = "outcomes"    -> 1
      [] o = "base_rate"   -> 2
      [] o \in Variables   -> 3
      [] o = "analogues"   -> 4
      [] o = "calibration" -> 5
      [] o = "stamp"       -> 6

IsNext(c, o) == o \in todo[c] /\ \A other \in todo[c] : Rank(o) <= Rank(other)

\* The occurrence query finds nothing: no outcome is written and no signature
\* computed, and neither an analogue unless a baseline could be sampled.  What the
\* tables hold of them stays.
SkipOutput(c, o) ==
    /\ IsNext(c, o) /\ gone[c] = {}
    /\ \/ o = "outcomes" /\ barren' = barren \cup {c}
       \/ o \in Variables \cup {"analogues"} /\ c \in barren /\ UNCHANGED barren
    /\ todo' = [todo EXCEPT ![c] = @ \ {o}]
    /\ UNCHANGED <<code, out, logged, lock, unfinished, done, cmd, queue, gone, scan, strict,
                   shown, missing, faults>>

\* What a DELETE leaves: an outcome is deleted by its occurrence, a calibration by
\* its method, and both when they are written again; a signature is one row, and
\* the analogues of a class go together.
Survivors(c, o) == IF o \in Keyed THEN SUBSET (out[c][o] \ {0}) ELSE {{}}

DeleteOutput(c, o) ==
    /\ IsNext(c, o) /\ o # "base_rate" /\ gone[c] = {}
    /\ o \in Variables => c \notin barren
    /\ \E rest \in Survivors(c, o) : out' = [out EXCEPT ![c][o] = rest \cup {0}]
    /\ gone' = [gone EXCEPT ![c] = {o}]
    /\ UNCHANGED <<code, barren, logged, lock, unfinished, done, cmd, queue, todo, scan, strict,
                   shown, missing, faults>>

\* The INSERTs, one for a row, come to their end.
InsertOutput(c, o) ==
    /\ IsNext(c, o) /\ o \in gone[c]
    /\ out' = [out EXCEPT ![c][o] = (@ \ {0}) \cup {code[c]}]
    /\ gone' = [gone EXCEPT ![c] = {}]
    /\ todo' = [todo EXCEPT ![c] = @ \ {o}]
    /\ UNCHANGED <<code, barren, logged, lock, unfinished, done, cmd, queue, scan, strict, shown,
                   missing, faults>>

\* A base rate's key holds the moment it was computed: nothing is deleted, and
\* the latest is the one that is read.
InsertBaseRate(c) ==
    /\ IsNext(c, "base_rate")
    /\ out' = [out EXCEPT ![c]["base_rate"] = {code[c]}]
    /\ todo' = [todo EXCEPT ![c] = @ \ {"base_rate"}]
    /\ UNCHANGED <<code, barren, logged, lock, unfinished, done, cmd, queue, gone, scan, strict,
                   shown, missing, faults>>

\* record_class_evaluation
StampClass(c) ==
    /\ IsNext(c, "stamp")
    /\ todo' = [todo EXCEPT ![c] = {}]
    /\ unfinished' = unfinished \ {c}
    /\ UNCHANGED <<code, out, barren, logged, lock, done, cmd, queue, gone, scan, strict, shown,
                   missing, faults>>

\* Faulty variant: only the stage that raised is given up.
FailStage(c) ==
    /\ Cardinality(todo[c]) > 1
    /\ \E o \in todo[c] : IsNext(c, o) /\ todo' = [todo EXCEPT ![c] = @ \ {o}]
    /\ gone' = [gone EXCEPT ![c] = {}]
    /\ Fault
    /\ UNCHANGED <<code, library, done, cmd, queue, scan, strict, shown, missing>>

\* A query, a computation or a statement raises: the class is given up as it is.
FailClass(c) ==
    /\ todo[c] # {}
    /\ todo' = [todo EXCEPT ![c] = {}]
    /\ gone' = [gone EXCEPT ![c] = {}]
    /\ Fault
    /\ UNCHANGED <<code, library, done, cmd, queue, scan, strict, shown, missing>>

\* The command ends the same way whatever became of the classes.
FinishRefresh ==
    /\ cmd = "refresh" /\ queue = {} /\ AtWork = {}
    /\ logged' = TRUE
    /\ lock' = FALSE
    /\ ForgetLocals
    /\ UNCHANGED <<code, out, barren, unfinished, done, faults>>

\* An exception outside the workers: the lock is released on the way out.
AbortRefresh ==
    /\ cmd = "refresh" /\ AtWork = {}
    /\ lock' = FALSE
    /\ ForgetLocals
    /\ Fault
    /\ UNCHANGED <<code, out, barren, logged, unfinished, done>>

-----------------------------------------------------------------------------
(* signal_scanner: the scan.                                               *)

\* The library is stale when no refresh was logged (in the last days).
StartScan(selection, isStrict) ==
    /\ cmd = "idle"
    /\ cmd' = "scan"
    /\ queue' = Registered \cap selection
    /\ strict' = isStrict
    /\ scan' = [NoScan EXCEPT !.asked = Registered \cap selection, !.stale = ~logged]
    /\ UNCHANGED <<code, library, done, todo, gone, shown, missing, faults>>

HasBaseRate(c) == out[c]["base_rate"] # {}

\* The definition versions of the class's signature rows.
SignatureVersions(c) == (UNION {out[c][x] : x \in Variables}) \ {0}

\* Faulty variant: only the base rate is compared with the definition.
BaseDrifts(c) == out[c]["base_rate"] # {code[c]}

\* Any signature row of the class, also one of a precursor it no longer has.
Drifts(c) ==
    \/ out[c]["base_rate"] # {code[c]}
    \/ \E v \in SignatureVersions(c) : v # code[c]

Record(c, kind) ==
    /\ cmd = "scan" /\ c \in queue
    /\ queue' = queue \ {c}
    /\ scan' = [scan EXCEPT !.record[c] = kind]
    /\ UNCHANGED <<code, library, done, cmd, todo, gone, strict, shown, missing>>

EvaluateClass(c) ==
    /\ HasBaseRate(c) /\ ~(strict /\ Drifts(c))
    /\ Record(c, IF Drifts(c) THEN "flagged" ELSE "silent")
    /\ UNCHANGED faults

\* Without a base rate the record has zeros for posteriors, and so has the one
\* made of an exception.
EvaluateWithoutBaseRate(c) == ~HasBaseRate(c) /\ Record(c, "blank") /\ UNCHANGED faults
FailEvaluation(c) == Record(c, "blank") /\ Fault

\* StrictDriftAbort leaves the scan as it is, uncompleted.
StrictAbort(c) ==
    /\ cmd = "scan" /\ c \in queue /\ strict /\ HasBaseRate(c) /\ Drifts(c)
    /\ ForgetLocals
    /\ UNCHANGED <<code, library, done, faults>>

\* Faulty variant: the summary is closed on the way out, whatever happened.
CloseScan ==
    /\ cmd = "scan"
    /\ done' = scan
    /\ ForgetLocals
    /\ UNCHANGED <<code, library, faults>>

FinishScan ==
    /\ cmd = "scan" /\ queue = {}
    /\ done' = scan
    /\ ForgetLocals
    /\ UNCHANGED <<code, library, faults>>

-----------------------------------------------------------------------------
(* mispricing_detector: what a comparison takes from the latest scan.      *)

StartCompare ==
    /\ cmd = "idle" /\ done # Never
    /\ cmd' = "compare"
    /\ queue' = Classes
    /\ UNCHANGED <<code, library, done, todo, gone, scan, strict, shown, missing, faults>>

\* A class without a record becomes an error comparison.  The surfacing gates
\* look at the market, at the age of the library and at the two probabilities,
\* not at the kind of record: with a library that is not stale, whether they
\* let it through is a choice.
CompareClass(c) ==
    /\ cmd = "compare" /\ c \in queue
    /\ queue' = queue \ {c}
    /\ IF done.record[c] = "none"
       THEN missing' = missing \cup {c} /\ UNCHANGED shown
       ELSE /\ shown' \in {shown} \cup (IF done.stale THEN {} ELSE {shown \cup {c}})
            /\ UNCHANGED missing
    /\ UNCHANGED <<code, library, done, cmd, todo, gone, scan, strict, faults>>

FinishCompare ==
    /\ cmd = "compare" /\ queue = {}
    /\ ForgetLocals
    /\ UNCHANGED <<code, library, done, faults>>

-----------------------------------------------------------------------------

\* A kill, or an exception outside the evaluations of a scan: what was
\* committed stays, and so does the lock file.
Kill ==
    /\ cmd # "idle"
    /\ ForgetLocals
    /\ Fault
    /\ UNCHANGED <<code, library, done>>

Step ==
    \/ \E c \in Classes :
        \/ StartClass(c)
        \/ \E o \in Outputs : SkipOutput(c, o) \/ DeleteOutput(c, o) \/ InsertOutput(c, o)
        \/ InsertBaseRate(c) \/ StampClass(c)
        \/ EvaluateClass(c) \/ EvaluateWithoutBaseRate(c) \/ StrictAbort(c) \/ CompareClass(c)
    \/ FinishRefresh \/ FinishScan \/ FinishCompare

Failure == (\E c \in Classes : FailClass(c) \/ FailEvaluation(c)) \/ AbortRefresh \/ Kill

\* --class names one class, also one that is not registered.
Selections == {Classes} \cup {{c} : c \in Classes}

Command ==
    \/ \E selection \in Selections : StartRefresh(selection)
    \/ \E selection \in Selections, isStrict \in BOOLEAN : StartScan(selection, isStrict)
    \/ StartCompare

World == (\E c \in Classes, v \in Versions : EditClass(c, v)) \/ RemoveLock

Next == Step \/ Failure \/ Command \/ World

Spec == Init /\ [][Next]_vars

\* A command goes on once started; the operator clears a stale lock and keeps
\* refreshing the whole library.
Fairness == WF_vars(Step) /\ SF_vars(RemoveLock) /\ SF_vars(StartRefresh(Classes))

FairSpec == Spec /\ Fairness

-----------------------------------------------------------------------------
(* Properties.                                                             *)

\* What the last refresh of c computed: without occurrences only two outputs.
Needs(c) == {"base_rate", "calibration"} \cup IF c \in barren THEN {} ELSE Declared(c)

\* Output o holds all that was computed of it; rows of earlier definitions stay
\* only where keys decide what is deleted.
IsFresh(c, o) ==
    /\ code[c] \in out[c][o] /\ 0 \notin out[c][o]
    /\ o \notin Keyed => out[c][o] = {code[c]}

IsWhole(c) == \A o \in Needs(c) : IsFresh(c, o)

\* refresh.py: a class is stamped as evaluated only when each output its
\* definition declares, and had occurrences for, was computed from that definition.
StampMeansWhole ==
    [][\A c \in Classes : c \in unfinished /\ c \notin unfinished' => IsWhole(c)]_vars

\* scanner.py: a record without a drift warning was computed from signatures and
\* a base rate of the current definition only and, unless the last refresh of the
\* class was cut or found no occurrences, from all those that definition declares.
SilentMeansWhole ==
    [][\A c \in Classes :
         scan.record[c] = "none" /\ scan'.record[c] = "silent"
         => /\ \A x \in Variables : out[c][x] \subseteq {0, code[c]}
            /\ IsWhole(c) \/ c \in unfinished]_vars

\* comparator.py: a class has an error comparison only when the scan it reads
\* was not asked for it.
MissingOnlyIfNotAsked == cmd = "compare" => missing \cap done.asked = {}

\* refresh.py: whatever failed or was killed, a registered class gets whole and
\* current outputs again, and again after each edit; of what it had occurrences for.
EventuallyWhole == \A c \in Classes : []<>(code[c] = 0 \/ IsWhole(c))

\* docs/scanner.md: a record without a base rate and one that failed report no
\* signal in either direction: no comparison is surfaced from them.
SurfacedHasSignal == cmd = "compare" => \A c \in shown : done.record[c] # "blank"

=============================================================================
