------------------------ MODULE PatternLibraryProofs ------------------------
(***************************************************************************)
(* Proofs about PatternLibrary, for all classes, definitions, numbers of   *)
(* workers and sequences of edits, exceptions and kills.                   *)
(*                                                                         *)
(* Neither what a stamp nor what a silent record means is inductive.  A    *)
(* class at work has, of the outputs it computes, all but those in `todo`  *)
(* from the present definition (AtWorkInv), so that at the stamp, the last *)
(* in rank, it has them all; and a class that nobody left half way has all *)
(* outputs of the version its base rate is of (SettledInv), whatever its   *)
(* definition has become since.  An output between its DELETE and the last *)
(* INSERT has nothing left but rows of keys not written again (GoneInv).   *)
(***************************************************************************)
EXTENDS PatternLibrary, TLAPS

\* What version v of c declares, and what a refresh at that version computes.
DeclaredAt(c, v) == {"outcomes", "base_rate", "calibration"} \cup Precursors[c][v]
                     \cup IF c \in WithAnalogues THEN {"analogues"} ELSE {}

NeedsAt(c, v) == {"base_rate", "calibration"} \cup IF c \in barren THEN {} ELSE DeclaredAt(c, v)

FreshAt(c, o, v) ==
    /\ v \in out[c][o] /\ 0 \notin out[c][o]
    /\ o \notin Keyed => out[c][o] = {v}

AtWorkInv(c) ==
    todo[c] # {} =>
        /\ cmd = "refresh" /\ c \in unfinished /\ c \notin queue
        /\ "stamp" \in todo[c]
        /\ code[c] # 0
        /\ \A o \in NeedsAt(c, code[c]) \ todo[c] : FreshAt(c, o, code[c])

GoneInv(c) ==
    \A o \in gone[c] :
        /\ o \in todo[c] /\ o # "base_rate"
        /\ o \notin Keyed => out[c][o] = {0}

SettledInv(c) ==
    \/ c \in unfinished
    \/ out[c]["base_rate"] = {}
    \/ \E v \in Versions \ {0} :
          out[c]["base_rate"] = {v} /\ \A o \in NeedsAt(c, v) : FreshAt(c, o, v)

\* A refresh takes up registered classes only, and each once.
QueueInv == cmd = "refresh" => queue \subseteq Registered

ClassInv(c) == AtWorkInv(c) /\ GoneInv(c) /\ SettledInv(c)

\* A completed scan has a record of every class it was asked for.
Recorded(s) == \A c \in s.asked : s.record[c] # "none"

ScanInv ==
    /\ cmd = "scan" => \A c \in scan.asked : c \in queue \/ scan.record[c] # "none"
    /\ Recorded(done)
    /\ cmd # "compare" => missing = {}
    /\ missing \cap done.asked = {}

IInv == TypeOK /\ ScanInv /\ QueueInv /\ \A c \in Classes : ClassInv(c)

-----------------------------------------------------------------------------
\* The library: every output a version declares is an output.
LEMMA NeedsAreOutputs ==
    ASSUME NEW c \in Classes, NEW v \in Versions
    PROVE  DeclaredAt(c, v) \subseteq Outputs /\ NeedsAt(c, v) \subseteq DeclaredAt(c, v)
BY DefinitionsAssumption DEF DeclaredAt, NeedsAt, Outputs, Fixed

\* The library: the stamp is not an output, and a variable none of the others.
LEMMA OutputNames ==
    /\ "stamp" \notin Outputs
    /\ \A o \in Variables : o \notin Fixed /\ o \notin Keyed
    /\ Fixed \subseteq Outputs /\ Variables \subseteq Outputs
BY DefinitionsAssumption DEF Outputs, Fixed, Keyed

\* The library: the needs of a class are those of its present version.
LEMMA NeedsNow ==
    ASSUME NEW c \in Classes
    PROVE  /\ Needs(c) = NeedsAt(c, code[c]) /\ Declared(c) = DeclaredAt(c, code[c])
           /\ \A o : IsFresh(c, o) <=> FreshAt(c, o, code[c])
BY DEF Needs, Declared, NeedsAt, DeclaredAt, IsFresh, FreshAt

\* The refresh: the stamp is written only when nothing else is left to do.
LEMMA StampIsLast ==
    ASSUME NEW c \in Classes, todo[c] \subseteq Outputs \cup {"stamp"}, IsNext(c, "stamp")
    PROVE  todo[c] = {"stamp"}
<1>1. Rank("stamp") = 6
    BY DefinitionsAssumption DEF Rank, Fixed
<1>2. \A o \in Outputs : Rank(o) \in 1..5
    BY DefinitionsAssumption DEF Rank, Fixed, Outputs
<1>3. \A o \in todo[c] : Rank("stamp") <= Rank(o)
    BY DEF IsNext
<1> QED BY <1>1, <1>2, <1>3 DEF IsNext

-----------------------------------------------------------------------------
\* The scan: the empty records are records of scans.
LEMMA EmptyScans == NoScan \in Scans /\ Never \in Scans
<1>1. NoScan \in Scans
    BY DEF NoScan, Scans, Kinds
<1>2. [c \in Classes |-> "never"] \in [Classes -> Kinds]
    BY DEF Kinds
<1> QED BY <1>1, <1>2 DEF Never, Scans

\* The library: the type invariant holds at the start.
LEMMA InitTypes == Init => TypeOK
<1> SUFFICES ASSUME Init PROVE TypeOK
    OBVIOUS
<1>1. code \in [Classes -> Versions]
    BY DEF Init
<1>3. out \in [Classes -> [Outputs -> SUBSET Versions]]
    BY DEF Init
<1>4. NoScan \in Scans /\ Never \in Scans
    BY EmptyScans
<1> QED BY <1>1, <1>3, <1>4 DEF Init, TypeOK, Commands

\* The library: the type invariant is inductive.
LEMMA TypesStep ==
    ASSUME TypeOK, [Next]_vars
    PROVE  TypeOK'
<1> USE DEF TypeOK, Commands
<1>z. 0 \in Versions
    BY DEF Versions
<1>n. NoScan \in Scans /\ Never \in Scans
    BY EmptyScans
<1>f. ASSUME ForgetLocals, UNCHANGED <<code, out, barren>>, logged' \in BOOLEAN, lock' \in BOOLEAN,
             done' \in Scans, unfinished' \subseteq Classes, faults' \in Nat
      PROVE  TypeOK'
    BY <1>f, <1>n DEF ForgetLocals
<1>1. ASSUME NEW c \in Classes, NEW v \in Versions, EditClass(c, v)
      PROVE  TypeOK'
    BY <1>1 DEF EditClass, library, locals
<1>2. ASSUME RemoveLock
      PROVE  TypeOK'
    BY <1>2 DEF RemoveLock, locals
<1>3. ASSUME NEW selection \in Selections, StartRefresh(selection)
      PROVE  TypeOK'
    BY <1>3 DEF StartRefresh, WorkingSet, Registered
<1>4. ASSUME NEW c \in Classes, StartClass(c)
      PROVE  TypeOK'
    <2>1. Declared(c) \subseteq Outputs
        BY NeedsAreOutputs, NeedsNow
    <2> QED BY <1>4, <2>1 DEF StartClass
<1>5. ASSUME NEW c \in Classes, NEW o \in Outputs, DeleteOutput(c, o)
      PROVE  TypeOK'
    <2>1. PICK rest \in Survivors(c, o) : out' = [out EXCEPT ![c][o] = rest \cup {0}]
        BY <1>5 DEF DeleteOutput
    <2>2. rest \cup {0} \in SUBSET Versions
        BY <1>z DEF Survivors
    <2>3. out' \in [Classes -> [Outputs -> SUBSET Versions]]
        BY <2>1, <2>2
    <2> QED BY <1>5, <2>3 DEF DeleteOutput
<1>6. ASSUME NEW c \in Classes, NEW o \in Outputs, InsertOutput(c, o)
      PROVE  TypeOK'
    <2>1. out' \in [Classes -> [Outputs -> SUBSET Versions]]
        BY <1>6 DEF InsertOutput
    <2>2. todo' \in [Classes -> SUBSET (Outputs \cup {"stamp"})]
        BY <1>6 DEF InsertOutput
    <2>3. gone' \in [Classes -> SUBSET Outputs]
        BY <1>6 DEF InsertOutput
    <2> QED BY <1>6, <2>1, <2>2, <2>3 DEF InsertOutput
<1>19. ASSUME NEW c \in Classes, NEW o \in Outputs, SkipOutput(c, o)
       PROVE  TypeOK'
    <2>1. todo' \in [Classes -> SUBSET (Outputs \cup {"stamp"})] /\ barren' \subseteq Classes
        BY <1>19 DEF SkipOutput
    <2> QED BY <1>19, <2>1 DEF SkipOutput
<1>20. ASSUME NEW c \in Classes, InsertBaseRate(c)
       PROVE  TypeOK'
    <2>1. out' \in [Classes -> [Outputs -> SUBSET Versions]]
        <3>1. {code[c]} \in SUBSET Versions /\ out[c] \in [Outputs -> SUBSET Versions]
            OBVIOUS
        <3>2. out' = [out EXCEPT ![c] = [out[c] EXCEPT !["base_rate"] = {code[c]}]]
            BY <1>20 DEF InsertBaseRate
        <3>3. [out[c] EXCEPT !["base_rate"] = {code[c]}] \in [Outputs -> SUBSET Versions]
            BY <3>1
        <3> QED BY <3>2, <3>3
    <2>2. todo' \in [Classes -> SUBSET (Outputs \cup {"stamp"})]
        BY <1>20 DEF InsertBaseRate
    <2> QED BY <1>20, <2>1, <2>2 DEF InsertBaseRate
<1>21. ASSUME NEW c \in Classes, StampClass(c)
       PROVE  TypeOK'
    BY <1>21 DEF StampClass
<1>7. ASSUME NEW c \in Classes, FailClass(c)
      PROVE  TypeOK'
    BY <1>7 DEF FailClass, Fault, library
<1>8. ASSUME FinishRefresh
      PROVE  TypeOK'
    BY <1>8, <1>f DEF FinishRefresh
<1>9. ASSUME AbortRefresh
      PROVE  TypeOK'
    <2>1. /\ ForgetLocals /\ lock' = FALSE /\ faults' = faults + 1
          /\ UNCHANGED <<code, out, barren, logged, unfinished, done>>
        BY <1>9 DEF AbortRefresh, Fault
    <2>2. faults' \in Nat
        BY <2>1
    <2>3. UNCHANGED <<code, out, barren>> /\ logged' \in BOOLEAN /\ lock' \in BOOLEAN
          /\ done' \in Scans /\ unfinished' \subseteq Classes
        BY <2>1
    <2> QED BY <2>1, <2>2, <2>3, <1>f
<1>10. ASSUME NEW selection \in Selections, NEW isStrict \in BOOLEAN,
              StartScan(selection, isStrict)
       PROVE  TypeOK'
    <2>1. scan' \in Scans
        BY <1>10, <1>n DEF StartScan, Scans, Registered
    <2> QED BY <1>10, <2>1 DEF StartScan, Registered, library
<1>11. ASSUME NEW c \in Classes, NEW kind \in Kinds, Record(c, kind), faults' \in Nat
       PROVE  TypeOK'
    <2>1. scan' \in Scans
        BY <1>11 DEF Record, Scans
    <2> QED BY <1>11, <2>1 DEF Record, library
<1>12. ASSUME NEW c \in Classes,
              EvaluateClass(c) \/ EvaluateWithoutBaseRate(c) \/ FailEvaluation(c)
       PROVE  TypeOK'
    <2>1. \E kind \in Kinds : Record(c, kind)
        BY <1>12 DEF EvaluateClass, EvaluateWithoutBaseRate, FailEvaluation, Kinds
    <2>2. faults' \in Nat
        BY <1>12 DEF EvaluateClass, EvaluateWithoutBaseRate, FailEvaluation, Fault
    <2> QED BY <1>11, <2>1, <2>2
<1>13. ASSUME NEW c \in Classes, StrictAbort(c)
       PROVE  TypeOK'
    BY <1>13, <1>f DEF StrictAbort, library
<1>14. ASSUME FinishScan \/ FinishCompare
       PROVE  TypeOK'
    BY <1>14, <1>f DEF FinishScan, FinishCompare, library
<1>15. ASSUME StartCompare
       PROVE  TypeOK'
    BY <1>15 DEF StartCompare, library
<1>16. ASSUME NEW c \in Classes, CompareClass(c)
       PROVE  TypeOK'
    BY <1>16 DEF CompareClass, library
<1>17. ASSUME Kill
       PROVE  TypeOK'
    BY <1>17, <1>f DEF Kill, Fault, library
<1>18. ASSUME UNCHANGED vars
       PROVE  TypeOK'
    BY <1>18 DEF vars, library, locals
<1> QED
    BY <1>1, <1>2, <1>3, <1>4, <1>5, <1>6, <1>7, <1>8, <1>9, <1>10, <1>12, <1>13, <1>14, <1>15,
       <1>16, <1>17, <1>18, <1>19, <1>20, <1>21
    DEF Next, Step, Failure, Command, World

-----------------------------------------------------------------------------
\* The library: the invariant holds at the start.
LEMMA InitIInv == Init => IInv
<1> SUFFICES ASSUME Init PROVE IInv
    OBVIOUS
<1>1. ScanInv /\ QueueInv
    BY DEF Init, ScanInv, QueueInv, Recorded, Never, NoScan
<1>2. \A c \in Classes : todo[c] = {} /\ gone[c] = {} /\ out[c]["base_rate"] = {}
    BY OutputNames DEF Init, Fixed
<1> QED BY <1>1, <1>2, InitTypes DEF IInv, ClassInv, AtWorkInv, GoneInv, SettledInv

\* The library: a step that leaves a class's rows, work and definition alone.
LEMMA OtherClass ==
    ASSUME NEW c \in Classes, ClassInv(c),
           out'[c] = out[c], todo'[c] = todo[c], code'[c] = code[c], gone'[c] = gone[c],
           c \in unfinished' <=> c \in unfinished,
           c \in barren' <=> c \in barren,
           todo[c] # {} => cmd' = cmd /\ (c \in queue' => c \in queue)
    PROVE  ClassInv(c)'
<1>1. \A v : NeedsAt(c, v)' = NeedsAt(c, v)
    BY DEF NeedsAt, DeclaredAt
<1>2. \A o, v : FreshAt(c, o, v)' <=> FreshAt(c, o, v)
    BY DEF FreshAt
<1>3. AtWorkInv(c)'
    BY <1>1, <1>2 DEF ClassInv, AtWorkInv
<1>4. GoneInv(c)'
    BY DEF ClassInv, GoneInv
<1>5. SettledInv(c)'
    BY <1>1, <1>2 DEF ClassInv, SettledInv
<1> QED BY <1>3, <1>4, <1>5 DEF ClassInv

\* The library: a class that is given up keeps its invariant.
LEMMA GivenUp ==
    ASSUME NEW c \in Classes, ClassInv(c), todo'[c] = {}, gone'[c] = {},
           out'[c] = out[c], c \in unfinished' <=> c \in unfinished,
           c \in barren' <=> c \in barren
    PROVE  ClassInv(c)'
<1>1. \A v : NeedsAt(c, v)' = NeedsAt(c, v)
    BY DEF NeedsAt, DeclaredAt
<1>2. \A o, v : FreshAt(c, o, v)' <=> FreshAt(c, o, v)
    BY DEF FreshAt
<1>3. SettledInv(c)'
    BY <1>1, <1>2 DEF ClassInv, SettledInv
<1> QED BY <1>3 DEF ClassInv, AtWorkInv, GoneInv

\* The library: a command that ends keeps nothing at work.
LEMMA Forgotten ==
    ASSUME IInv, ForgetLocals, UNCHANGED <<code, out, barren, unfinished>>, Recorded(done)'
    PROVE  ScanInv' /\ QueueInv' /\ \A c \in Classes : ClassInv(c)'
<1>1. ScanInv' /\ QueueInv'
    BY DEF ForgetLocals, ScanInv, QueueInv, NoScan
<1>2. ASSUME NEW c \in Classes
      PROVE  ClassInv(c)'
    <2>1. ClassInv(c) /\ todo'[c] = {} /\ gone'[c] = {}
        BY DEF IInv, ForgetLocals
    <2> QED BY <2>1, GivenUp
<1> QED BY <1>1, <1>2

\* The refresh: its steps preserve what is said of scans.
LEMMA RefreshScanInv ==
    ASSUME ScanInv, UNCHANGED <<cmd, queue, scan, done, missing>>
    PROVE  ScanInv'
BY DEF ScanInv, Recorded

\* The library: nothing is at work between commands.
LEMMA IdleRests ==
    ASSUME IInv, cmd # "refresh", NEW c \in Classes
    PROVE  todo[c] = {} /\ gone[c] = {}
BY DEF IInv, ClassInv, AtWorkInv, GoneInv

\* The refresh: a stage that came through keeps the invariant of its class, if
\* its output holds what the present definition computed of it, or nothing was
\* computed of it.
LEMMA StageDone ==
    ASSUME IInv, NEW c \in Classes, NEW o \in Outputs, o \in todo[c],
           todo'[c] = todo[c] \ {o}, UNCHANGED <<code, cmd, queue, unfinished>>,
           c \in barren => c \in barren',
           \A p \in Outputs \ {o} : out'[c][p] = out[c][p],
           FreshAt(c, o, code[c])' \/ o \notin NeedsAt(c, code[c])',
           \A p \in gone'[c] : p \in gone[c] \ {o}
    PROVE  ClassInv(c)'
<1>1. AtWorkInv(c) /\ GoneInv(c)
    BY DEF IInv, ClassInv
<1>2. code[c] \in Versions
    BY DEF IInv, TypeOK
<1>3. NeedsAt(c, code[c])' \subseteq NeedsAt(c, code[c]) /\ NeedsAt(c, code[c]) \subseteq Outputs
    BY <1>2, NeedsAreOutputs DEF NeedsAt, DeclaredAt
<1>4. ASSUME NEW p \in NeedsAt(c, code[c])' \ todo'[c], p # o
      PROVE  FreshAt(c, p, code[c])'
    <2>1. FreshAt(c, p, code[c]) /\ p \in Outputs
        BY <1>1, <1>3, <1>4 DEF AtWorkInv
    <2> QED BY <1>4, <2>1 DEF FreshAt
<1>5. "stamp" \in todo'[c] /\ c \in unfinished
    BY <1>1, OutputNames DEF AtWorkInv
<1>6. AtWorkInv(c)'
    BY <1>1, <1>4, <1>5 DEF AtWorkInv
<1>7. GoneInv(c)'
    BY <1>1 DEF GoneInv, IInv, TypeOK
<1> QED BY <1>5, <1>6, <1>7 DEF ClassInv, SettledInv

\* The refresh: a step of one worker on an output leaves the other classes alone.
LEMMA OneWorker ==
    ASSUME IInv, NEW c \in Classes, ClassInv(c)',
           UNCHANGED <<code, cmd, queue, unfinished, scan, done, missing>>,
           \A d \in Classes \ {c} : /\ out'[d] = out[d] /\ todo'[d] = todo[d]
                                    /\ gone'[d] = gone[d]
                                    /\ d \in barren' <=> d \in barren
    PROVE  ScanInv' /\ QueueInv' /\ \A d \in Classes : ClassInv(d)'
<1>1. ScanInv' /\ QueueInv'
    BY RefreshScanInv DEF IInv, QueueInv, Registered
<1>2. ASSUME NEW d \in Classes, d # c
      PROVE  ClassInv(d)'
    <2>1. ClassInv(d)
        BY DEF IInv
    <2> QED BY <1>2, <2>1, OtherClass
<1> QED BY <1>1, <1>2

\* The refresh: an output of which nothing was computed keeps the invariant.
LEMMA SkipStep ==
    ASSUME IInv, NEW c \in Classes, NEW o \in Outputs, SkipOutput(c, o)
    PROVE  ScanInv' /\ QueueInv' /\ \A d \in Classes : ClassInv(d)'
<1> USE DEF IInv, TypeOK
<1>1. /\ o \in todo[c] /\ gone[c] = {} /\ todo' = [todo EXCEPT ![c] = @ \ {o}]
      /\ UNCHANGED <<code, out, cmd, queue, gone, unfinished, scan, done, missing>>
    BY DEF SkipOutput, IsNext
<1>2. /\ c \in barren' /\ o \in {"outcomes", "analogues"} \cup Variables
      /\ barren' \subseteq barren \cup {c} /\ barren \subseteq barren'
    BY DEF SkipOutput
<1>3. o \notin NeedsAt(c, code[c])'
    BY <1>2, OutputNames DEF NeedsAt, Fixed
<1>4. ClassInv(c)'
    BY <1>1, <1>2, <1>3, StageDone
<1> QED BY <1>1, <1>2, <1>4, OneWorker

\* The refresh: a DELETE keeps the invariant, because its output is yet to come.
LEMMA DeleteStep ==
    ASSUME IInv, NEW c \in Classes, NEW o \in Outputs, DeleteOutput(c, o)
    PROVE  ScanInv' /\ QueueInv' /\ \A d \in Classes : ClassInv(d)'
<1> USE DEF IInv, TypeOK
<1>1. /\ o \in todo[c] /\ o # "base_rate" /\ gone' = [gone EXCEPT ![c] = {o}]
      /\ UNCHANGED <<code, cmd, queue, unfinished, scan, done, missing, todo, barren>>
    BY DEF DeleteOutput, IsNext
<1>2. PICK rest \in Survivors(c, o) : out' = [out EXCEPT ![c][o] = rest \cup {0}]
    BY DEF DeleteOutput
<1>3. /\ o \notin Keyed => out'[c][o] = {0}
      /\ \A p \in Outputs \ {o} : out'[c][p] = out[c][p]
      /\ \A d \in Classes \ {c} : out'[d] = out[d]
    BY <1>2 DEF Survivors
<1>4. AtWorkInv(c) /\ code[c] \in Versions
    BY DEF ClassInv
<1>5. NeedsAt(c, code[c])' = NeedsAt(c, code[c]) /\ NeedsAt(c, code[c]) \subseteq Outputs
    BY <1>1, <1>4, NeedsAreOutputs DEF NeedsAt, DeclaredAt
<1>6. \A p \in NeedsAt(c, code[c]) \ todo[c] : FreshAt(c, p, code[c])'
    BY <1>1, <1>3, <1>4, <1>5 DEF AtWorkInv, FreshAt
<1>7. AtWorkInv(c)'
    BY <1>1, <1>4, <1>5, <1>6 DEF AtWorkInv
<1>8. GoneInv(c)'
    BY <1>1, <1>3 DEF GoneInv
<1>9. SettledInv(c)'
    BY <1>1, <1>4 DEF AtWorkInv, SettledInv
<1>10. \A d \in Classes \ {c} : gone'[d] = gone[d]
    BY <1>1
<1> QED BY <1>1, <1>3, <1>7, <1>8, <1>9, <1>10, OneWorker DEF ClassInv

\* The refresh: the INSERTs of an output leave it fresh, except for keys that
\* were not deleted.
LEMMA InsertStep ==
    ASSUME IInv, NEW c \in Classes, NEW o \in Outputs, InsertOutput(c, o)
    PROVE  ScanInv' /\ QueueInv' /\ \A d \in Classes : ClassInv(d)'
<1> USE DEF IInv, TypeOK
<1>1. /\ o \in todo[c] /\ o \in gone[c]
      /\ UNCHANGED <<code, cmd, queue, unfinished, scan, done, missing, barren>>
      /\ todo' = [todo EXCEPT ![c] = @ \ {o}] /\ gone' = [gone EXCEPT ![c] = {}]
      /\ out' = [out EXCEPT ![c][o] = (@ \ {0}) \cup {code[c]}]
    BY DEF InsertOutput, IsNext
<1>2. /\ out'[c][o] = (out[c][o] \ {0}) \cup {code[c]}
      /\ \A p \in Outputs \ {o} : out'[c][p] = out[c][p]
      /\ \A d \in Classes \ {c} : out'[d] = out[d]
    BY <1>1
<1>3. code[c] # 0 /\ (o \notin Keyed => out[c][o] = {0})
    BY <1>1 DEF ClassInv, AtWorkInv, GoneInv
<1>4. FreshAt(c, o, code[c])'
    BY <1>1, <1>2, <1>3 DEF FreshAt
<1>5. todo'[c] = todo[c] \ {o} /\ gone'[c] = {}
    BY <1>1
<1>6. ClassInv(c)'
    BY <1>1, <1>2, <1>4, <1>5, StageDone
<1>7. \A d \in Classes \ {c} : todo'[d] = todo[d] /\ gone'[d] = gone[d]
    BY <1>1
<1> QED BY <1>1, <1>2, <1>6, <1>7, OneWorker

\* The refresh: the latest base rate is the one just computed.
LEMMA BaseRateStep ==
    ASSUME IInv, NEW c \in Classes, InsertBaseRate(c)
    PROVE  ScanInv' /\ QueueInv' /\ \A d \in Classes : ClassInv(d)'
<1> USE DEF IInv, TypeOK
<1> DEFINE o == "base_rate"
<1>0. o \in Outputs
    BY OutputNames DEF Fixed
<1> HIDE DEF o
<1>1. /\ o \in todo[c]
      /\ UNCHANGED <<code, cmd, queue, unfinished, scan, done, missing, barren, gone>>
      /\ todo' = [todo EXCEPT ![c] = @ \ {o}]
      /\ out' = [out EXCEPT ![c][o] = {code[c]}]
    BY DEF InsertBaseRate, IsNext, o
<1>2. /\ out'[c][o] = {code[c]}
      /\ \A p \in Outputs \ {o} : out'[c][p] = out[c][p]
      /\ \A d \in Classes \ {c} : out'[d] = out[d]
    BY <1>0, <1>1
<1>3. code[c] # 0 /\ \A p \in gone[c] : p # o
    BY <1>1 DEF ClassInv, AtWorkInv, GoneInv, o
<1>4. FreshAt(c, o, code[c])'
    BY <1>1, <1>2, <1>3 DEF FreshAt
<1>5. todo'[c] = todo[c] \ {o} /\ \A d \in Classes \ {c} : todo'[d] = todo[d]
    BY <1>1
<1>6. ClassInv(c)'
    BY <1>0, <1>1, <1>2, <1>3, <1>4, <1>5, StageDone
<1> QED BY <1>1, <1>2, <1>5, <1>6, OneWorker

\* The refresh: at its stamp a class has, of the present definition, all that
\* was computed.
LEMMA WholeAtStamp ==
    ASSUME IInv, NEW c \in Classes, IsNext(c, "stamp")
    PROVE  /\ todo[c] = {"stamp"} /\ gone[c] = {} /\ code[c] \in Versions \ {0}
           /\ \A p \in NeedsAt(c, code[c]) : FreshAt(c, p, code[c])
<1> USE DEF IInv, TypeOK
<1>1. todo[c] = {"stamp"}
    BY StampIsLast
<1>2. gone[c] = {}
    BY <1>1, OutputNames DEF ClassInv, GoneInv
<1>3. code[c] \in Versions \ {0}
    BY <1>1 DEF ClassInv, AtWorkInv
<1>4. \A p \in NeedsAt(c, code[c]) : p # "stamp"
    BY <1>3, NeedsAreOutputs, OutputNames
<1> QED BY <1>1, <1>2, <1>3, <1>4 DEF ClassInv, AtWorkInv

\* The refresh: a stamped class is settled.
LEMMA StampInv ==
    ASSUME IInv, NEW c \in Classes, StampClass(c)
    PROVE  ScanInv' /\ QueueInv' /\ \A d \in Classes : ClassInv(d)'
<1> USE DEF IInv, TypeOK
<1>1. /\ IsNext(c, "stamp") /\ todo' = [todo EXCEPT ![c] = {}] /\ unfinished' = unfinished \ {c}
      /\ UNCHANGED <<code, out, barren, cmd, queue, gone, scan, done, missing>>
    BY DEF StampClass
<1>2. /\ gone[c] = {} /\ code[c] \in Versions \ {0}
      /\ \A p \in NeedsAt(c, code[c]) : FreshAt(c, p, code[c])
    BY <1>1, WholeAtStamp
<1>3. out[c]["base_rate"] = {code[c]}
    BY <1>2 DEF NeedsAt, FreshAt, Keyed
<1>4. SettledInv(c)
    BY <1>2, <1>3 DEF SettledInv
<1>5. \A v : NeedsAt(c, v)' = NeedsAt(c, v)
    BY <1>1 DEF NeedsAt, DeclaredAt
<1>6. \A p, v : FreshAt(c, p, v)' <=> FreshAt(c, p, v)
    BY <1>1 DEF FreshAt
<1>7. SettledInv(c)'
    BY <1>1, <1>2, <1>3, <1>5, <1>6 DEF SettledInv
<1>8. ClassInv(c)'
    BY <1>1, <1>2, <1>7 DEF ClassInv, AtWorkInv, GoneInv
<1>9. ASSUME NEW d \in Classes, d # c
      PROVE  ClassInv(d)'
    <2>1. /\ ClassInv(d) /\ todo'[d] = todo[d] /\ (d \in unfinished' <=> d \in unfinished)
          /\ UNCHANGED <<out, code, gone, barren, cmd, queue>>
        BY <1>1, <1>9
    <2> QED BY <2>1, OtherClass
<1>10. ScanInv' /\ QueueInv'
    BY <1>1, RefreshScanInv DEF QueueInv, Registered
<1> QED BY <1>8, <1>9, <1>10

\* The refresh: a class is taken from the queue by one worker.
LEMMA StartClassInv ==
    ASSUME IInv, NEW c \in Classes, StartClass(c)
    PROVE  ScanInv' /\ QueueInv' /\ \A d \in Classes : ClassInv(d)'
<1> USE DEF IInv, TypeOK
<1>1. /\ cmd = "refresh" /\ c \in queue /\ queue' = queue \ {c}
      /\ todo' = [todo EXCEPT ![c] = Declared(c) \cup {"stamp"}]
      /\ unfinished' = unfinished \cup {c} /\ barren' = barren \ {c}
      /\ UNCHANGED <<code, out, done, cmd, gone, scan, missing>>
    BY DEF StartClass
<1>2. ScanInv' /\ QueueInv'
    BY <1>1 DEF ScanInv, QueueInv, Registered, Recorded
<1>3. code[c] # 0 /\ gone[c] = {}
    BY <1>1 DEF QueueInv, Registered, ClassInv, AtWorkInv, GoneInv
<1>4. todo'[c] = DeclaredAt(c, code[c]) \cup {"stamp"}
    BY <1>1, NeedsNow
<1>5. NeedsAt(c, code[c])' \subseteq todo'[c]
    BY <1>1, <1>4 DEF NeedsAt, DeclaredAt
<1>6. AtWorkInv(c)'
    BY <1>1, <1>3, <1>4, <1>5 DEF AtWorkInv
<1>7. ClassInv(c)'
    BY <1>1, <1>3, <1>6 DEF ClassInv, GoneInv, SettledInv
<1>8. ASSUME NEW d \in Classes, d # c
      PROVE  ClassInv(d)'
    <2>1. /\ ClassInv(d) /\ todo'[d] = todo[d] /\ (d \in unfinished' <=> d \in unfinished)
          /\ (d \in barren' <=> d \in barren) /\ (d \in queue' => d \in queue)
          /\ UNCHANGED <<out, code, gone, cmd>>
        BY <1>1, <1>8
    <2> QED BY <2>1, OtherClass
<1> QED BY <1>2, <1>7, <1>8

\* The refresh: a class that is given up.
LEMMA FailClassInv ==
    ASSUME IInv, NEW c \in Classes, FailClass(c)
    PROVE  ScanInv' /\ QueueInv' /\ \A d \in Classes : ClassInv(d)'
<1> USE DEF IInv, TypeOK
<1>1. /\ todo' = [todo EXCEPT ![c] = {}] /\ gone' = [gone EXCEPT ![c] = {}]
      /\ UNCHANGED <<code, out, barren, unfinished, done, cmd, queue, scan, missing>>
    BY DEF FailClass, library
<1>2. ClassInv(c)'
    <2>1. ClassInv(c) /\ todo'[c] = {} /\ gone'[c] = {}
        BY <1>1
    <2> QED BY <1>1, <2>1, GivenUp
<1>3. \A d \in Classes \ {c} : todo'[d] = todo[d] /\ gone'[d] = gone[d]
    BY <1>1
<1> QED BY <1>1, <1>2, <1>3, OneWorker

\* The library: the invariant is inductive.
LEMMA IInvStep ==
    ASSUME IInv, [Next]_vars
    PROVE  IInv'
<1>t. TypeOK /\ TypeOK'
    BY TypesStep DEF IInv
<1>d. Recorded(done)
    BY DEF IInv, ScanInv
<1>s. ASSUME UNCHANGED <<code, out, barren, todo, gone, unfinished>>, cmd # "refresh",
             ScanInv', QueueInv'
      PROVE  IInv'
    <2>1. ASSUME NEW c \in Classes
          PROVE  ClassInv(c)'
        <3>1. ClassInv(c) /\ todo[c] = {}
            BY <1>s, IdleRests DEF IInv
        <3> QED BY <1>s, <3>1, OtherClass
    <2> QED BY <1>s, <1>t, <2>1 DEF IInv
<1>f. ASSUME ForgetLocals, UNCHANGED <<code, out, barren, unfinished>>, Recorded(done)'
      PROVE  IInv'
    BY <1>f, <1>t, Forgotten DEF IInv
<1>1. ASSUME NEW c \in Classes, NEW v \in Versions, EditClass(c, v)
      PROVE  IInv'
    <2>1. cmd = "idle" /\ UNCHANGED <<out, barren, unfinished, todo, gone, cmd, queue, scan, done, missing>>
        BY <1>1 DEF EditClass, library, locals
    <2>2. ASSUME NEW d \in Classes
          PROVE  ClassInv(d)'
        <3>1. todo[d] = {} /\ gone[d] = {} /\ ClassInv(d)
            BY <2>1, IdleRests DEF IInv
        <3> QED BY <2>1, <3>1, GivenUp
    <2>3. ScanInv' /\ QueueInv'
        BY <2>1, RefreshScanInv DEF IInv, QueueInv
    <2> QED BY <1>t, <2>2, <2>3 DEF IInv
<1>2. ASSUME RemoveLock
      PROVE  IInv'
    <2>1. cmd = "idle" /\ UNCHANGED <<code, out, barren, unfinished, todo, gone, cmd, queue, scan, done,
                                      missing>>
        BY <1>2 DEF RemoveLock, locals
    <2>2. ScanInv' /\ QueueInv'
        BY <2>1, RefreshScanInv DEF IInv, QueueInv
    <2> QED BY <2>1, <2>2, <1>s
<1>3. ASSUME NEW selection \in Selections, StartRefresh(selection)
      PROVE  IInv'
    <2>1. ScanInv' /\ QueueInv'
        BY <1>3 DEF StartRefresh, WorkingSet, IInv, ScanInv, QueueInv, Registered, Recorded
    <2> QED BY <1>3, <2>1, <1>s DEF StartRefresh
<1>4. ASSUME NEW c \in Classes, StartClass(c) \/ FailClass(c) \/ StampClass(c) \/ InsertBaseRate(c)
      PROVE  IInv'
    BY <1>4, <1>t, StartClassInv, FailClassInv, StampInv, BaseRateStep DEF IInv
<1>5. ASSUME NEW c \in Classes, NEW o \in Outputs,
             SkipOutput(c, o) \/ DeleteOutput(c, o) \/ InsertOutput(c, o)
      PROVE  IInv'
    BY <1>5, <1>t, SkipStep, DeleteStep, InsertStep DEF IInv
<1>7. ASSUME FinishRefresh \/ AbortRefresh
      PROVE  IInv'
    <2>1. ForgetLocals /\ UNCHANGED <<code, out, barren, unfinished, done>>
        BY <1>7 DEF FinishRefresh, AbortRefresh
    <2> QED BY <2>1, <1>f, <1>d DEF Recorded
<1>8. ASSUME NEW selection \in Selections, NEW isStrict \in BOOLEAN,
             StartScan(selection, isStrict)
      PROVE  IInv'
    <2>1. queue' = scan'.asked /\ UNCHANGED <<code, out, barren, todo, gone, unfinished, done, missing>>
          /\ cmd = "idle" /\ cmd' = "scan"
        BY <1>8 DEF StartScan, NoScan, library
    <2>2. ScanInv' /\ QueueInv'
        BY <2>1 DEF IInv, ScanInv, QueueInv, Recorded
    <2> QED BY <2>1, <2>2, <1>s
<1>9. ASSUME NEW c \in Classes,
             EvaluateClass(c) \/ EvaluateWithoutBaseRate(c) \/ FailEvaluation(c)
      PROVE  IInv'
    <2>1. PICK kind \in Kinds \ {"none"} : Record(c, kind)
        BY <1>9 DEF EvaluateClass, EvaluateWithoutBaseRate, FailEvaluation, Kinds
    <2>2. /\ queue' = queue \ {c} /\ scan'.asked = scan.asked /\ cmd = "scan"
          /\ scan'.record = [scan.record EXCEPT ![c] = kind]
          /\ scan.record \in [Classes -> Kinds] /\ scan.asked \subseteq Classes
          /\ UNCHANGED <<code, out, barren, todo, gone, unfinished, done, missing, cmd>>
        BY <2>1, <1>t DEF Record, TypeOK, Scans, library
    <2>3. ScanInv' /\ QueueInv'
        BY <2>2 DEF IInv, ScanInv, QueueInv, Recorded
    <2> QED BY <2>2, <2>3, <1>s
<1>10. ASSUME NEW c \in Classes, StrictAbort(c)
       PROVE  IInv'
    BY <1>10, <1>f, <1>d DEF StrictAbort, library, Recorded
<1>11. ASSUME FinishScan
       PROVE  IInv'
    <2>1. Recorded(scan)
        BY <1>11 DEF FinishScan, IInv, ScanInv, Recorded
    <2>2. Recorded(done)'
        BY <1>11, <2>1 DEF FinishScan, Recorded
    <2> QED BY <1>11, <1>f, <2>2 DEF FinishScan, library
<1>12. ASSUME StartCompare
       PROVE  IInv'
    <2>1. ScanInv' /\ QueueInv'
        BY <1>12 DEF StartCompare, IInv, ScanInv, QueueInv, Recorded
    <2> QED BY <1>12, <2>1, <1>s DEF StartCompare, library
<1>13. ASSUME NEW c \in Classes, CompareClass(c)
       PROVE  IInv'
    <2>1. /\ cmd = "compare"
          /\ UNCHANGED <<code, out, barren, todo, gone, unfinished, done, cmd, scan>>
          /\ missing' \subseteq missing \cup {c}
          /\ c \in missing' \ missing => done.record[c] = "none"
        BY <1>13 DEF CompareClass, library
    <2>2. ScanInv' /\ QueueInv'
        BY <2>1 DEF IInv, ScanInv, QueueInv, Recorded
    <2> QED BY <2>1, <2>2, <1>s
<1>14. ASSUME FinishCompare \/ Kill
       PROVE  IInv'
    BY <1>14, <1>f, <1>d DEF FinishCompare, Kill, library, Recorded
<1>15. ASSUME UNCHANGED vars
       PROVE  IInv'
    <2>1. ScanInv' /\ QueueInv'
        BY <1>15, RefreshScanInv DEF vars, library, locals, IInv, QueueInv, Registered
    <2>2. ASSUME NEW c \in Classes
          PROVE  ClassInv(c)'
        <3>1. ClassInv(c)
            BY DEF IInv
        <3> QED BY <1>15, <3>1, OtherClass DEF vars, library, locals
    <2> QED BY <1>t, <2>1, <2>2 DEF IInv
<1> QED
    BY <1>1, <1>2, <1>3, <1>4, <1>5, <1>7, <1>8, <1>9, <1>10, <1>11, <1>12, <1>13, <1>14, <1>15
    DEF Next, Step, Failure, Command, World

\* The library: the invariant holds of every behaviour.
LEMMA IInvAlways == Spec => []IInv
<1>1. IInv /\ [Next]_vars => IInv'
    BY IInvStep
<1> QED BY <1>1, InitIInv, PTL DEF Spec

-----------------------------------------------------------------------------
\* PatternLibrary: the variables keep their types.
THEOREM LibraryTypes == Spec => []TypeOK
<1>1. IInv => TypeOK
    BY DEF IInv
<1> QED BY <1>1, IInvAlways, PTL

\* comparator.py: an error comparison is made only of a class that the latest
\* scan was not asked for, whatever became of the scans before it.
THEOREM MissingWasNotAsked == Spec => []MissingOnlyIfNotAsked
<1>1. IInv => MissingOnlyIfNotAsked
    BY DEF IInv, ScanInv, MissingOnlyIfNotAsked
<1> QED BY <1>1, IInvAlways, PTL

\* The refresh: only the stamp takes a class from the unfinished.
LEMMA StampStep ==
    ASSUME IInv, [Next]_vars, NEW c \in Classes, c \in unfinished, c \notin unfinished'
    PROVE  StampClass(c)
<1>1. PICK d \in Classes : StampClass(d)
    BY DEF Next, Step, Failure, Command, World, EditClass, RemoveLock, StartRefresh, StartClass,
           SkipOutput, DeleteOutput, InsertOutput, InsertBaseRate, FailClass, FinishRefresh,
           AbortRefresh, StartScan, Record, EvaluateClass, EvaluateWithoutBaseRate,
           FailEvaluation, StrictAbort, FinishScan, StartCompare, CompareClass, FinishCompare,
           Kill, vars, library
<1> QED BY <1>1 DEF StampClass

\* refresh.py: a class is stamped as evaluated only when each output that its
\* present definition declares, and had occurrences for, was computed from it.
THEOREM StampedIsWhole == Spec => StampMeansWhole
<1>1. ASSUME IInv, [Next]_vars, NEW c \in Classes, c \in unfinished, c \notin unfinished'
      PROVE  IsWhole(c)
    <2>1. IsNext(c, "stamp")
        BY <1>1, StampStep DEF StampClass
    <2> QED BY <1>1, <2>1, WholeAtStamp, NeedsNow DEF IsWhole
<1>2. IInv /\ [Next]_vars =>
        [\A c \in Classes : c \in unfinished /\ c \notin unfinished' => IsWhole(c)]_vars
    BY <1>1
<1> QED BY <1>2, IInvAlways, PTL DEF Spec, StampMeansWhole

\* The scan: a silent record is written by an evaluation that found no drift.
LEMMA SilentStep ==
    ASSUME IInv, [Next]_vars, NEW c \in Classes,
           scan.record[c] = "none", scan'.record[c] = "silent"
    PROVE  HasBaseRate(c) /\ ~Drifts(c)
<1>1. ASSUME NEW d \in Classes, NEW kind \in Kinds, Record(d, kind)
      PROVE  d = c /\ kind = "silent"
    BY <1>1 DEF Record, IInv, TypeOK, Scans
<1>2. scan' # scan
    OBVIOUS
<1>3. scan' # NoScan
    BY DEF NoScan
<1>4. \A selection \in Selections, isStrict \in BOOLEAN : ~StartScan(selection, isStrict)
    BY DEF StartScan, NoScan
<1>5. PICK d \in Classes : EvaluateClass(d) \/ EvaluateWithoutBaseRate(d) \/ FailEvaluation(d)
    BY <1>2, <1>3, <1>4
    DEF Next, Step, Failure, Command, World, EditClass, RemoveLock, StartRefresh, StartClass,
        SkipOutput, DeleteOutput, InsertOutput, InsertBaseRate, StampClass, FailClass,
        FinishRefresh, AbortRefresh, StrictAbort, FinishScan, StartCompare, CompareClass,
        FinishCompare, Kill, ForgetLocals, vars, locals
<1> QED BY <1>1, <1>5 DEF EvaluateClass, EvaluateWithoutBaseRate, FailEvaluation, Kinds

\* scanner.py: a record without a drift warning was computed from signatures and
\* a base rate of the present definition only, and from all that it declares
\* unless the last refresh of the class was cut or found no occurrences.
THEOREM SilentIsWhole == Spec => SilentMeansWhole
<1>1. ASSUME IInv, [Next]_vars, NEW c \in Classes,
             scan.record[c] = "none", scan'.record[c] = "silent"
      PROVE  /\ \A x \in Variables : out[c][x] \subseteq {0, code[c]}
             /\ IsWhole(c) \/ c \in unfinished
    <2>1. /\ out[c]["base_rate"] # {} /\ out[c]["base_rate"] = {code[c]}
          /\ \A v \in SignatureVersions(c) : v = code[c]
        BY <1>1, SilentStep DEF HasBaseRate, Drifts
    <2>2. \A x \in Variables : out[c][x] \subseteq {0, code[c]}
        BY <2>1 DEF SignatureVersions
    <2>3. SettledInv(c)
        BY <1>1 DEF IInv, ClassInv
    <2>4. c \notin unfinished => \A o \in NeedsAt(c, code[c]) : FreshAt(c, o, code[c])
        BY <2>1, <2>3 DEF SettledInv
    <2>5. c \notin unfinished => IsWhole(c)
        BY <2>4, NeedsNow DEF IsWhole
    <2> QED BY <2>2, <2>5
<1>2. IInv /\ [Next]_vars =>
        [\A c \in Classes :
           scan.record[c] = "none" /\ scan'.record[c] = "silent"
           => /\ \A x \in Variables : out[c][x] \subseteq {0, code[c]}
              /\ IsWhole(c) \/ c \in unfinished]_vars
    BY <1>1
<1> QED BY <1>2, IInvAlways, PTL DEF Spec, SilentMeansWhole

=============================================================================
