--------------------------- MODULE WatchlistProofs ---------------------------
(***************************************************************************)
(* Proofs about Watchlist for any markets, venues, mappings and bounds,    *)
(* any order of the commands, failing rows and kills.                      *)
(***************************************************************************)
EXTENDS Watchlist, TLAPS

\* A link is tied to a comparison of a market that has a resolution, and an
\* expired mark to such a link; what the passes have on their lists does too.
Chain ==
    /\ \A c \in linked : compared[c] \in Markets /\ resolvedAt[compared[c]] > 0
    /\ \A a \in Analyses : watch[a] = "expired" => a \in LinkedAnalyses
    /\ cmd = "link" => \A m \in pending : resolvedAt[m] > 0
    /\ cmd = "expire" => ids \subseteq LinkedAnalyses

\* In a linkage pass every later resolution is still to come, failed or linked.
Covers ==
    cmd = "link" =>
        \A m \in Polymarket : resolvedAt[m] > watermark =>
            m \in pending \/ m \in errors \/ ComparisonsOf(m) \subseteq linked

IInv == TypeOK /\ Chain /\ Covers

LEMMA InitInv == Init => IInv
  <1> SUFFICES ASSUME Init PROVE IInv
    OBVIOUS
  <1>1. TypeOK
    BY VenuesAssumption, BoundsAssumption DEF Init, TypeOK, Commands, Marks, Active
  <1>2. Chain /\ Covers
    BY DEF Init, Chain, Covers
  <1> QED
    BY <1>1, <1>2 DEF IInv

-----------------------------------------------------------------------------
(* Types.                                                                  *)

LEMMA FaultType == ASSUME TypeOK, Fault PROVE faults' \in Nat
  BY DEF TypeOK, Fault

LEMMA ConnectorType == ASSUME TypeOK, Connector PROVE TypeOK'
  <1>1. ASSUME NEW m \in Markets, FlagMarket(m) PROVE TypeOK'
    BY <1>1 DEF FlagMarket, TypeOK, compares, linkage, position, pass
  <1>2. ASSUME NEW m \in Markets, NEW ts \in 1..MaxTs, StoreResolution(m, ts) PROVE TypeOK'
    BY <1>2, BoundsAssumption DEF StoreResolution, TypeOK, compares, linkage, position, pass
  <1> QED
    BY <1>1, <1>2 DEF Connector

LEMMA CompareType ==
    ASSUME TypeOK, StartCompare \/ \E m \in Markets : CompareMapping(m) PROVE TypeOK'
  <1>1. CASE StartCompare
    BY <1>1, VenuesAssumption
    DEF StartCompare, AutoMapped, Markets, TypeOK, Commands, venue, compares, linkage, position
  <1>2. ASSUME NEW m \in Markets, CompareMapping(m) PROVE TypeOK'
    BY <1>2 DEF CompareMapping, TypeOK, venue, compares, linkage, position
  <1> QED
    BY <1>1, <1>2

LEMMA LinkType ==
    ASSUME TypeOK,
           \/ StartLink \/ FinishLink
           \/ \E m \in Markets : LinkResolution(m) \/ FailResolution(m)
    PROVE  TypeOK'
  <1> USE DEF TypeOK, venue, compares, linkage, position, Commands
  <1>1. CASE StartLink
    BY <1>1 DEF StartLink, NewResolutions, Markets
  <1>2. CASE FinishLink
    BY <1>2 DEF FinishLink, ForgetLocals
  <1>3. ASSUME NEW m \in Markets, LinkResolution(m) PROVE TypeOK'
    BY <1>3 DEF LinkResolution, ComparisonsOf
  <1>4. ASSUME NEW m \in Markets, FailResolution(m) PROVE TypeOK'
    BY <1>4, FaultType DEF FailResolution, ComparisonsOf
  <1> QED
    BY <1>1, <1>2, <1>3, <1>4

LEMMA PositionType ==
    ASSUME TypeOK,
           \/ \E all \in BOOLEAN : StartAnalysis(all)
           \/ \E c \in Comparisons : Analyze(c)
           \/ StartExpire \/ FinishCycle
           \/ \E a \in Analyses : ExpireAnalysis(a) \/ FailExpire(a)
           \/ \E a \in Analyses, mark \in Marks : SetState(a, mark)
    PROVE  TypeOK'
  <1> USE DEF TypeOK, venue, compares, linkage, position, Commands, Marks, Active
  <1>1. ASSUME NEW all \in BOOLEAN, StartAnalysis(all) PROVE TypeOK'
    BY <1>1 DEF StartAnalysis
  <1>2. ASSUME NEW c \in Comparisons, Analyze(c) PROVE TypeOK'
    BY <1>2 DEF Analyze
  <1>3. CASE StartExpire
    BY <1>3 DEF StartExpire, LinkedAnalyses
  <1>4. CASE FinishCycle
    BY <1>4 DEF FinishCycle, ForgetLocals
  <1>5. ASSUME NEW a \in Analyses, ExpireAnalysis(a) PROVE TypeOK'
    BY <1>5 DEF ExpireAnalysis
  <1>6. ASSUME NEW a \in Analyses, FailExpire(a) PROVE TypeOK'
    BY <1>6, FaultType DEF FailExpire
  <1>7. ASSUME NEW a \in Analyses, NEW mark \in Marks, SetState(a, mark) PROVE TypeOK'
    BY <1>7 DEF SetState, pass
  <1> QED
    BY <1>1, <1>2, <1>3, <1>4, <1>5, <1>6, <1>7

LEMMA MonitorType ==
    ASSUME TypeOK, StartMonitor \/ \E a \in Analyses : Evaluate(a) \/ FailEvaluate(a)
    PROVE  TypeOK'
  <1> USE DEF TypeOK, venue, compares, linkage, position, Commands
  <1>1. CASE StartMonitor
    BY <1>1 DEF StartMonitor
  <1>2. ASSUME NEW a \in Analyses, Evaluate(a) PROVE TypeOK'
    <2>1. seen' \subseteq Analyses /\ ids' \subseteq Comparisons \cup Analyses
      BY <1>2 DEF Evaluate
    <2>2. detected' \in BOOLEAN
      BY <1>2, Zenon DEF Evaluate
    <2> QED
      BY <1>2, <2>1, <2>2 DEF Evaluate
  <1>3. ASSUME NEW a \in Analyses, FailEvaluate(a) PROVE TypeOK'
    BY <1>3, FaultType DEF FailEvaluate
  <1> QED
    BY <1>1, <1>2, <1>3

LEMMA KillType == ASSUME TypeOK, Kill PROVE TypeOK'
  BY FaultType DEF Kill, ForgetLocals, TypeOK, Commands, venue, compares, linkage, position

LEMMA StepType == ASSUME TypeOK, [Next]_vars PROVE TypeOK'
  <1>1. CASE UNCHANGED vars
    BY <1>1 DEF vars, venue, compares, linkage, position, pass, TypeOK
  <1>2. CASE Connector
    BY <1>2, ConnectorType
  <1>3. CASE Step
    BY <1>3, CompareType, LinkType, PositionType, MonitorType DEF Step
  <1>4. CASE Failure
    BY <1>4, LinkType, PositionType, MonitorType, KillType DEF Failure
  <1>5. CASE Command
    BY <1>5, CompareType, LinkType, PositionType, MonitorType DEF Command
  <1> QED
    BY <1>1, <1>2, <1>3, <1>4, <1>5 DEF Next

-----------------------------------------------------------------------------
(* The chain and the cover.                                                *)

\* What a step does not touch keeps both.
LEMMA SameRows ==
    ASSUME TypeOK, Chain,
           \A m \in Markets : resolvedAt[m] > 0 => resolvedAt'[m] = resolvedAt[m],
           resolvedAt' \in [Markets -> Nat],
           \A c \in Comparisons : compared[c] # None => compared'[c] = compared[c],
           \A a \in Analyses : analysed[a] # 0 => analysed'[a] = analysed[a],
           \A a \in Analyses : watch'[a] = "expired" => watch[a] = "expired",
           linked' = linked
    PROVE  /\ \A c \in linked' : compared'[c] \in Markets /\ resolvedAt'[compared'[c]] > 0
           /\ \A a \in Analyses : watch'[a] = "expired" => a \in LinkedAnalyses'
           /\ LinkedAnalyses \subseteq LinkedAnalyses'
  <1>1. \A c \in linked : compared'[c] = compared[c]
    BY VenuesAssumption DEF Chain, TypeOK
  <1>2. \A a \in LinkedAnalyses : analysed[a] # 0 /\ analysed'[a] = analysed[a]
    BY DEF LinkedAnalyses, TypeOK, Comparisons
  <1>3. LinkedAnalyses \subseteq LinkedAnalyses'
    BY <1>2 DEF LinkedAnalyses
  <1> QED
    BY <1>1, <1>3 DEF Chain

\* Steps of the other commands.
LEMMA OtherSteps ==
    ASSUME IInv, TypeOK',
           \/ Connector \/ StartCompare \/ StartMonitor \/ FinishCycle \/ Kill
           \/ \E m \in Markets : CompareMapping(m)
           \/ \E all \in BOOLEAN : StartAnalysis(all)
           \/ \E c \in Comparisons : Analyze(c)
           \/ \E a \in Analyses : Evaluate(a) \/ FailEvaluate(a)
           \/ \E a \in Analyses, mark \in Marks : SetState(a, mark)
    PROVE  Chain' /\ Covers'
  <1> USE DEF IInv, venue, compares, linkage, position, pass
  <1>1. cmd' \notin {"link", "expire"}
    BY DEF Connector, FlagMarket, StoreResolution, StartCompare, StartMonitor, FinishCycle, Kill,
           ForgetLocals, CompareMapping, StartAnalysis, Analyze, Evaluate, FailEvaluate, SetState
  <1>2. linked' = linked
    BY DEF Connector, FlagMarket, StoreResolution, StartCompare, StartMonitor, FinishCycle, Kill,
           CompareMapping, StartAnalysis, Analyze, Evaluate, FailEvaluate, SetState
  <1>3. \A m \in Markets : resolvedAt[m] > 0 => resolvedAt'[m] = resolvedAt[m]
    BY DEF TypeOK, Connector, FlagMarket, StoreResolution, StartCompare, StartMonitor,
           FinishCycle, Kill, CompareMapping, StartAnalysis, Analyze, Evaluate, FailEvaluate,
           SetState
  <1>4. \A c \in Comparisons : compared[c] # None => compared'[c] = compared[c]
    BY DEF TypeOK, Connector, FlagMarket, StoreResolution, StartCompare, StartMonitor,
           FinishCycle, Kill, CompareMapping, IsFresh, StartAnalysis, Analyze, Evaluate,
           FailEvaluate, SetState
  <1>5. \A a \in Analyses : analysed[a] # 0 => analysed'[a] = analysed[a]
    BY DEF TypeOK, Connector, FlagMarket, StoreResolution, StartCompare, StartMonitor,
           FinishCycle, Kill, CompareMapping, IsFresh, StartAnalysis, Analyze, Evaluate,
           FailEvaluate, SetState
  <1>6. \A a \in Analyses : watch'[a] = "expired" => watch[a] = "expired"
    BY DEF TypeOK, Connector, FlagMarket, StoreResolution, StartCompare, StartMonitor,
           FinishCycle, Kill, CompareMapping, StartAnalysis, Analyze, Evaluate, FailEvaluate,
           SetState, Marks, Active
  <1>7. resolvedAt' \in [Markets -> Nat]
    BY DEF TypeOK
  <1> QED
    BY <1>1, <1>2, <1>3, <1>4, <1>5, <1>6, <1>7, SameRows DEF Chain, Covers

LEMMA ExpireSteps ==
    ASSUME IInv, TypeOK',
           StartExpire \/ \E a \in Analyses : ExpireAnalysis(a) \/ FailExpire(a)
    PROVE  Chain' /\ Covers'
  <1> USE DEF IInv, venue, compares, linkage, position
  <1>0. /\ UNCHANGED <<resolvedAt, compared, linked, analysed>>
        /\ cmd' = "expire"
        /\ LinkedAnalyses' = LinkedAnalyses
    BY DEF StartExpire, ExpireAnalysis, FailExpire, LinkedAnalyses
  <1>1. CASE StartExpire
    BY <1>0, <1>1 DEF StartExpire, Chain, Covers
  <1>2. ASSUME NEW a \in Analyses, ExpireAnalysis(a) PROVE Chain' /\ Covers'
    <2>1. ids' \subseteq ids /\ a \in LinkedAnalyses
      BY <1>2 DEF ExpireAnalysis, Chain
    <2>2. \A b \in Analyses : watch'[b] = "expired" => watch[b] = "expired" \/ b = a
      BY <1>2 DEF ExpireAnalysis, TypeOK
    <2> QED
      BY <1>0, <1>2, <2>1, <2>2 DEF ExpireAnalysis, Chain, Covers
  <1>3. ASSUME NEW a \in Analyses, FailExpire(a) PROVE Chain' /\ Covers'
    BY <1>0, <1>3 DEF FailExpire, Chain, Covers
  <1> QED
    BY <1>1, <1>2, <1>3

\* More links of comparisons whose markets have resolved.
LEMMA LinkSteps ==
    ASSUME IInv, TypeOK',
           StartLink \/ FinishLink \/ \E m \in Markets : LinkResolution(m) \/ FailResolution(m)
    PROVE  Chain' /\ Covers'
  <1> USE DEF IInv, venue, compares, position
  <1>0. UNCHANGED <<resolvedAt, compared, analysed, watch>>
    BY DEF StartLink, FinishLink, LinkResolution, FailResolution
  <1>1. CASE StartLink
    <2>1. linked' = linked /\ watermark' = watermark /\ cmd' = "link"
      BY <1>1 DEF StartLink, linkage
    <2>2. pending' = NewResolutions
      BY <1>1 DEF StartLink
    <2>3. \A m \in NewResolutions : resolvedAt[m] > 0
      BY DEF NewResolutions, TypeOK, Markets
    <2> QED
      BY <1>0, <2>1, <2>2, <2>3 DEF Chain, Covers, NewResolutions, LinkedAnalyses
  <1>2. CASE FinishLink
    BY <1>0, <1>2 DEF FinishLink, ForgetLocals, Chain, Covers, LinkedAnalyses
  <1>3. ASSUME NEW m \in Markets, LinkResolution(m) \/ FailResolution(m) PROVE Chain' /\ Covers'
    <2>1. /\ cmd = "link" /\ cmd' = "link" /\ watermark' = watermark
          /\ m \in pending /\ pending' = pending \ {m}
      BY <1>3 DEF LinkResolution, FailResolution, IsNext
    <2>2. linked \subseteq linked' /\ linked' \subseteq linked \cup ComparisonsOf(m)
      BY <1>3 DEF LinkResolution, FailResolution
    <2>3. \/ errors' = errors /\ ComparisonsOf(m) \subseteq linked'
          \/ errors' = errors \cup {m}
      BY <1>3 DEF LinkResolution, FailResolution
    <2>4. \A c \in linked' : compared[c] \in Markets /\ resolvedAt[compared[c]] > 0
      BY <2>1, <2>2 DEF Chain, ComparisonsOf
    <2>5. LinkedAnalyses \subseteq LinkedAnalyses'
      BY <1>0, <2>2 DEF LinkedAnalyses
    <2>6. Chain'
      BY <1>0, <2>1, <2>4, <2>5 DEF Chain
    <2>7. \A o \in Polymarket : ComparisonsOf(o)' = ComparisonsOf(o)
      BY <1>0 DEF ComparisonsOf
    <2>8. Covers'
      BY <1>0, <2>1, <2>2, <2>3, <2>7 DEF Covers
    <2> QED
      BY <2>6, <2>8
  <1> QED
    BY <1>1, <1>2, <1>3

LEMMA StepInv == ASSUME IInv, [Next]_vars PROVE IInv'
  <1>0. TypeOK'
    BY StepType DEF IInv
  <1>1. CASE UNCHANGED vars
    BY <1>0, <1>1
    DEF vars, venue, compares, linkage, position, pass, IInv, Chain, Covers, LinkedAnalyses,
        ComparisonsOf
  <1>2. CASE Next
    <2>1. Chain' /\ Covers'
      BY <1>0, <1>2, OtherSteps, ExpireSteps, LinkSteps DEF Next, Step, Failure, Command
    <2> QED
      BY <1>0, <2>1 DEF IInv
  <1> QED
    BY <1>1, <1>2

THEOREM Invariance == Spec => []IInv
  BY InitInv, StepInv, PTL DEF Spec

-----------------------------------------------------------------------------
(* Theorems.                                                               *)

\* Every variable keeps its type, whatever the commands do.
THEOREM WatchlistTypes == Spec => []TypeOK
  <1>1. IInv => TypeOK
    BY DEF IInv
  <1> QED
    BY Invariance, <1>1, PTL

\* linkage.py, expiration.py: no watch expires without a stored resolution of
\* its market, across three commands and any kills between them.
THEOREM NoFalseExpiry == Spec => []ExpiredMeansResolved
  <1>1. IInv => ExpiredMeansResolved
    BY DEF IInv, Chain, LinkedAnalyses, ExpiredMeansResolved
  <1> QED
    BY Invariance, <1>1, PTL

\* linkage.py: the watermark never moves over a resolution that was stored
\* before the pass and is neither linked nor reported.
THEOREM WatermarkIsCovered == Spec => WatermarkCovers
  <1>1. IInv /\ [Next]_vars =>
          (watermark' # watermark =>
             \A m \in Polymarket : resolvedAt[m] > watermark =>
                m \in errors \/ \A c \in Comparisons : compared[c] = m => c \in linked)
    <2> SUFFICES ASSUME IInv, [Next]_vars, watermark' # watermark
                 PROVE  \A m \in Polymarket : resolvedAt[m] > watermark =>
                           m \in errors \/ \A c \in Comparisons : compared[c] = m => c \in linked
      OBVIOUS
    <2>1. FinishLink
      BY DEF Next, Connector, Step, Failure, Command, FlagMarket, StoreResolution, StartCompare,
             StartMonitor, FinishCycle, Kill, CompareMapping, StartAnalysis, Analyze, Evaluate,
             FailEvaluate, SetState, StartLink, LinkResolution, FailResolution, StartExpire,
             ExpireAnalysis, FailExpire, linkage, vars
    <2> QED
      BY <2>1 DEF FinishLink, IInv, Covers, ComparisonsOf
  <1>2. IInv /\ [Next]_vars =>
          [watermark' # watermark =>
             \A m \in Polymarket : resolvedAt[m] > watermark =>
                m \in errors \/ \A c \in Comparisons : compared[c] = m => c \in linked]_vars
    BY <1>1
  <1> QED
    BY Invariance, <1>2, PTL DEF Spec, WatermarkCovers

-----------------------------------------------------------------------------
(* Refinement.                                                             *)

LEMMA RefinesInit == Init => Lifecycle!Init
  BY DEF Init, Lifecycle!Init, LinkedAnalyses

\* Links are only added, so linked analyses stay linked.
LEMMA LinkedGrows == ASSUME IInv, [Next]_vars PROVE LinkedAnalyses \subseteq LinkedAnalyses'
  <1>1. linked \subseteq linked'
    BY DEF Next, Connector, Step, Failure, Command, FlagMarket, StoreResolution, StartCompare,
           StartMonitor, FinishCycle, Kill, CompareMapping, StartAnalysis, Analyze, Evaluate,
           FailEvaluate, SetState, StartLink, FinishLink, LinkResolution, FailResolution,
           StartExpire, ExpireAnalysis, FailExpire, linkage, vars
  <1>2. \A a \in Analyses : analysed[a] # 0 => analysed'[a] = analysed[a]
    BY DEF IInv, TypeOK, Next, Connector, Step, Failure, Command, FlagMarket, StoreResolution,
           StartCompare, StartMonitor, FinishCycle, Kill, CompareMapping, StartAnalysis, Analyze,
           IsFresh, Evaluate, FailEvaluate, SetState, StartLink, FinishLink, LinkResolution,
           FailResolution, StartExpire, ExpireAnalysis, FailExpire, position, vars
  <1> QED
    BY <1>1, <1>2 DEF LinkedAnalyses, IInv, TypeOK, Comparisons

LEMMA RefinesStep ==
    ASSUME IInv, [Next]_vars PROVE [Lifecycle!Next]_<<watch, LinkedAnalyses>>
  <1>1. CASE watch' = watch
    <2>1. LinkedAnalyses' = LinkedAnalyses \cup LinkedAnalyses'
      BY LinkedGrows
    <2>2. LinkedAnalyses' \in SUBSET Analyses
      BY DEF LinkedAnalyses
    <2>3. Lifecycle!Close
      BY <1>1, <2>1, <2>2 DEF Lifecycle!Close
    <2> QED
      BY <2>3 DEF Lifecycle!Next
  <1>2. ASSUME NEW a \in Analyses, NEW mark \in Marks, SetState(a, mark)
        PROVE  Lifecycle!Next
    <2>1. LinkedAnalyses' = LinkedAnalyses
      BY <1>2 DEF SetState, LinkedAnalyses, linkage, position
    <2>2. Lifecycle!Mark(a)
      BY <1>2, <2>1 DEF SetState, Marks, Active, Lifecycle!Mark, Lifecycle!Marks
    <2> QED
      BY <2>2 DEF Lifecycle!Next
  <1>3. ASSUME NEW a \in Analyses, ExpireAnalysis(a), watch' # watch
        PROVE  Lifecycle!Next
    <2>1. LinkedAnalyses' = LinkedAnalyses
      BY <1>3 DEF ExpireAnalysis, LinkedAnalyses, linkage, position
    <2>2. a \in LinkedAnalyses
      BY <1>3 DEF ExpireAnalysis, IInv, Chain
    <2>3. Lifecycle!Expire(a)
      BY <1>3, <2>1, <2>2
      DEF ExpireAnalysis, IsActive, Active, Lifecycle!Expire, Lifecycle!ActiveMarks
    <2> QED
      BY <2>3 DEF Lifecycle!Next
  <1>4. \/ watch' = watch
        \/ \E a \in Analyses, mark \in Marks : SetState(a, mark)
        \/ \E a \in Analyses : ExpireAnalysis(a)
    BY DEF Next, Connector, Step, Failure, Command, FlagMarket, StoreResolution, StartCompare,
           StartMonitor, FinishCycle, Kill, CompareMapping, StartAnalysis, Analyze, Evaluate,
           FailEvaluate, StartLink, FinishLink, LinkResolution, FailResolution, StartExpire,
           FailExpire, vars
  <1> QED
    BY <1>1, <1>2, <1>3, <1>4

\* The rows implement the watch list's promise.
THEOREM Refinement == Spec => ImplementsLifecycle
  BY RefinesInit, RefinesStep, Invariance, PTL DEF Spec, ImplementsLifecycle, Lifecycle!Spec

=============================================================================
