-------------------------- MODULE KalshiSyncProofs --------------------------
(***************************************************************************)
(* Proofs about KalshiSync, for any tiers, items, payloads and moves of the*)
(* venue, and whatever fails.                                              *)
(*                                                                         *)
(* Both properties are about a stage that asks the venue for several       *)
(* listings, page by page, while it moves, and both rest on one fact about *)
(* the looks that are still to come (LookInv): an item that has been in    *)
(* the stage's listings all the while, and only moved on to those asked    *)
(* for later, is found, or is yet to be looked for where it now is.  So it *)
(* is never among the rows to be marked removed, and a market that was     *)
(* settled when the settlements began is never missed: it can only move on *)
(* to the route that is asked last.                                        *)
(***************************************************************************)
EXTENDS KalshiSync, TLAPS

\* The items that this stage looks for.
InScope(x) == stage = "settlements" \/ Parent[x] \in scanned

Sweeping == stage \in Tiers \cup {"settlements"}

LookInv ==
    /\ \A x \in steady : status[x] \in Listings(stage)
    /\ step \in {"fetch", "store"} => Sweeping
    /\ step = "store" => todo = {}
    /\ clean =>
        /\ \A look \in todo, b \in Statuses :
              Sooner(stage, look[2], b) => <<look[1], b>> \in todo
        /\ step \in {"fetch", "store"} =>
              \A x \in steady \ back :
                  InScope(x) => fetched[x] # Nothing \/ <<x, status[x]>> \in todo

\* Tiers have no requests that fail alone; what is to be marked was not kept
\* from sight by a return to an earlier status.
MarkingInv ==
    /\ stage \in Tiers => clean
    /\ gone \cap (steady \ back) = {}
    /\ step = "mark" => stage \in Tiers
    /\ step # "mark" => gone = {}

\* Settled markets never return to an earlier status.
SettledInv == stage = "settlements" => back = {} /\ steady \subseteq Markets

SyncInv == TypeOK /\ LookInv /\ MarkingInv /\ SettledInv

-----------------------------------------------------------------------------
\* The venue: what a listing says is something.
LEMMA SaysSomething ==
    ASSUME TypeOK, NEW x \in Items
    PROVE  ListingOf(x) \in Says /\ ListingOf(x) # Nothing
BY PayloadAssumption DEF TypeOK, ListingOf, Says

\* The listings a stage asks for are statuses, and the later of two is one of them.
LEMMA ListingsAreStatuses ==
    /\ \A stg : Listings(stg) \subseteq Statuses
    /\ \A stg, a, b : Sooner(stg, a, b) => a \in Listings(stg) /\ b \in Listings(stg)
<1>1. ASSUME NEW stg PROVE Listings(stg) \subseteq Statuses
    <2>1. CASE stg = "events"
        <3>1. Asked(stg) = <<"open", "closed", "settled">>
            BY <2>1 DEF Asked
        <3> QED BY <3>1 DEF Listings, Statuses
    <2>2. CASE stg = "settlements"
        <3>1. Asked(stg) = <<"settled", "archived">>
            BY <2>2 DEF Asked, RouteOrder
        <3> QED BY <3>1 DEF Listings, Statuses
    <2>3. CASE stg \notin {"events", "settlements"}
        <3>1. Asked(stg) = <<"open">>
            BY <2>3 DEF Asked
        <3> QED BY <3>1 DEF Listings, Statuses
    <2> QED BY <2>1, <2>2, <2>3
<1> QED BY <1>1 DEF Sooner, Listings

\* settlements.py: the live route is asked before the archive.
LEMMA LiveIsSooner ==
    /\ Listings("settlements") = {"settled", "archived"}
    /\ Sooner("settlements", "settled", "archived")
<1>1. Asked("settlements") = <<"settled", "archived">>
    BY DEF Asked, RouteOrder
<1>2. DOMAIN <<"settled", "archived">> = {1, 2}
    OBVIOUS
<1>3. Listings("settlements") = {"settled", "archived"}
    BY <1>1, <1>2 DEF Listings
<1>4. 1 < 2 /\ <<"settled", "archived">>[1] = "settled" /\ <<"settled", "archived">>[2] = "archived"
    OBVIOUS
<1> QED BY <1>1, <1>2, <1>3, <1>4 DEF Sooner

\* Every member of a stage is an item.
LEMMA MembersAreItems == \A stg : Members(stg) \subseteq Items
BY DEF Members, Items

\* The order of the tiers stays within the stages.
LEMMA AfterIsStage == \A tier \in Tiers : After(tier) \in Stages /\ tier \in Stages
BY DEF Tiers, Stages, After

-----------------------------------------------------------------------------
\* The first state: no sync has begun.
LEMMA InitSync == Init => SyncInv
<1> SUFFICES ASSUME Init PROVE SyncInv
    OBVIOUS
<1>1. NoneFetched \in [Items -> Says \cup {Nothing}]
    BY DEF NoneFetched
<1>2. /\ status \in [Items -> Statuses] /\ payload \in [Items -> Payloads]
      /\ row \in [Items -> Rows] /\ settlement \in [Markets -> Says \cup {Nothing}]
    BY PayloadAssumption DEF Init, Rows, Statuses
<1>3. stage \in Stages /\ step \in Steps
    BY DEF Init, Stages, Steps
<1>4. moves \in 0..MaxMoves /\ faults \in 0..MaxFaults
    BY BoundsAssumption DEF Init
<1>5. TypeOK
    BY <1>1, <1>2, <1>3, <1>4 DEF Init, TypeOK
<1> QED BY <1>5 DEF Init, SyncInv, LookInv, MarkingInv, SettledInv, Tiers

\* A stage that is entered has nothing of the one before.
LEMMA EnteredInv ==
    ASSUME SyncInv, NEW next \in Stages, EnterStage(next), UNCHANGED venue,
           row' \in [Items -> Rows], kept' \in [Items -> Says \cup {Nothing}],
           cutoff' \in BOOLEAN, settlement' \in [Markets -> Says \cup {Nothing}],
           moves' = moves, faults' \in 0..MaxFaults
    PROVE  SyncInv'
<1>1. TypeOK'
    <2>1. /\ stage' \in Stages /\ step' \in Steps /\ scanned' \subseteq {Root} \cup Items
          /\ todo' \subseteq Items \X Statuses /\ gone' \subseteq Items
          /\ steady' \subseteq Items /\ back' \subseteq Items /\ clean' \in BOOLEAN
        BY DEF EnterStage, Steps
    <2>2. fetched' \in [Items -> Says \cup {Nothing}]
        BY DEF EnterStage, NoneFetched
    <2> QED BY <2>1, <2>2 DEF SyncInv, TypeOK, venue
<1>2. LookInv' /\ MarkingInv' /\ SettledInv'
    BY DEF EnterStage, LookInv, MarkingInv, SettledInv
<1> QED BY <1>1, <1>2 DEF SyncInv

\* The venue: an item that turns to a listing asked for later is yet to be looked
\* for there; one that turns back is no longer accounted for.
LEMMA TurnInv ==
    ASSUME SyncInv, NEW x \in Items, NEW st \in Statuses, Turn(x, st)
    PROVE  SyncInv'
<1> USE DEF SyncInv
<1>1. /\ MayTurn(x, st) /\ status' = [status EXCEPT ![x] = st]
      /\ steady' = IF st \in Listings(stage) THEN steady ELSE steady \ {x}
      /\ back' = IF x \in steady' /\ ~Sooner(stage, status[x], st) THEN back \cup {x} ELSE back
      /\ UNCHANGED <<payload, row, kept, cutoff, settlement, stage, step, scanned, todo, fetched,
                     gone, clean, faults>>
    BY DEF Turn, tables, pass
<1>2. moves' \in 0..MaxMoves
    BY BoundsAssumption DEF Turn, Move, TypeOK
<1>3. status' \in [Items -> Statuses]
    BY <1>1 DEF TypeOK
<1>4. TypeOK'
    BY <1>1, <1>2, <1>3 DEF TypeOK
<1>5. \A y \in Items : status'[y] = IF y = x THEN st ELSE status[y]
    BY <1>1 DEF TypeOK
<1>6. \A y \in steady' : y \in steady /\ y \in Items /\ status'[y] \in Listings(stage)
    BY <1>1, <1>5 DEF TypeOK, LookInv
<1>7. ASSUME clean, step \in {"fetch", "store"}, NEW y \in steady' \ back', InScope(y)
      PROVE  fetched[y] # Nothing \/ <<y, status'[y]>> \in todo
    <2>1. y \in steady \ back /\ y \in Items
        BY <1>1, <1>6, <1>7
    <2>2. fetched[y] # Nothing \/ <<y, status[y]>> \in todo
        BY <1>7, <2>1 DEF LookInv
    <2>3. CASE y = x
        <3>1. Sooner(stage, status[x], st)
            BY <1>1, <1>7, <2>3
        <3> QED BY <1>5, <1>7, <2>2, <2>3, <3>1 DEF LookInv
    <2> QED BY <1>5, <2>1, <2>2, <2>3
<1>8. LookInv'
    BY <1>1, <1>6, <1>7 DEF LookInv, InScope, Sweeping
<1>9. MarkingInv'
    BY <1>1 DEF MarkingInv
<1>10. SettledInv'
    <2>1. ASSUME stage = "settlements", x \in steady'
          PROVE  Sooner(stage, status[x], st)
        <3>1. x \in Markets /\ status[x] \in {"settled", "archived"}
            BY <1>6, <2>1, LiveIsSooner DEF SettledInv, LookInv
        <3>2. st = "archived" /\ status[x] = "settled"
            BY <1>1, <3>1 DEF MayTurn
        <3> QED BY <2>1, <3>2, LiveIsSooner
    <2> QED BY <1>1, <2>1 DEF SettledInv
<1> QED BY <1>4, <1>8, <1>9, <1>10

\* The venue: what a listing says of an item matters to no invariant.
LEMMA EditInv ==
    ASSUME SyncInv, NEW x \in Items, NEW p \in Payloads, Edit(x, p)
    PROVE  SyncInv'
<1> USE DEF SyncInv
<1>1. /\ payload' \in [Items -> Payloads]
      /\ UNCHANGED <<status, row, kept, cutoff, settlement, stage, step, scanned, todo, fetched,
                     gone, clean, steady, back, faults>>
    BY DEF Edit, tables, pass, ghosts, TypeOK
<1>2. moves' \in 0..MaxMoves
    BY BoundsAssumption DEF Edit, Move, TypeOK
<1> QED BY <1>1, <1>2 DEF TypeOK, LookInv, MarkingInv, SettledInv, InScope, Sweeping

\* A stage begins: all looks are still to come.
LEMMA BeginInv ==
    ASSUME SyncInv, NEW items \in SUBSET Items, Begin(items), Sweeping, step = "start",
           scanned' \subseteq {Root} \cup Items,
           \A x \in Members(stage) : InScope(x)' => x \in items,
           UNCHANGED <<venue, tables, stage, fetched, gone, clean, back, moves, faults>>
    PROVE  SyncInv'
<1> USE DEF SyncInv
<1>1. /\ todo' = items \X Listings(stage)
      /\ step' = IF todo' = {} THEN "store" ELSE "fetch"
      /\ steady' = {x \in Members(stage) : status[x] \in Listings(stage)}
    BY DEF Begin
<1>2. TypeOK'
    <2>1. todo' \subseteq Items \X Statuses /\ steady' \subseteq Items /\ step' \in Steps
        BY <1>1, ListingsAreStatuses, MembersAreItems DEF Steps
    <2> QED BY <2>1 DEF TypeOK, venue, tables
<1>3. LookInv'
    <2>1. ASSUME NEW look \in todo', NEW b \in Statuses, Sooner(stage, look[2], b)
          PROVE  <<look[1], b>> \in todo'
        BY <1>1, <2>1, ListingsAreStatuses
    <2>2. ASSUME NEW x \in steady', InScope(x)'
          PROVE  <<x, status'[x]>> \in todo'
        BY <1>1, <2>2 DEF venue
    <2> QED BY <1>1, <2>1, <2>2 DEF LookInv, venue, Sweeping
<1>4. gone = {}
    BY DEF MarkingInv
<1>5. MarkingInv'
    BY <1>1, <1>4 DEF MarkingInv
<1>6. SettledInv'
    BY <1>1 DEF SettledInv, Members
<1> QED BY <1>2, <1>3, <1>5, <1>6

\* A page: an item that is found, or is not where it was looked for.
LEMMA LookStep ==
    ASSUME SyncInv, NEW x \in Items, NEW st \in Statuses,
           FetchChild(x, st) \/ FetchSettled(x, st)
    PROVE  SyncInv'
<1> USE DEF SyncInv
<1>1. /\ IsNext(x, st) /\ todo' = todo \ {<<x, st>>} /\ step = "fetch"
      /\ step' = IF todo' = {} THEN "store" ELSE "fetch"
      /\ UNCHANGED <<status, payload, row, kept, cutoff, settlement, stage, scanned, gone, clean,
                     steady, back, moves, faults>>
    BY DEF FetchChild, FetchSettled, Look, venue, tables, ghosts
<1>2. /\ fetched' \in [Items -> Says \cup {Nothing}]
      /\ \A y \in Items : fetched[y] # Nothing => fetched'[y] # Nothing
      /\ status[x] = st => fetched'[x] # Nothing
    BY SaysSomething DEF FetchChild, FetchSettled, TypeOK
<1>3. TypeOK'
    BY <1>1, <1>2 DEF TypeOK, Steps
<1>4. ASSUME clean, NEW look \in todo', NEW b \in Statuses, Sooner(stage, look[2], b)
      PROVE  <<look[1], b>> \in todo'
    <2>1. look \in todo /\ <<look[1], b>> \in todo
        BY <1>1, <1>4 DEF LookInv
    <2>2. ~ (look[1] = x /\ b = st)
        BY <1>1, <1>4, <2>1 DEF IsNext
    <2> QED BY <1>1, <2>1, <2>2
<1>5. ASSUME clean, NEW y \in steady \ back, InScope(y)
      PROVE  fetched'[y] # Nothing \/ <<y, status[y]>> \in todo'
    <2>1. y \in Items /\ (fetched[y] # Nothing \/ <<y, status[y]>> \in todo)
        BY <1>1, <1>5 DEF LookInv, TypeOK
    <2> QED BY <1>1, <1>2, <2>1
<1>6. LookInv'
    BY <1>1, <1>4, <1>5 DEF LookInv, InScope, Sweeping
<1> QED BY <1>1, <1>3, <1>6 DEF MarkingInv, SettledInv

\* The settlements: a page that fails takes its route with it.
LEMMA FailRouteInv ==
    ASSUME SyncInv, FailRoute
    PROVE  SyncInv'
<1> USE DEF SyncInv
<1>1. /\ stage = "settlements" /\ step = "fetch" /\ todo' \subseteq todo /\ clean' = FALSE
      /\ step' = IF todo' = {} THEN "store" ELSE "fetch"
      /\ UNCHANGED <<status, payload, row, kept, cutoff, settlement, stage, scanned, fetched, gone,
                     steady, back, moves>>
    BY DEF FailRoute, venue, tables, ghosts
<1>2. faults' \in 0..MaxFaults
    BY BoundsAssumption DEF FailRoute, Fault, TypeOK
<1>3. TypeOK'
    BY <1>1, <1>2 DEF TypeOK, Steps
<1> QED BY <1>1, <1>3 DEF LookInv, MarkingInv, SettledInv, Sweeping, Tiers

\* The settlements begin with all markets.
LEMMA StartSettlementsInv ==
    ASSUME SyncInv, StartSettlements
    PROVE  SyncInv'
<1>1. /\ stage = "settlements" /\ step = "start" /\ Begin(Markets) /\ scanned' = scanned
      /\ UNCHANGED <<venue, tables, stage, fetched, gone, clean, back, moves, faults>>
    BY DEF StartSettlements
<1>2. Markets \in SUBSET Items /\ \A x \in Members(stage) : x \in Markets
    BY <1>1 DEF Items, Members
<1>3. scanned' \subseteq {Root} \cup Items /\ Sweeping
    BY <1>1 DEF SyncInv, TypeOK, Sweeping
<1> QED BY <1>1, <1>2, <1>3, BeginInv

\* A tier: what the merge inserts, revises, loses or marks.
LEMMA TierInv ==
    ASSUME SyncInv, NEW tier \in Tiers,
           \/ StartTier(tier) \/ SkipTier(tier) \/ StoreTier(tier) \/ FinishTier(tier)
           \/ FailFetch(tier) \/ FailStore(tier) \/ FailMark(tier)
    PROVE  SyncInv'
<1> USE DEF SyncInv
<1>a. tier \in Stages /\ After(tier) \in Stages /\ "idle" \in Stages
    BY AfterIsStage DEF Stages
<1>f. Fault => faults' \in 0..MaxFaults
    BY BoundsAssumption DEF Fault, TypeOK
<1>1. CASE StartTier(tier)
    <2> DEFINE items == UNION {Children(parent) : parent \in Scannable(tier)}
    <2>1. Scannable(tier) \subseteq {Root} \cup Items
        BY DEF Scannable, Tiers, Items
    <2>2. /\ stage \in Tiers /\ step = "start" /\ Begin(items) /\ scanned' = Scannable(tier)
          /\ UNCHANGED <<venue, tables, stage, fetched, gone, clean, back, moves, faults>>
        BY <1>1 DEF StartTier
    <2>3. items \in SUBSET Items
        BY DEF Children
    <2>4. \A x \in Members(stage) : InScope(x)' => x \in items
        BY <2>2, MembersAreItems DEF InScope, Children, Tiers
    <2>5. Sweeping
        BY <2>2 DEF Sweeping
    <2> HIDE DEF items
    <2> QED BY <2>1, <2>2, <2>3, <2>4, <2>5, BeginInv
<1>2. CASE SkipTier(tier) \/ FinishTier(tier)
    BY <1>2, <1>a, EnteredInv DEF SkipTier, FinishTier, tables, TypeOK
<1>3. CASE FailFetch(tier) \/ FailMark(tier)
    BY <1>3, <1>a, <1>f, EnteredInv DEF FailFetch, FailMark, tables, TypeOK
<1>4. CASE FailStore(tier)
    <2>1. row' \in [Items -> Rows] /\ kept' \in [Items -> Says \cup {Nothing}]
        BY <1>4 DEF FailStore, TypeOK, Rows
    <2> QED BY <1>4, <2>1, <1>a, <1>f, EnteredInv DEF FailStore, TypeOK
<1>5. CASE StoreTier(tier)
    <2>1. /\ stage' = stage /\ stage = tier /\ step = "store" /\ step' = "mark"
          /\ gone' = Missing(tier)
          /\ UNCHANGED <<status, payload, cutoff, settlement, scanned, todo, fetched, clean,
                         steady, back, moves, faults>>
        BY <1>5 DEF StoreTier, venue, ghosts
    <2>2. row' \in [Items -> Rows] /\ kept' \in [Items -> Says \cup {Nothing}]
        BY <1>5 DEF StoreTier, TypeOK, Rows
    <2>3. gone' \subseteq Items
        BY <2>1, MembersAreItems DEF Missing, Existing
    <2>4. TypeOK'
        BY <2>1, <2>2, <2>3 DEF TypeOK, Steps
    <2>5. gone' \cap (steady \ back) = {}
        <3>1. ASSUME NEW x \in gone' PROVE InScope(x) /\ fetched[x] = Nothing
            BY <2>1, <2>3, <3>1 DEF Missing, Existing, Seen, InScope
        <3>2. clean /\ todo = {}
            BY <2>1 DEF MarkingInv, LookInv
        <3> QED BY <2>1, <3>1, <3>2 DEF LookInv
    <2>6. LookInv' /\ MarkingInv' /\ SettledInv'
        BY <2>1, <2>5 DEF LookInv, MarkingInv, SettledInv, Tiers
    <2> QED BY <2>4, <2>6
<1> QED BY <1>1, <1>2, <1>3, <1>4, <1>5

\* A tier: marking one row leaves the other rows to be marked.
LEMMA MarkInv ==
    ASSUME SyncInv, NEW x \in Items, MarkRemoved(x)
    PROVE  SyncInv'
<1> USE DEF SyncInv
<1>1. /\ step = "mark" /\ gone' = gone \ {x} /\ row' \in [Items -> Rows]
      /\ UNCHANGED <<status, payload, kept, cutoff, settlement, stage, step, scanned, todo, fetched,
                     clean, steady, back, moves, faults>>
    BY DEF MarkRemoved, TypeOK, Rows, venue, ghosts
<1> QED BY <1>1 DEF TypeOK, LookInv, MarkingInv, SettledInv, InScope, Sweeping

\* The sync: the steps by which it begins, and those that end it.
LEMMA SyncEndsInv ==
    ASSUME SyncInv,
           \/ StartSync \/ FailCutoff \/ StoreSettlements \/ FailSettlements
           \/ RefuseSettlements \/ Kill
           \/ \E next \in {"series", "settlements"} : SnapshotCutoff(next)
    PROVE  SyncInv'
<1> USE DEF SyncInv
<1>a. {"idle", "cutoff", "series", "settlements"} \subseteq Stages
    BY DEF Stages, Tiers
<1>1. \E next \in Stages : EnterStage(next)
    BY <1>a DEF StartSync, FailCutoff, StoreSettlements, FailSettlements, RefuseSettlements, Kill,
                SnapshotCutoff
<1>2. UNCHANGED <<venue, row, kept, moves>> /\ (faults' = faults \/ Fault)
    BY DEF StartSync, FailCutoff, StoreSettlements, FailSettlements, RefuseSettlements, Kill,
           SnapshotCutoff, tables
<1>3. faults' \in 0..MaxFaults
    BY <1>2, BoundsAssumption DEF Fault, TypeOK
<1>4. cutoff' \in BOOLEAN
    BY DEF StartSync, FailCutoff, StoreSettlements, FailSettlements, RefuseSettlements, Kill,
           SnapshotCutoff, tables, TypeOK
<1>5. settlement' \in [Markets -> Says \cup {Nothing}]
    <2>1. CASE StoreSettlements
        <3>1. \A m \in Markets : fetched[m] \in Says \cup {Nothing}
            BY DEF TypeOK, Items
        <3> QED BY <2>1, <3>1 DEF StoreSettlements, TypeOK
    <2>2. CASE FailSettlements
        BY <2>2 DEF FailSettlements, TypeOK
    <2>3. CASE ~StoreSettlements /\ ~FailSettlements
        <3>1. settlement' = settlement
            BY <2>3 DEF StartSync, FailCutoff, RefuseSettlements, Kill, SnapshotCutoff, tables
        <3> QED BY <3>1 DEF TypeOK
    <2> QED BY <2>1, <2>2, <2>3
<1> QED BY <1>1, <1>2, <1>3, <1>4, <1>5, EnteredInv DEF TypeOK

\* The invariant is inductive, and so holds always.
LEMMA SyncInvStep == ASSUME SyncInv, [Next]_vars PROVE SyncInv'
<1>1. CASE UNCHANGED vars
    BY <1>1 DEF SyncInv, TypeOK, LookInv, MarkingInv, SettledInv, InScope, Sweeping, vars, venue,
                tables, pass, ghosts
<1>2. ASSUME NEW x \in Items, NEW st \in Statuses, FetchChild(x, st) \/ FetchSettled(x, st)
      PROVE  SyncInv'
    BY <1>2, LookStep
<1>3. Markets \subseteq Items
    BY DEF Items
<1>4. CASE Venue
    BY <1>4, TurnInv, EditInv DEF Venue
<1>5. CASE TierStep
    BY <1>2, <1>5, TierInv, MarkInv DEF TierStep
<1>6. CASE SettlementStep
    BY <1>2, <1>3, <1>6, StartSettlementsInv, SyncEndsInv DEF SettlementStep
<1>7. CASE Failure
    BY <1>7, FailRouteInv, TierInv, SyncEndsInv DEF Failure
<1> QED
    BY <1>1, <1>4, <1>5, <1>6, <1>7, SyncEndsInv DEF Next, Step

LEMMA SyncInvAlways == Spec => []SyncInv
<1>1. SyncInv /\ [Next]_vars => SyncInv'
    BY SyncInvStep
<1> QED BY <1>1, InitSync, PTL DEF Spec

-----------------------------------------------------------------------------
(* KalshiSync: the variables keep their types. *)
THEOREM SyncTypes == Spec => []TypeOK
<1>1. SyncInv => TypeOK
    BY DEF SyncInv
<1> QED BY <1>1, SyncInvAlways, PTL

(* series.py, events.py, markets.py: an item that was in the venue's listings
   all through a stage, and did not return to an earlier status, is not marked
   removed by it, whatever was listed, closed, dropped or edited between any
   two pages. *)
THEOREM OnwardStaysKept == Spec => OnwardIsKept
<1>1. ASSUME SyncInv, [Next]_vars, NEW x \in steady \ back, Active(x)
      PROVE  row'[x] # "removed"
    <2>1. x \in Items /\ x \notin gone /\ row[x] = "active" /\ row \in [Items -> Rows]
        BY <1>1 DEF SyncInv, MarkingInv, TypeOK, Active
    <2>2. \A y \in Items : MarkRemoved(y) => row'[x] = row[x]
        BY <2>1 DEF MarkRemoved
    <2>3. ASSUME NEW tier \in Tiers, StoreTier(tier) \/ FailStore(tier)
          PROVE  row'[x] \in {"active", "none"}
        BY <2>1, <2>3 DEF StoreTier, FailStore
    <2>4. \/ row' = row
          \/ \E y \in Items : MarkRemoved(y)
          \/ \E tier \in Tiers : StoreTier(tier) \/ FailStore(tier)
        BY <1>1 DEF Next, Step, TierStep, SettlementStep, Failure, Venue, Turn, Edit, StartSync,
               SnapshotCutoff, FailCutoff, StartTier, SkipTier, FetchChild, FailFetch, FinishTier,
               FailMark, StartSettlements, FetchSettled, Look, FailRoute, StoreSettlements,
               FailSettlements, RefuseSettlements, Kill, vars, tables
    <2> QED BY <2>1, <2>2, <2>3, <2>4
<1>2. SyncInv /\ [Next]_vars => [\A x \in steady \ back : Active(x) => row'[x] # "removed"]_vars
    BY <1>1
<1> QED BY <1>2, SyncInvAlways, PTL DEF Spec, OnwardIsKept

(* settlements.py: a stage whose requests all answered leaves a row for every
   market that was settled when it began: one that the cutoff passes between
   two pages is found by the second route, because the live route is asked
   first. *)
THEOREM SweepFindsAll == Spec => SweepIsWhole
<1>1. ASSUME SyncInv, [Next]_vars, stage = "settlements", step = "store", clean, stage' = "idle",
             faults' = faults, NEW m \in steady
      PROVE  settlement'[m] # Nothing
    <2>1. m \in Markets /\ back = {} /\ todo = {} /\ InScope(m)
        BY <1>1 DEF SyncInv, SettledInv, LookInv, InScope
    <2>2. m \in Items /\ fetched[m] # Nothing
        BY <1>1, <2>1 DEF SyncInv, LookInv, Items
    <2>3. faults \in Nat
        BY <1>1, BoundsAssumption DEF SyncInv, TypeOK
    <2>4. ~ Fault
        BY <1>1, <2>3 DEF Fault
    <2>5. StoreSettlements
        BY <1>1, <2>4 DEF Next, Step, TierStep, SettlementStep, Failure, Venue, Turn, Edit, StartSync,
               SnapshotCutoff, FailCutoff, StartTier, SkipTier, Tiers, StoreTier, FetchChild,
               FailFetch, FailStore, MarkRemoved, FinishTier, FailMark, StartSettlements,
               FetchSettled, Look, FailRoute, FailSettlements, RefuseSettlements, Kill, vars
    <2> QED BY <2>1, <2>2, <2>5 DEF StoreSettlements, Seen
<1>2. SyncInv /\ [Next]_vars =>
        [stage = "settlements" /\ step = "store" /\ clean /\ stage' = "idle" /\ faults' = faults
         => \A m \in steady : settlement'[m] # Nothing]_vars
    BY <1>1
<1> QED BY <1>2, SyncInvAlways, PTL DEF Spec, SweepIsWhole

=============================================================================
