----------------------------- MODULE KalshiSync -----------------------------
(***************************************************************************)
(* The Kalshi connector: `kalshi sync` (or run_kalshi_cycle) reads the     *)
(* cutoff, then the catalogue tier by tier (series, the events of each     *)
(* active series, the open markets of each active event), then the         *)
(* settlements by two routes: /markets?status=settled and, for markets     *)
(* that are past the venue's cutoff, /historical/markets.                  *)
(*                                                                         *)
(* Requests are answered one after the other while the venue moves on:     *)
(* the events of a series are asked for by status, first open, then        *)
(* closed, then settled, and every listing comes in pages.  A tier is      *)
(* merged into its table by statements that commit one by one; rows that   *)
(* no listing had are then marked removed, one by one.  Nothing clears a   *)
(* mark: only a revision, a new row, comes without.                        *)
(*                                                                         *)
(* A page is answered as the venue stands when it is asked for, and what   *)
(* stays in a listing while its pages are read is on one of them, so each  *)
(* item is looked for at a moment of its own.                              *)
(*                                                                         *)
(* Left out: price snapshots and sector mappings, which read the tables    *)
(* modelled here, and the trades, which have a module of their own         *)
(* (KalshiTrades).                                                         *)
(***************************************************************************)
EXTENDS Naturals, Sequences

CONSTANTS
    Series, Events, Markets,
    Parent,     \* Parent[x]: the series of an event, the event of a market, Root of a series
    Root,
    Payloads,   \* what a listing may say of an item, besides its status
    First,      \* ... and what it says of each at first
    Nothing,    \* no payload
    MaxMoves,   \* bound: steps of the venue
    MaxFaults   \* bound: failures and kills

Items    == Series \cup Events \cup Markets
Statuses == {"none", "open", "closed", "settled", "archived"}
Says     == Statuses \X Payloads

ASSUME TiersAssumption ==
    /\ Parent \in [Items -> {Root} \cup Series \cup Events]
    /\ \A s \in Series : Parent[s] = Root
    /\ \A e \in Events : Parent[e] \in Series
    /\ \A m \in Markets : Parent[m] \in Events
ASSUME PayloadAssumption == First \in Payloads /\ Nothing \notin Says
ASSUME BoundsAssumption  == MaxMoves \in Nat /\ MaxFaults \in Nat

Rows   == {"none", "active", "removed"}
Tiers  == {"series", "events", "markets"}
Stages == {"idle", "cutoff", "settlements"} \cup Tiers
Steps  == {"start", "fetch", "store", "mark"}

VARIABLES
    status,     \* venue: status[x]: the listing x is in, "none" if in none (a settled
                \* market is archived once the cutoff has moved past it)
    payload,    \* venue: payload[x]: what else its listing says of x
    row,        \* row[x]: of the current (not superseded) row of x, by its removed_at
    kept,       \* kept[x]: its payload
    cutoff,     \* whether kalshi_historical_cutoff has its row
    settlement, \* settlement[m]: what m's current row in kalshi_settlements says
    stage, step,
    scanned,    \* the parents of this stage
    todo,       \* items and the status under which they are yet to be looked for
    fetched,    \* fetched[x]: what a listing of this stage said of x
    gone,       \* rows yet to be marked removed
    clean,      \* whether every page so far was answered
    steady,     \* ghost: items that were in a listing this stage asks for ever since it began
    back,       \* ghost: ... and meanwhile returned to an earlier status
    moves, faults

venue  == <<status, payload>>
tables == <<row, kept, cutoff, settlement>>
pass   == <<scanned, todo, fetched, gone, clean>>
ghosts == <<steady, back>>
vars   == <<venue, tables, stage, step, pass, ghosts, moves, faults>>

TypeOK ==
    /\ status \in [Items -> Statuses] /\ payload \in [Items -> Payloads]
    /\ row \in [Items -> Rows] /\ kept \in [Items -> Says \cup {Nothing}]
    /\ cutoff \in BOOLEAN /\ settlement \in [Markets -> Says \cup {Nothing}]
    /\ stage \in Stages /\ step \in Steps
    /\ scanned \subseteq {Root} \cup Items /\ todo \subseteq Items \X Statuses
    /\ fetched \in [Items -> Says \cup {Nothing}]
    /\ gone \subseteq Items
    /\ clean \in BOOLEAN
    /\ steady \subseteq Items /\ back \subseteq Items
    /\ moves \in 0..MaxMoves /\ faults \in 0..MaxFaults

NoneFetched == [x \in Items |-> Nothing]

Init ==
    /\ status = [x \in Items |-> "open"] /\ payload = [x \in Items |-> First]
    /\ row = [x \in Items |-> "none"] /\ kept = NoneFetched
    /\ cutoff = FALSE /\ settlement = [m \in Markets |-> Nothing]
    /\ stage = "idle" /\ step = "start"
    /\ scanned = {} /\ todo = {} /\ fetched = NoneFetched /\ gone = {} /\ clean = TRUE
    /\ steady = {} /\ back = {}
    /\ moves = 0 /\ faults = 0

Fault == faults < MaxFaults /\ faults' = faults + 1

\* A stage's locals go with it.
EnterStage(next) ==
    /\ stage' = next /\ step' = "start"
    /\ scanned' = {} /\ todo' = {} /\ fetched' = NoneFetched /\ gone' = {} /\ clean' = TRUE
    /\ steady' = {} /\ back' = {}

-----------------------------------------------------------------------------
(* The listings a stage asks for, in their order.                          *)

\* Faulty variant: the archive is asked first.
ArchiveFirst == <<"archived", "settled">>

\* Faulty variant: what the archive has was stored by earlier syncs.
LiveOnly == <<"settled">>

RouteOrder == <<"settled", "archived">>

Asked(stg) ==
    CASE stg = "events"      -> <<"open", "closed", "settled">>
      [] stg = "settlements" -> RouteOrder
      [] OTHER               -> <<"open">>

Listings(stg) == {Asked(stg)[i] : i \in DOMAIN Asked(stg)}

Sooner(stg, a, b) ==
    \E i, j \in DOMAIN Asked(stg) : i < j /\ Asked(stg)[i] = a /\ Asked(stg)[j] = b

-----------------------------------------------------------------------------
(* The venue.                                                              *)

Move == moves < MaxMoves /\ moves' = moves + 1

Standing(x) == IF x \in Series THEN {"none", "open"}
               ELSE IF x \in Events THEN {"none", "open", "closed", "settled"}
               ELSE {"open", "closed", "settled", "archived"}

\* A settled market stays so, and is archived when the cutoff moves past it.
MayTurn(x, st) ==
    /\ st \in Standing(x) \ {status[x]}
    /\ x \in Markets => IF st = "archived" THEN status[x] = "settled"
                                           ELSE status[x] \notin {"settled", "archived"}

\* An item is listed, opens, closes, settles or is in no listing for a while.
Turn(x, st) ==
    /\ MayTurn(x, st)
    /\ status' = [status EXCEPT ![x] = st]
    /\ steady' = IF st \in Listings(stage) THEN steady ELSE steady \ {x}
    /\ back' = IF x \in steady' /\ ~Sooner(stage, status[x], st) THEN back \cup {x} ELSE back
    /\ Move
    /\ UNCHANGED <<payload, tables, stage, step, pass, faults>>

Edit(x, p) ==
    /\ status[x] # "none" /\ p # payload[x]
    /\ payload' = [payload EXCEPT ![x] = p]
    /\ Move
    /\ UNCHANGED <<status, tables, stage, step, pass, ghosts, faults>>

Venue == \E x \in Items : (\E st \in Statuses : Turn(x, st)) \/ (\E p \in Payloads : Edit(x, p))

-----------------------------------------------------------------------------
(* The cutoff.                                                             *)

StartSync ==
    /\ stage = "idle"
    /\ EnterStage("cutoff")
    /\ UNCHANGED <<venue, tables, moves, faults>>

\* `kalshi sync` goes on to the catalogue, `backfill-settlements` skips it.
SnapshotCutoff(next) ==
    /\ stage = "cutoff"
    /\ cutoff' = TRUE
    /\ EnterStage(next)
    /\ UNCHANGED <<venue, row, kept, settlement, moves, faults>>

\* The request fails and the row stays; or the delete is committed and the
\* insert fails.  run_kalshi_cycle goes on, the command line gives up.
FailCutoff ==
    /\ stage = "cutoff"
    /\ cutoff' \in {cutoff, FALSE}
    /\ \E next \in {"series", "idle"} : EnterStage(next)
    /\ Fault
    /\ UNCHANGED <<venue, row, kept, settlement, moves>>

-----------------------------------------------------------------------------
(* A tier of the catalogue.                                                *)

Members(stg) == CASE stg = "series" -> Series
                  [] stg = "events" -> Events
                  [] OTHER          -> Markets

After(tier) == CASE tier = "series"  -> "events"
                 [] tier = "events"  -> "markets"
                 [] tier = "markets" -> "settlements"

Active(x) == row[x] = "active"

Scannable(tier) == CASE tier = "series"  -> {Root}
                     [] tier = "events"  -> {s \in Series : Active(s)}
                     [] tier = "markets" -> {e \in Events : Active(e)}

Children(parent) == {x \in Items : Parent[x] = parent}

\* The stage begins to ask its listings for some items.
Begin(items) ==
    /\ todo' = items \X Listings(stage)
    /\ step' = IF todo' = {} THEN "store" ELSE "fetch"
    /\ steady' = {x \in Members(stage) : status[x] \in Listings(stage)}

StartTier(tier) ==
    /\ stage = tier /\ step = "start" /\ Scannable(tier) # {}
    /\ scanned' = Scannable(tier)
    /\ Begin(UNION {Children(parent) : parent \in Scannable(tier)})
    /\ UNCHANGED <<venue, tables, stage, fetched, gone, clean, back, moves, faults>>

SkipTier(tier) ==
    /\ stage = tier /\ step = "start" /\ Scannable(tier) = {}
    /\ EnterStage(After(tier))
    /\ UNCHANGED <<venue, tables, moves, faults>>

\* A parent is asked for one status after the other; settlements have no parents.
IsNext(x, st) ==
    /\ <<x, st>> \in todo
    /\ \A look \in todo :
          stage = "settlements" \/ Parent[look[1]] = Parent[x] => ~Sooner(stage, look[2], st)

ListingOf(x) == <<status[x], payload[x]>>

Look(x, st) ==
    /\ todo' = todo \ {<<x, st>>}
    /\ step' = IF todo' = {} THEN "store" ELSE "fetch"
    /\ UNCHANGED <<venue, tables, stage, scanned, gone, clean, ghosts, moves, faults>>

\* The page on which x is, if the listing has it; the first entry of an item counts.
FetchChild(x, st) ==
    /\ stage \in Tiers /\ step = "fetch" /\ IsNext(x, st)
    /\ fetched' = IF status[x] = st /\ fetched[x] = Nothing
                  THEN [fetched EXCEPT ![x] = ListingOf(x)] ELSE fetched
    /\ Look(x, st)

\* One request that fails ends the stage, and nothing of it is stored.
FailFetch(tier) ==
    /\ stage = tier /\ step = "fetch"
    /\ EnterStage(After(tier))
    /\ Fault
    /\ UNCHANGED <<venue, tables, moves>>

Seen == {x \in Items : fetched[x] # Nothing}

\* Rows whose listing differs; rows without a current row are inserted.
Revised  == {x \in Seen : row[x] # "none" /\ kept[x] # fetched[x]}
Inserted == {x \in Seen : row[x] = "none"}

\* Faulty variant: the rows of every parent, not only of those that were asked for.
ExistingAll(tier) == {x \in Members(tier) : Active(x)}

Existing(tier) == {x \in Members(tier) : Active(x) /\ Parent[x] \in scanned}

\* Faulty variant: an empty listing is not compared with the table.
MissingIfAny(tier) == IF Seen = {} THEN {} ELSE Existing(tier) \ Seen

Missing(tier) == Existing(tier) \ Seen

StoreTier(tier) ==
    /\ stage = tier /\ step = "store"
    /\ gone' = Missing(tier)
    /\ row' = [x \in Items |-> IF x \in Revised \cup Inserted THEN "active" ELSE row[x]]
    /\ kept' = [x \in Items |-> IF x \in Revised \cup Inserted THEN fetched[x] ELSE kept[x]]
    /\ step' = "mark"
    /\ UNCHANGED <<venue, cutoff, settlement, stage, scanned, todo, fetched, clean, ghosts,
                   moves, faults>>

\* Rows are superseded one by one and their successors inserted together, so
\* what fails in between leaves superseded rows without a successor.
FailStore(tier) ==
    /\ stage = tier /\ step = "store"
    /\ \E lost \in SUBSET Revised :
        /\ row' = [x \in Items |-> IF x \in lost THEN "none" ELSE row[x]]
        /\ kept' = [x \in Items |-> IF x \in lost THEN Nothing ELSE kept[x]]
    /\ \E next \in {After(tier), "idle"} : EnterStage(next)
    /\ Fault
    /\ UNCHANGED <<venue, cutoff, settlement, moves>>

MarkRemoved(x) ==
    /\ step = "mark" /\ x \in gone
    /\ row' = [row EXCEPT ![x] = "removed"]
    /\ gone' = gone \ {x}
    /\ UNCHANGED <<venue, kept, cutoff, settlement, stage, step, scanned, todo, fetched,
                   clean, ghosts, moves, faults>>

FinishTier(tier) ==
    /\ stage = tier /\ step = "mark" /\ gone = {}
    /\ EnterStage(After(tier))
    /\ UNCHANGED <<venue, tables, moves, faults>>

FailMark(tier) ==
    /\ stage = tier /\ step = "mark" /\ gone # {}
    /\ \E next \in {After(tier), "idle"} : EnterStage(next)
    /\ Fault
    /\ UNCHANGED <<venue, tables, moves>>

-----------------------------------------------------------------------------
(* Settlements.                                                            *)

StartSettlements ==
    /\ stage = "settlements" /\ step = "start" /\ cutoff
    /\ Begin(Markets)
    /\ UNCHANGED <<venue, tables, stage, scanned, fetched, gone, clean, back, moves, faults>>

\* The page on which m is, if the route has it; the last entry of a market counts.
FetchSettled(m, route) ==
    /\ stage = "settlements" /\ step = "fetch" /\ IsNext(m, route)
    /\ fetched' = IF status[m] = route THEN [fetched EXCEPT ![m] = ListingOf(m)] ELSE fetched
    /\ Look(m, route)

\* A page fails: those before it are kept and the other route is still asked.
FailRoute ==
    /\ stage = "settlements" /\ step = "fetch"
    /\ \E look \in todo :
        /\ IsNext(look[1], look[2])
        /\ todo' = {other \in todo : other[2] # look[2]}
    /\ step' = IF todo' = {} THEN "store" ELSE "fetch"
    /\ clean' = FALSE
    /\ Fault
    /\ UNCHANGED <<venue, tables, stage, scanned, fetched, gone, ghosts, moves>>

StoreSettlements ==
    /\ stage = "settlements" /\ step = "store"
    /\ settlement' = [m \in Markets |-> IF m \in Seen THEN fetched[m] ELSE settlement[m]]
    /\ EnterStage("idle")
    /\ UNCHANGED <<venue, row, kept, cutoff, moves, faults>>

\* As in FailStore: a settlement of which something else is said now may be lost.
FailSettlements ==
    /\ stage = "settlements" /\ step = "store"
    /\ \E lost \in SUBSET {m \in Markets \cap Seen : settlement[m] # fetched[m]} :
        settlement' = [m \in Markets |-> IF m \in lost THEN Nothing ELSE settlement[m]]
    /\ EnterStage("idle")
    /\ Fault
    /\ UNCHANGED <<venue, row, kept, cutoff, moves>>

\* Without a cutoff row the stage reports an error and returns.
RefuseSettlements ==
    /\ stage = "settlements" /\ step = "start" /\ ~cutoff
    /\ EnterStage("idle")
    /\ UNCHANGED <<venue, tables, moves, faults>>

Kill ==
    /\ stage # "idle"
    /\ EnterStage("idle")
    /\ Fault
    /\ UNCHANGED <<venue, tables, moves>>

-----------------------------------------------------------------------------

TierStep ==
    \/ \E tier \in Tiers : StartTier(tier) \/ SkipTier(tier) \/ StoreTier(tier) \/ FinishTier(tier)
    \/ \E x \in Items : MarkRemoved(x) \/ \E st \in Statuses : FetchChild(x, st)

SettlementStep ==
    \/ StartSettlements \/ StoreSettlements \/ RefuseSettlements
    \/ \E m \in Markets, route \in Statuses : FetchSettled(m, route)

Step ==
    \/ StartSync
    \/ \E next \in {"series", "settlements"} : SnapshotCutoff(next)
    \/ TierStep
    \/ SettlementStep

Failure ==
    \/ FailCutoff \/ FailRoute \/ FailSettlements \/ Kill
    \/ \E tier \in Tiers : FailFetch(tier) \/ FailStore(tier) \/ FailMark(tier)

Next == Step \/ Failure \/ Venue

Spec == Init /\ [][Next]_vars

\* Syncs go on and are begun again, and not always to backfill settlements.
Fairness == WF_vars(Step) /\ SF_vars(SnapshotCutoff("series"))

FairSpec == Spec /\ Fairness

-----------------------------------------------------------------------------
(* Properties.                                                             *)

\* events.py, "so the diff detects status transitions reliably", and markets.py,
\* series.py: a row is marked removed only if its item was in no listing at some
\* moment of the stage, or returned to a status that is asked for earlier.
OnwardIsKept == [][\A x \in steady \ back : Active(x) => row'[x] # "removed"]_vars

\* settlements.py: a stage whose requests all answered leaves a row for every
\* market that was settled when it began, though the cutoff moved meanwhile.
SweepIsWhole ==
    [][stage = "settlements" /\ step = "store" /\ clean /\ stage' = "idle" /\ faults' = faults
        => \A m \in steady : settlement'[m] # Nothing]_vars

\* settlements.py: every settled market gets a row that stays, however the
\* cutoff moves and whatever fails.
EventuallySettled ==
    \A m \in Markets : status[m] \in {"settled", "archived"} ~> [](settlement[m] # Nothing)

Listed(x) == status[x] \in IF x \in Events THEN Listings("events") ELSE {"open"}

\* A removed row whose item is listed again as it was: the merge finds it unchanged.
Buried(x) == Listed(x) /\ row[x] = "removed" /\ kept[x] = ListingOf(x)

Reached(x) == Parent[x] = Root \/ Active(Parent[x])

InStep(x) ==
    IF Listed(x) THEN Active(x) /\ kept[x] = ListingOf(x) ELSE ~Active(x)

\* markets.py, events.py, series.py: once the venue stands still the tables say
\* what its listings say, but for what is below an inactive row or buried.
EventuallyInStep == <>[](\A x \in Items : Reached(x) => InStep(x) \/ Buried(x))

=============================================================================
