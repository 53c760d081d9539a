----------------------------- MODULE KalshiTrades -----------------------------
(***************************************************************************)
(* The last stage of `kalshi sync`: the trades of a watched market.  The   *)
(* newest stored trade is the watermark.  The venue serves trades by two   *)
(* routes, /markets/trades and, for those before its cutoff,               *)
(* /historical/trades, and the watermark says which one a pull asks, by    *)
(* the cutoff the sync read when it began.  Everything later than the      *)
(* watermark is stored, in one statement, after the last page.             *)
(*                                                                         *)
(* One market is modelled: the others of the watch list only lengthen the  *)
(* time between the cutoff and the pages.  Trades are numbered in the      *)
(* order they are made, and no two are made at the same moment.            *)
(***************************************************************************)
EXTENDS Naturals, FiniteSets, FiniteSetsExt

CONSTANTS
    MaxTrades,  \* bound: trades ever made
    PageSize,   \* page_size
    MaxFaults   \* bound: failures and kills

ASSUME BoundsAssumption == MaxTrades \in Nat /\ PageSize \in Nat \ {0} /\ MaxFaults \in Nat

Trades == 1..MaxTrades
Orders == {"newest_first", "oldest_first"}
Routes == {"live", "historical"}
Stages == {"idle", "catalogue", "walk", "store"}

VARIABLES
    order,      \* venue: the order of its listings, which the code does not rely on
    made,       \* venue: trades made so far
    archived,   \* venue: trades before its cutoff
    row,        \* whether kalshi_historical_cutoff has its row
    cutoff,     \* ... and the trades before the cutoff it holds
    stored,     \* kalshi_trades
    stage,
    latest,     \* the watermark of this pull, 0 for none
    route,      \* the route it asks
    cursor,     \* the last trade it was given, 0 for none
    got,        \* the trades it has yet to store
    clean,      \* ghost: every page so far was answered
    faults

venue == <<order, made, archived>>
pull  == <<latest, route, cursor, got, clean>>
tradesVars == <<venue, row, cutoff, stored, stage, pull, faults>>

TradesTypeOK ==
    /\ order \in Orders
    /\ made \in 0..MaxTrades /\ archived \in 0..made
    /\ row \in BOOLEAN /\ cutoff \in 0..archived
    /\ stored \subseteq Trades
    /\ stage \in Stages
    /\ latest \in 0..MaxTrades /\ route \in Routes /\ cursor \in 0..MaxTrades
    /\ got \subseteq Trades /\ clean \in BOOLEAN
    /\ faults \in 0..MaxFaults

TradesInit ==
    /\ order \in Orders
    /\ made \in 0..MaxTrades /\ archived \in 0..made
    /\ row = FALSE /\ cutoff = 0
    /\ stored = {}
    /\ stage = "idle"
    /\ latest = 0 /\ route = "live" /\ cursor = 0 /\ got = {} /\ clean = TRUE
    /\ faults = 0

Fault == faults < MaxFaults /\ faults' = faults + 1

-----------------------------------------------------------------------------
(* The venue, at any moment.                                               *)

Trade ==
    /\ made < MaxTrades
    /\ made' = made + 1
    /\ UNCHANGED <<order, archived, row, cutoff, stored, stage, pull, faults>>

\* The cutoff moves past the next trade.
Archive ==
    /\ archived < made
    /\ archived' = archived + 1
    /\ UNCHANGED <<order, made, row, cutoff, stored, stage, pull, faults>>

-----------------------------------------------------------------------------
(* The sync.                                                               *)

\* A pull's locals go with it.
Forget == latest' = 0 /\ route' = "live" /\ cursor' = 0 /\ got' = {} /\ clean' = TRUE

\* From here to StartPull the sync is in the catalogue, which may take minutes.
SnapshotCutoff ==
    /\ stage = "idle"
    /\ row' = TRUE /\ cutoff' = archived
    /\ stage' = "catalogue"
    /\ UNCHANGED <<venue, stored, pull, faults>>

\* The request fails and the row stays, or the delete is committed and the
\* insert fails; run_kalshi_cycle goes on, the command line gives up.
FailCutoff ==
    /\ stage = "idle"
    /\ row' \in {row, FALSE}
    /\ stage' \in {"catalogue", "idle"}
    /\ Fault
    /\ UNCHANGED <<venue, cutoff, stored, pull>>

\* Without a cutoff row the stage reports an error and returns.
RefusePull ==
    /\ stage = "catalogue" /\ ~row
    /\ stage' = "idle"
    /\ UNCHANGED <<venue, row, cutoff, stored, pull, faults>>

Newest(trades) == Max({0} \cup trades)

\* Faulty variant: what is archived was stored by earlier pulls.
LiveAlways(watermark) == TRUE

IsLive(watermark) == watermark = 0 \/ watermark > cutoff

StartPull ==
    /\ stage = "catalogue" /\ row
    /\ stage' = "walk"
    /\ latest' = Newest(stored)
    /\ route' = IF IsLive(latest') THEN "live" ELSE "historical"
    /\ UNCHANGED <<venue, row, cutoff, stored, cursor, got, clean, faults>>

Held == IF route = "live" THEN archived + 1 .. made ELSE 1 .. archived

Precedes(i, j) == IF order = "newest_first" THEN i > j ELSE i < j

Ahead == {i \in Held : cursor = 0 \/ Precedes(cursor, i)}
Page  == {i \in Ahead : Cardinality({j \in Ahead : Precedes(j, i)}) < PageSize}
End   == CHOOSE i \in Page : \A j \in Page : i = j \/ Precedes(j, i)

\* Faulty variant: the trade after the watermark is taken for the watermark.
LaterOffByOne(trades) == {i \in trades : i > latest + 1}

Later(trades) == {i \in trades : i > latest}

FetchPage ==
    /\ stage = "walk"
    /\ got' = got \cup Later(Page)
    /\ cursor' = IF Page = {} THEN cursor ELSE End
    /\ stage' = IF Ahead = Page THEN "store" ELSE "walk"
    /\ UNCHANGED <<venue, row, cutoff, stored, latest, route, clean, faults>>

\* The pages before the one that failed are stored.
FailPage ==
    /\ stage = "walk"
    /\ stage' = "store"
    /\ clean' = FALSE
    /\ Fault
    /\ UNCHANGED <<venue, row, cutoff, stored, latest, route, cursor, got>>

StoreTrades ==
    /\ stage = "store"
    /\ stored' = stored \cup got
    /\ stage' = "idle"
    /\ Forget
    /\ UNCHANGED <<venue, row, cutoff, faults>>

\* The merge fails, which the stage reports; or a kill, or an error elsewhere
\* in the sync.
FailSync ==
    /\ stage # "idle"
    /\ stage' = "idle"
    /\ Forget
    /\ Fault
    /\ UNCHANGED <<venue, row, cutoff, stored>>

TradesStep == SnapshotCutoff \/ RefusePull \/ StartPull \/ FetchPage \/ StoreTrades

TradesNext == Trade \/ Archive \/ TradesStep \/ FailCutoff \/ FailPage \/ FailSync

TradesSpec == TradesInit /\ [][TradesNext]_tradesVars

\* Syncs go on and are begun again; the venue archives what it has.
TradesFairness == WF_tradesVars(TradesStep) /\ WF_tradesVars(Archive)

TradesFairSpec == TradesSpec /\ TradesFairness

-----------------------------------------------------------------------------
(* Properties.                                                             *)

\* trades.py: a pull whose pages all answered, before which the cutoff did not
\* move since it was read, leaves no gap between the old watermark and the new
\* one.  (The first pull asks the live route only and starts at the cutoff.)
CleanPullHasNoGap ==
    [][stage = "store" /\ clean /\ cutoff = archived /\ stored' # stored
        => (IF latest = 0 THEN cutoff ELSE latest) + 1 .. Newest(stored') \subseteq stored']_tradesVars

\* trades.py: once the market has a stored trade, every trade gets stored
\* unless the watermark has passed it.
EventuallyStoredOrPassed ==
    \A i \in Trades :
        (stored # {} /\ i <= made) ~> (i \in stored \/ i < Newest(stored))

=============================================================================
