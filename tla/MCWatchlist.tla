---------------------------- MODULE MCWatchlist ----------------------------
(* Two Polymarket markets, one mapped by the operator and one by the
   heuristic, and one Kalshi ticker the operator mapped. *)
EXTENDS Watchlist

CONSTANTS mapped, auto, ticker

OneTicker == {ticker}
NoTicker  == {}

MappedOnly      == {mapped}
MappedAndAuto   == {mapped, auto}
MappedAndTicker == {mapped, ticker}

=============================================================================
