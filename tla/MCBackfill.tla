----------------------------- MODULE MCBackfill -----------------------------
(* Instances of Backfill for TLC: windows of five records.          *)
EXTENDS Backfill

\* Pages of PageSize records, the last one as it comes.
FullPages == [i \in 1 .. N |-> (i - 1) \div PageSize]

=============================================================================
