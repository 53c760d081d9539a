---------------------------- MODULE MCRateLimit ----------------------------
(* Two threads; a cost that empties a bucket of 2, and one it can never serve. *)
EXTENDS RateLimit

CONSTANTS t1, t2

ThreadSet   == {t1, t2}
CostSet     == {2, 3}
PatienceSet == {Forever, 1}

=============================================================================
