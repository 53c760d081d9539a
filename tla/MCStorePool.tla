---------------------------- MODULE MCStorePool ----------------------------
(* Three threads over two connections, blocks nested two deep. *)
EXTENDS StorePool

CONSTANTS t1, t2, t3, c1, c2

ThreadSet == {t1, t2, t3}
ConnSet   == {c1, c2}

=============================================================================
