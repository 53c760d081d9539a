----------------------------- MODULE PermitPool -----------------------------
(***************************************************************************)
(* What users of DuckDBStore.connection() rely on: a fixed set of permits  *)
(* (pooled connections), each used by at most one user at a time.  A user  *)
(* may take a second permit while it uses one.                             *)
(***************************************************************************)
EXTENDS Naturals

CONSTANTS
    Users,      \* threads that run `with store.connection()` blocks
    Permits     \* the connections the pool may ever create

VARIABLE uses   \* uses[u]: the permits u holds now

Init == uses = [u \in Users |-> {}]

Taken == UNION {uses[u] : u \in Users}

Take(u) == \E p \in Permits \ Taken : uses' = [uses EXCEPT ![u] = @ \cup {p}]

Give(u) == \E p \in uses[u] : uses' = [uses EXCEPT ![u] = @ \ {p}]

Next == \E u \in Users : Take(u) \/ Give(u)

Spec == Init /\ [][Next]_uses

=============================================================================
