------------------------------ MODULE MCMailbox ------------------------------
(***************************************************************************)
(* Instances of Mailbox for TLC: two sessions, and what their clients do.  *)
(***************************************************************************)
EXTENDS Mailbox, TLC

CONSTANTS s1, s2

\* One client deletes, the other looks on and numbers.
DeletingOps ==
    s1 :> {"STORE", "EXPUNGE", "UIDEXPUNGE", "MOVE", "DROP"} @@
    s2 :> {"NOOP", "FETCH", "SEARCH", "STORE", "EXPUNGE", "SELECT"}

\* One client adds mail, beside a delivery; the other comes, idles and goes.
AddingOps ==
    s1 :> {"APPEND", "COPY", "IDLE"} @@
    s2 :> {"SELECT", "UNSELECT", "CLOSE", "IDLE", "NOOP"}
=============================================================================
