----------------------------- MODULE MCWorkQueue -----------------------------
(***************************************************************************)
(* Instances of WorkQueue for TLC: b1 and b2 may block, n1 does not.       *)
(***************************************************************************)
EXTENDS WorkQueue

CONSTANTS b1, b2, n1, w1, w2, w3
==============================================================================
