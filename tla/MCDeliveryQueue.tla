-------------------------- MODULE MCDeliveryQueue ---------------------------
(***************************************************************************)
(* Instances of DeliveryQueue for TLC.  Workers are interchangeable, and   *)
(* so are messages; recipients are not (they differ in Silent and          *)
(* EtrnRcpts).                                                             *)
(***************************************************************************)
EXTENDS DeliveryQueue, TLC

CONSTANTS m1, m2, m3, w1, w2, l1, l2, e1, e2

Symmetry == Permutations(Msgs) \cup Permutations(Workers)

\* For the run with an administrator, a bound on what comes together: while the
\* queue is cleared, or after a statement failed, no mail is for the ETRN route, no
\* single message is being removed and the server has not been restarted.
RouteOrClear ==
  \/ clearing' = "no" /\ faults' = 0
  \/ /\ \A m \in Msgs : envelope'[m] \cap EtrnRcpts = {}
     /\ deleter'["remove"].pc = "idle"
     /\ crashes' = 0
=============================================================================
