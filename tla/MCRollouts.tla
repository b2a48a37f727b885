----------------------------- MODULE MCRollouts -----------------------------
(***************************************************************************)
(* Instances of Rollouts for TLC.                                          *)
(***************************************************************************)
EXTENDS Rollouts

CONSTANTS d1, d2, t1, t2, g1, u1, r1, r2

MCUpdateTag == [u \in Updates |-> t1]

MCFleet == [d \in Devices |-> [tag |-> t1, group |-> IF d = d1 THEN g1 ELSE NoGroup]]

\* Two rollouts of one update under different names: one by group, one by uuid.
TwoNames ==
  {[id |-> 1, update |-> u1, rollout |-> r1, uuids |-> {}, groups |-> {g1}, committed |-> FALSE],
   [id |-> 2, update |-> u1, rollout |-> r2, uuids |-> {d1}, groups |-> {}, committed |-> FALSE]}

\* Two requests for the same rollout name, one of them sent as committed.
SameName ==
  {[id |-> 1, update |-> u1, rollout |-> r1, uuids |-> {}, groups |-> {g1}, committed |-> FALSE],
   [id |-> 2, update |-> u1, rollout |-> r1, uuids |-> {d1}, groups |-> {}, committed |-> TRUE]}

=============================================================================
