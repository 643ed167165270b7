------------------------------- MODULE MCBus -------------------------------
(* Model checking of Bus on small instances: the clients and queues of the  *)
(* runs, and the symmetry that is sound for their safety properties.        *)
EXTENDS BusMulticast, TLC

CONSTANTS c1, c2, c3, q1, q2, q3

(* Anchors connect first; the other clients are alike, and so are queues.   *)
Alike == Permutations(Clients \ Anchors) \cup Permutations(Queues)

============================================================================
