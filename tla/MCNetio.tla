------------------------------ MODULE MCNetio ------------------------------
(* Model checking of Netio with one peer.                                   *)
EXTENDS Netio

OnePeer   == {[addr |-> 1, port |-> 3]}
NoGarbage == {}

============================================================================
