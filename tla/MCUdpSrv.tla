------------------------------ MODULE MCUdpSrv ------------------------------
(* Model checking of UdpSrv: peers none of which the code's ordering puts   *)
(* before the other in one way only.                                        *)
EXTENDS UdpSrv

PeerAt(n)  == [addr |-> n, port |-> 4 - n]
MCPeers    == {PeerAt(1), PeerAt(2)}
MCGarbage  == {PeerAt(3)}
OnePeer    == {PeerAt(1)}
NoGarbage  == {}

============================================================================
