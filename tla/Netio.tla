------------------------------- MODULE Netio -------------------------------
(* The Wi-Fi station and the UDP server together: the driver, the event     *)
(* task, the UDP task and the main task.  The bit of the event group is all *)
(* they share; a link that goes down may make a call of the server fail,    *)
(* which any of them may do anyhow.                                         *)
EXTENDS Station, UdpSrv

vars == <<station, bit, server>>

NetioInit == StationInit /\ ServerInit
NetioNext ==
  \/ StationNext /\ UNCHANGED server
  \/ ServerNext /\ UNCHANGED station

(* A wait for the bit ends when the bit is set, even if it is cleared again *)
(* before the task runs: for the UDP task that is strong fairness.          *)
NetioSpec ==
  /\ NetioInit /\ [][NetioNext]_vars
  /\ StationFairness
  /\ ServerFairness
  /\ SF_<<server, bit>>(UdpWait /\ UNCHANGED bit)

NetioOK == StationOK /\ ServerOK

(* With an access point the server gets a socket, whatever happens to the   *)
(* link meanwhile (main.cpp 41-50, Wifi.cpp 65-106).                        *)
Starts == <>[]ap => <>(g_sock >= 0)

============================================================================
