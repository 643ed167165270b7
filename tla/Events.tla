------------------------------- MODULE Events -------------------------------
(* The event group of components/system, of which the program uses one bit: *)
(* WIFI_CONNECTED_BIT.  The event task sets and clears it, the UDP task      *)
(* waits for it without a timeout and without clearing it.                   *)
VARIABLE bit

set_bit              == bit' = TRUE
clear_bit            == bit' = FALSE

(* A slip: the wait is for SRV_CONNECTED_BIT, which nobody sets.             *)
wait_srv_connection  == FALSE
wait_wifi_connection == bit

============================================================================
