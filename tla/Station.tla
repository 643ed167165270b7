------------------------------ MODULE Station ------------------------------
(***************************************************************************)
(* The Wi-Fi station: the driver, which posts system events, and the event *)
(* task, which runs wifi::handle_event on them one at a time.  The driver  *)
(* does not wait for the handler, so what an event tells may be out of     *)
(* date when it is handled.  The state is that after init_station.         *)
(***************************************************************************)
EXTENDS Events, Sequences

VARIABLES
  ap,      (* the access point can be reached                              *)
  link,    (* the driver: down, connecting, associated, or up: with an IP  *)
  events,  (* the system events posted and not yet handled                 *)
  handler  (* handle_event: idle, or about to clear the bit                *)

station == <<ap, link, events, handler>>

Links      == {"down", "connecting", "associated", "up"}
EventNames == {"start", "got_ip", "disconnected"}

StationInit ==
  /\ ap \in BOOLEAN
  /\ link = "down"
  /\ events = <<"start">>
  /\ handler = "idle"
  /\ bit = FALSE

Post(event) == events' = Append(events, event)

---------------------------------------------------------------------------
(* The driver.  An attempt fails without an access point and may fail with *)
(* one; a link that is lost at any stage is reported as disconnected.      *)
AccessPoint == ap' = ~ap /\ UNCHANGED <<link, events, handler, bit>>

Associate ==
  /\ link = "connecting" /\ ap
  /\ link' = "associated"
  /\ UNCHANGED <<ap, events, handler, bit>>

GetIp ==
  /\ link = "associated"
  /\ link' = "up"
  /\ Post("got_ip")
  /\ UNCHANGED <<ap, handler, bit>>

Drop ==
  /\ link # "down"
  /\ link' = "down"
  /\ Post("disconnected")
  /\ UNCHANGED <<ap, handler, bit>>

Driver == Associate \/ GetIp \/ Drop

---------------------------------------------------------------------------
(* The event task.                                                         *)
TakeEvent(event) ==
  /\ handler = "idle" /\ events # <<>> /\ Head(events) = event
  /\ events' = Tail(events)

(* Asks a driver that has no link for one.                                 *)
esp_wifi_connect == link' = IF link = "down" THEN "connecting" ELSE link

StaStart ==
  /\ TakeEvent("start")
  /\ esp_wifi_connect
  /\ UNCHANGED <<ap, handler, bit>>

StaGotIp ==
  /\ TakeEvent("got_ip")
  /\ set_bit
  /\ UNCHANGED <<ap, link, handler>>

(* The new connection is asked for before the bit of the old one is        *)
(* cleared, and the driver may be done with it in between.  Slips: the bit *)
(* is left set; no connection is asked for.                                *)
StaDisconnectedKeepBit ==
  /\ TakeEvent("disconnected")
  /\ esp_wifi_connect
  /\ UNCHANGED <<ap, handler, bit>>

StaDisconnectedNoConnect ==
  /\ TakeEvent("disconnected")
  /\ handler' = "clear"
  /\ UNCHANGED <<ap, link, bit>>

StaDisconnected ==
  /\ TakeEvent("disconnected")
  /\ esp_wifi_connect
  /\ handler' = "clear"
  /\ UNCHANGED <<ap, bit>>

ClearBit ==
  /\ handler = "clear"
  /\ clear_bit
  /\ handler' = "idle"
  /\ UNCHANGED <<ap, link, events>>

EventTask == StaStart \/ StaGotIp \/ StaDisconnected \/ ClearBit

StationNext == AccessPoint \/ Driver \/ EventTask

(* The event task handles what is posted; the driver ends an attempt, and  *)
(* gets a link if the access point is there often enough.                  *)
StationFairness ==
  /\ WF_<<station, bit>>(EventTask)
  /\ WF_<<station, bit>>(link = "connecting" /\ Drop)
  /\ SF_<<station, bit>>(Associate)
  /\ SF_<<station, bit>>(GetIp)

StationSpec == StationInit /\ [][StationNext]_<<station, bit>> /\ StationFairness

---------------------------------------------------------------------------
StationOK ==
  /\ ap \in BOOLEAN /\ bit \in BOOLEAN
  /\ link \in Links
  /\ events \in Seq(EventNames)
  /\ handler \in {"idle", "clear"}

Pending(event) == \E i \in DOMAIN events : events[i] = event

(* Whatever the driver does between esp_wifi_connect and clear_bit         *)
(* (Wifi.cpp 85-86), the bit differs from the link only while the event    *)
(* that corrects it is on its way.                                         *)
BitFollowsLink ==
  /\ bit /\ link # "up" => Pending("disconnected") \/ handler = "clear"
  /\ ~bit /\ link = "up" => Pending("got_ip")
  /\ handler = "clear" /\ link = "up" => Pending("got_ip")

(* As long as the access point stays, the station connects again however   *)
(* often it loses the link (Wifi.cpp 79-87).                               *)
Reconnects == <>[]ap => []<>bit

============================================================================
