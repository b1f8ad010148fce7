--------------------------------- MODULE Wifi ---------------------------------
(***************************************************************************)
(* The Wi-Fi station of src/wifi.cpp: the re-join loop that never gives up,    *)
(* its two timers, and the pinned first attempt of a PIPECAT_WIFI_FAST_REJOIN  *)
(* build.  The driver and the access points are external; its events reach    *)
(* the handler through a queue while both timers run on a task of their own,   *)
(* so a timer may fire between an event and its handling.  Delays, backoff     *)
(* among them, are only "later".                                            *)
(***************************************************************************)
EXTENDS Naturals, Sequences

CONSTANTS
  Ap,         \* access points of the network
  WifiFaults  \* bound: link losses, roams, missing leases, failed calls

NoAp == "none"

ASSUME WifiBounds == Ap # {} /\ NoAp \notin Ap /\ WifiFaults \in Nat

VARIABLES
  fastRejoin, \* built with PIPECAT_WIFI_FAST_REJOIN
  inRange,    \* the access point that can be joined, external
  link,       \* the driver: "off", "joining", "joined", "leased"
  leaseless,  \* the DHCP exchange of this association was lost
  wifiEvents, \* events posted and not handled yet
  wifiUp,     \* g_wifi_connected
  ipTimer,    \* s_ip_timeout_timer: "off", "armed", "fired" (past its check)
  joinTimer,  \* s_reconnect_timer is armed
  pin,        \* the access point the station config is pinned to
  cache,      \* s_fast_bssid, s_fast_channel; NoAp while not s_fast_cache_valid
  fastTry,    \* s_fast_attempt_in_flight
  wifiFaults  \* faults so far

joinVars == <<pin, cache, fastTry>>
wifiVars == <<fastRejoin, inRange, link, leaseless, wifiEvents, wifiUp, ipTimer,
              joinTimer, joinVars, wifiFaults>>

WifiTypeOK ==
  /\ fastRejoin \in BOOLEAN /\ inRange \in Ap
  /\ link \in {"off", "joining", "joined", "leased"} /\ leaseless \in BOOLEAN
  /\ wifiEvents \in Seq({"joined", "lost", "leased"})
  /\ wifiUp \in BOOLEAN /\ ipTimer \in {"off", "armed", "fired"}
  /\ joinTimer \in BOOLEAN /\ fastTry \in BOOLEAN
  /\ pin \in Ap \cup {NoAp} /\ cache \in Ap \cup {NoAp}
  /\ wifiFaults \in 0..WifiFaults

\* pipecat_init_wifi, up to its wait for an address.
WifiInit ==
  /\ fastRejoin \in BOOLEAN /\ inRange \in Ap
  /\ link = "joining" /\ leaseless = FALSE /\ wifiEvents = <<>>
  /\ wifiUp = FALSE /\ ipTimer = "off" /\ joinTimer = FALSE
  /\ pin = NoAp /\ cache = NoAp /\ fastTry = FALSE /\ wifiFaults = 0

Fault == wifiFaults < WifiFaults /\ wifiFaults' = wifiFaults + 1

-----------------------------------------------------------------------------
(* The driver and the network.                                              *)

ApChanges ==
  /\ Fault
  /\ inRange' \in Ap \ {inRange}
  /\ UNCHANGED <<fastRejoin, link, leaseless, wifiEvents, wifiUp, ipTimer,
                 joinTimer, joinVars>>

Joins ==
  /\ link = "joining" /\ pin \in {NoAp, inRange}
  /\ link' = "joined" /\ leaseless' = FALSE
  /\ wifiEvents' = Append(wifiEvents, "joined")
  /\ UNCHANGED <<fastRejoin, inRange, wifiUp, ipTimer, joinTimer, joinVars,
                 wifiFaults>>

JoinFails ==
  /\ link = "joining"
  /\ link' = "off" /\ wifiEvents' = Append(wifiEvents, "lost")
  /\ UNCHANGED <<fastRejoin, inRange, leaseless, wifiUp, ipTimer, joinTimer,
                 joinVars, wifiFaults>>

LeaseArrives ==
  /\ link = "joined" /\ ~leaseless
  /\ link' = "leased" /\ wifiEvents' = Append(wifiEvents, "leased")
  /\ UNCHANGED <<fastRejoin, inRange, leaseless, wifiUp, ipTimer, joinTimer,
                 joinVars, wifiFaults>>

LeaseMissing ==
  /\ link = "joined" /\ ~leaseless /\ Fault
  /\ leaseless' = TRUE
  /\ UNCHANGED <<fastRejoin, inRange, link, wifiEvents, wifiUp, ipTimer,
                 joinTimer, joinVars>>

LinkLost ==
  /\ link \in {"joined", "leased"} /\ Fault
  /\ link' = "off" /\ wifiEvents' = Append(wifiEvents, "lost")
  /\ UNCHANGED <<fastRejoin, inRange, leaseless, wifiUp, ipTimer, joinTimer,
                 joinVars>>

-----------------------------------------------------------------------------
(* pipecat_event_handler.                                                   *)

\* Mutant: an association has no deadline for its address.
DeadlineForgotten == ipTimer

\* The 60 s an association is given for an address.
Deadline == "armed"

JoinedHandled ==
  /\ wifiEvents # <<>> /\ Head(wifiEvents) = "joined"
  /\ ipTimer' = IF ipTimer = "fired" THEN ipTimer ELSE Deadline
  /\ wifiEvents' = Tail(wifiEvents)
  /\ UNCHANGED <<fastRejoin, inRange, link, leaseless, wifiUp, joinTimer,
                 joinVars, wifiFaults>>

\* esp_wifi_set_config: refused while the driver is joining.
Pinned(ap) == IF link = "joining" THEN pin ELSE ap

\* A link that was up is first re-joined where it was; a pinned attempt that
\* failed is unpinned; either way the re-join timer is armed.
LostHandled ==
  /\ wifiEvents # <<>> /\ Head(wifiEvents) = "lost"
  /\ wifiUp' = FALSE
  /\ ipTimer' = IF ipTimer = "fired" THEN ipTimer ELSE "off"
  /\ IF fastRejoin /\ wifiUp /\ cache # NoAp
     THEN fastTry' = TRUE /\ pin' = Pinned(cache)
     ELSE fastTry' = FALSE /\ pin' = IF fastTry THEN Pinned(NoAp) ELSE pin
  /\ joinTimer' = TRUE
  /\ wifiEvents' = Tail(wifiEvents)
  /\ UNCHANGED <<fastRejoin, inRange, link, leaseless, cache, wifiFaults>>

\* esp_wifi_sta_get_ap_info fails where the link is gone already.
LeasedHandled ==
  /\ wifiEvents # <<>> /\ Head(wifiEvents) = "leased"
  /\ wifiUp' = TRUE /\ fastTry' = FALSE
  /\ ipTimer' = IF ipTimer = "fired" THEN ipTimer ELSE "off"
  /\ cache' = IF fastRejoin /\ link \in {"joined", "leased"} THEN inRange
              ELSE cache
  /\ wifiEvents' = Tail(wifiEvents)
  /\ UNCHANGED <<fastRejoin, inRange, link, leaseless, joinTimer, pin,
                 wifiFaults>>

-----------------------------------------------------------------------------
(* The timer task.                                                          *)

\* pipecat_wifi_ip_timeout_cb reads g_wifi_connected: the lease is missing, or
\* it is as late as the deadline, which is a fault of its own.
DeadlinePasses ==
  /\ ipTimer = "armed" /\ ~wifiUp
  /\ \/ leaseless /\ UNCHANGED wifiFaults
     \/ ~leaseless /\ Fault
  /\ ipTimer' = "fired"
  /\ UNCHANGED <<fastRejoin, inRange, link, leaseless, wifiEvents, wifiUp,
                 joinTimer, joinVars>>

\* ... and drops the association, or arms the re-join timer if that fails,
\* which the driver is assumed to do only where there is nothing to drop.
Dropped ==
  /\ ipTimer = "fired" /\ ipTimer' = "off"
  /\ \/ /\ link' = "off"
        /\ wifiEvents' = IF link = "off" THEN wifiEvents
                         ELSE Append(wifiEvents, "lost")
        /\ UNCHANGED <<joinTimer, wifiFaults>>
     \/ /\ link = "off" /\ Fault /\ joinTimer' = TRUE
        /\ UNCHANGED <<link, wifiEvents>>
  /\ UNCHANGED <<fastRejoin, inRange, leaseless, wifiUp, joinVars>>

\* Mutant: an attempt that could not be started is the last one.
RetryForgotten == FALSE

\* The re-join timer after an esp_wifi_connect that started no attempt.
RetryArmed == TRUE

\* pipecat_wifi_reconnect_cb: no attempt of its own while one is under way,
\* and the timer again when esp_wifi_connect starts none.
Rejoins ==
  /\ joinTimer
  /\ \/ /\ joinTimer' = FALSE
        /\ link' = IF link = "off" THEN "joining" ELSE link
        /\ UNCHANGED wifiFaults
     \/ link = "off" /\ Fault /\ joinTimer' = RetryArmed /\ UNCHANGED link
  /\ UNCHANGED <<fastRejoin, inRange, leaseless, wifiEvents, wifiUp, ipTimer,
                 joinVars>>

WifiHandler == JoinedHandled \/ LostHandled \/ LeasedHandled
WifiTimers == DeadlinePasses \/ Dropped \/ Rejoins

WifiNext ==
  \/ ApChanges \/ Joins \/ JoinFails \/ LeaseArrives \/ LeaseMissing \/ LinkLost
  \/ WifiHandler \/ WifiTimers

-----------------------------------------------------------------------------
\* Somebody always owns the next attempt (wifi.cpp:97-99 "the loop would silently
\* end", 264 "reconnects never give up"): once what the driver reported has been
\* handled, a link that is off has its re-join timer running, one without an
\* address its deadline, and only a link with an address is taken for up,
\* whatever order events, timers and failing calls came in.
NextAttemptOwned ==
  wifiEvents = <<>> =>
    /\ link = "off" => joinTimer
    /\ link = "joined" => ipTimer # "off"
    /\ wifiUp <=> link = "leased"

\* An unpin was refused: a second attempt was under way before the loss was
\* handled, and nothing tries it again.
LeftPinned == pin # NoAp /\ ~fastTry /\ ~wifiUp

StationUp == wifiUp /\ link = "leased"
=============================================================================
