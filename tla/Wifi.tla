--------------------------------- MODULE Wifi ---------------------------------
(***************************************************************************)
(* The WiFi manager, main/wifi_manager.c, and the driver under it.         *)
(*                                                                         *)
(* Three tasks act on s_status, the retry count, s_scanning and the        *)
(* driver, without a lock: the system event task runs event_handler, the   *)
(* timer task the reconnect watchdog, and the httpd task the requests.  A  *)
(* step is at most one call of the driver or one write of shared state     *)
(* that another task looks at.                                             *)
(***************************************************************************)
EXTENDS Naturals, Sequences

CONSTANTS
    MaxRetries,  \* MAX_STA_RETRIES (5)
    ApConfigs,   \* access point configurations: name and password
    MaxEvents,   \* bound: the network raises no event behind this many
    MaxRequests  \* bound: requests the clients make

ASSUME RetriesAssumption == MaxRetries \in Nat
ASSUME BoundsAssumption == MaxEvents \in Nat \ {0} /\ MaxRequests \in Nat

VARIABLES
    wifi,           \* the driver: mode, started, STA and AP config, STA link
    evq,            \* events it has posted and event_handler has not seen
    mode,           \* s_status.mode
    sta_connected,  \* s_status.sta_connected
    s_retry_count,
    s_scanning,
    armed,          \* s_reconnect_timer is running
    sta_ssid,       \* the stored network: none, usable, longer than allowed
    ap_stored,      \* the stored access point configuration
    event,          \* event task: where it is, the AP config it has read
    timer,          \* timer task: inside the watchdog's callback
    httpd,          \* httpd task: where it is; was_running or switched
    requests,       \* requests made so far
    left,           \* history: the last request was a successful disconnect
    raced,          \* history: a handler and a request set the mode at once
    crossed,        \* history: the AP was reconfigured during a fallback
    refused         \* history: the AP configuration was last not accepted

status == <<mode, sta_connected>>
config == <<sta_ssid, ap_stored>>
history == <<requests, left, raced, crossed, refused>>
vars == <<wifi, evq, status, s_retry_count, s_scanning, armed, config,
          event, timer, httpd, history>>

Modes == {"AP", "STA", "AP_STA"}
HasSta(m) == m \in {"STA", "AP_STA"}
HasAp(m) == m \in {"AP", "AP_STA"}

\* A request that sets the mode overlaps an event handler that does.
Raced ==
    \/ raced
    \/ /\ event.at \in {"fallback", "status", "apoff", "sta"}
       /\ httpd.at \in {"apsta", "apsta2", "leave", "stop", "mode", "report",
                        "start"}

IdleEvent == [at |-> "idle", ap |-> 0]
IdleHttpd == [at |-> "idle", flag |-> FALSE]
Answered == [at |-> "answered", flag |-> FALSE]

-------------------------------------------------------------------------------
(* The driver.  A call that finds the driver in the wrong state returns an *)
(* error, which no caller looks at unless it is modelled below.            *)

NoDriver == [mode |-> "AP", on |-> FALSE, sta |-> FALSE, ap |-> 0,
             link |-> "down"]

\* A link that is taken down, or given up, is reported.
Lost == IF wifi.link = "down" THEN <<>> ELSE <<"disconnected">>

esp_wifi_connect ==
    wifi' = IF wifi.on /\ HasSta(wifi.mode) /\ wifi.sta /\ wifi.link = "down"
            THEN [wifi EXCEPT !.link = "connecting"] ELSE wifi

esp_wifi_disconnect ==
    /\ wifi' = [wifi EXCEPT !.link = "down"]
    /\ evq' = evq \o Lost

esp_wifi_stop ==
    /\ wifi' = [wifi EXCEPT !.on = FALSE, !.link = "down"]
    /\ evq' = evq \o Lost

esp_wifi_start ==
    /\ wifi' = [wifi EXCEPT !.on = TRUE]
    /\ evq' = evq \o IF HasSta(wifi.mode) THEN <<"sta_start">> ELSE <<>>

esp_wifi_set_mode(m) ==
    /\ wifi' = [wifi EXCEPT !.mode = m,
                            !.link = IF HasSta(m) THEN @ ELSE "down"]
    /\ evq' = evq \o IF ~HasSta(m) THEN Lost
                     ELSE IF wifi.on /\ ~HasSta(wifi.mode) THEN <<"sta_start">>
                     ELSE <<>>

\* start_ap returns OK when the driver took the configuration.  It takes one
\* only for an interface its mode has, and may refuse it even then.
ApTaken(ap) ==
    HasAp(wifi.mode) /\ wifi' = [wifi EXCEPT !.ap = ap] /\ refused' = FALSE
ApRefused == UNCHANGED wifi /\ refused' = (refused \/ HasAp(wifi.mode))

start_ap(ap) == ApTaken(ap) \/ ApRefused

\* The network answers, assigns an address, refuses or goes away.
Network ==
    /\ wifi.link # "down" /\ Len(evq) < MaxEvents
    /\ \/ /\ wifi.link = "connecting"
          /\ wifi' = [wifi EXCEPT !.link = "joined"] /\ UNCHANGED evq
       \/ /\ wifi.link = "joined"
          /\ wifi' = [wifi EXCEPT !.link = "up"]
          /\ evq' = Append(evq, "got_ip")
       \/ esp_wifi_disconnect
    /\ UNCHANGED <<status, s_retry_count, s_scanning, armed, config, event,
                   timer, httpd, history>>

(* wifi_manager_init, up to where it waits for the first connection.  An   *)
(* access point whose configuration is refused has the driver's own, 0.    *)

Booted(on, m, sta) ==
    [NoDriver EXCEPT !.on = on, !.mode = m, !.sta = sta,
                     !.ap = IF refused THEN 0 ELSE ap_stored]

Init ==
    /\ ap_stored \in ApConfigs
    /\ sta_connected = FALSE /\ s_retry_count = 0 /\ s_scanning = FALSE
    /\ armed = FALSE /\ event = IdleEvent /\ timer = "idle"
    /\ httpd = IdleHttpd /\ requests = 0
    /\ left = FALSE /\ raced = FALSE /\ crossed = FALSE /\ refused \in BOOLEAN
    /\ \/ /\ sta_ssid = "usable"
          /\ \E accepted \in BOOLEAN :
                /\ mode = IF accepted THEN "AP_STA" ELSE "AP"
                /\ wifi = Booted(TRUE, "AP_STA", accepted)
          /\ evq = <<"sta_start">>
       \/ /\ sta_ssid \in {"none", "toolong"}
          /\ mode = "AP" /\ wifi = Booted(TRUE, "AP", FALSE) /\ evq = <<>>

(* event_handler, on the system event task                                 *)

Take(e) == event.at = "idle" /\ evq # <<>> /\ Head(evq) = e

StaStart ==
    /\ Take("sta_start")
    /\ evq' = Tail(evq)
    /\ IF s_scanning THEN UNCHANGED wifi ELSE esp_wifi_connect
    /\ UNCHANGED <<status, s_retry_count, s_scanning, armed, config, event,
                   timer, httpd, history>>

\* A disconnect during a scan is the scan's own.
IgnoreDisconnect ==
    /\ Take("disconnected") /\ s_scanning
    /\ evq' = Tail(evq)
    /\ UNCHANGED <<wifi, status, s_retry_count, s_scanning, armed, config,
                   event, timer, httpd, history>>

Retry_OneMore ==
    /\ Take("disconnected") /\ ~s_scanning
    /\ s_retry_count <= MaxRetries
    /\ evq' = Tail(evq)
    /\ sta_connected' = FALSE
    /\ esp_wifi_connect
    /\ s_retry_count' = s_retry_count + 1
    /\ UNCHANGED <<mode, s_scanning, armed, config, event, timer, httpd,
                   history>>

Retry ==
    /\ Take("disconnected") /\ ~s_scanning
    /\ s_retry_count < MaxRetries
    /\ evq' = Tail(evq)
    /\ sta_connected' = FALSE
    /\ esp_wifi_connect
    /\ s_retry_count' = s_retry_count + 1
    /\ UNCHANGED <<mode, s_scanning, armed, config, event, timer, httpd,
                   history>>

\* The watchdog is started only while a network is stored.
Armed_NotInFallback == armed \/ (sta_ssid # "none" /\ mode # "AP_STA")

Armed == armed \/ sta_ssid # "none"

GiveUp_NoFallback ==
    /\ Take("disconnected") /\ ~s_scanning
    /\ s_retry_count >= MaxRetries
    /\ evq' = Tail(evq)
    /\ sta_connected' = FALSE
    /\ armed' = Armed
    /\ UNCHANGED <<wifi, mode, s_retry_count, s_scanning, config, event, timer,
                   httpd, history>>

GiveUp ==
    /\ Take("disconnected") /\ ~s_scanning
    /\ s_retry_count >= MaxRetries
    /\ evq' = Tail(evq)
    /\ sta_connected' = FALSE
    /\ IF mode = "STA"
       THEN event' = [event EXCEPT !.at = "fallback"] /\ UNCHANGED armed
       ELSE armed' = Armed /\ UNCHANGED event
    /\ UNCHANGED <<wifi, mode, s_retry_count, s_scanning, config, timer, httpd,
                   history>>

FallbackMode ==
    /\ event.at = "fallback"
    /\ esp_wifi_set_mode("AP_STA")
    /\ event' = [event EXCEPT !.at = "status"]
    /\ UNCHANGED <<status, s_retry_count, s_scanning, armed, config, timer,
                   httpd, history>>

FallbackStatus ==
    /\ event.at = "status"
    /\ mode' = "AP_STA"
    /\ event' = [at |-> "ap", ap |-> ap_stored]
    /\ raced' = Raced
    /\ UNCHANGED <<wifi, evq, sta_connected, s_retry_count, s_scanning, armed,
                   config, timer, httpd, requests, left, crossed, refused>>

FallbackAp_NotStarted ==
    /\ event.at = "ap"
    /\ armed' = Armed
    /\ event' = IdleEvent
    /\ UNCHANGED <<wifi, evq, status, s_retry_count, s_scanning, config, timer,
                   httpd, history>>

FallbackAp ==
    /\ event.at = "ap"
    /\ start_ap(event.ap)
    /\ armed' = Armed
    /\ event' = IdleEvent
    /\ UNCHANGED <<evq, status, s_retry_count, s_scanning, config, timer,
                   httpd, requests, left, raced, crossed>>

GotIp_AnyMode ==
    /\ Take("got_ip")
    /\ evq' = Tail(evq)
    /\ sta_connected' = TRUE /\ s_retry_count' = 0 /\ armed' = FALSE
    /\ event' = [event EXCEPT !.at = "apoff"]
    /\ UNCHANGED <<wifi, mode, s_scanning, config, timer, httpd, history>>

GotIp ==
    /\ Take("got_ip")
    /\ evq' = Tail(evq)
    /\ sta_connected' = TRUE /\ s_retry_count' = 0 /\ armed' = FALSE
    /\ event' = [event EXCEPT !.at = IF mode = "AP_STA" THEN "apoff" ELSE @]
    /\ UNCHANGED <<wifi, mode, s_scanning, config, timer, httpd, history>>

ApOff ==
    /\ event.at = "apoff"
    /\ esp_wifi_set_mode("STA")
    /\ event' = [event EXCEPT !.at = "sta"]
    /\ UNCHANGED <<status, s_retry_count, s_scanning, armed, config, timer,
                   httpd, history>>

ApOffStatus ==
    /\ event.at = "sta"
    /\ mode' = "STA"
    /\ event' = IdleEvent
    /\ raced' = Raced
    /\ UNCHANGED <<wifi, evq, sta_connected, s_retry_count, s_scanning, armed,
                   config, timer, httpd, requests, left, crossed, refused>>

EventTask ==
    \/ StaStart \/ IgnoreDisconnect \/ Retry \/ GiveUp \/ GotIp
    \/ FallbackMode \/ FallbackStatus \/ FallbackAp \/ ApOff \/ ApOffStatus

-------------------------------------------------------------------------------
(* reconnect_timer_cb, on the timer task: periodic while it is armed       *)

Watchdog ==
    /\ armed /\ timer = "idle"
    /\ \/ /\ sta_connected
          /\ armed' = FALSE /\ UNCHANGED <<timer, s_retry_count>>
       \/ /\ ~sta_connected
          /\ timer' = "retry" /\ s_retry_count' = 0 /\ UNCHANGED armed
    /\ UNCHANGED <<wifi, evq, status, s_scanning, config, event, httpd,
                   history>>

WatchdogConnect ==
    /\ timer = "retry"
    /\ esp_wifi_connect
    /\ timer' = "idle"
    /\ UNCHANGED <<evq, status, s_retry_count, s_scanning, armed, config,
                   event, httpd, history>>

TimerTask == Watchdog \/ WatchdogConnect

-------------------------------------------------------------------------------
(* Requests, on the httpd task                                             *)

Goto(step) == httpd' = [httpd EXCEPT !.at = step]
Unmoved == UNCHANGED <<status, s_retry_count, s_scanning, armed, config, event,
                       timer, history>>

\* A client has its answer and sends the next request: by then the events
\* the last one caused are handled.
NextRequest ==
    /\ httpd.at = "answered" /\ evq = <<>> /\ event.at = "idle"
    /\ httpd' = IdleHttpd
    /\ Unmoved /\ UNCHANGED <<wifi, evq>>

\* Whoever sends a request came in over one interface or the other.
Request ==
    /\ httpd.at = "idle"
    /\ wifi.on /\ (HasAp(wifi.mode) \/ wifi.link = "up")
    /\ requests < MaxRequests /\ requests' = requests + 1

\* wifi_manager_connect_sta, its arguments being within their limits.  What
\* is stored first is also what the next boot reads.
ConnectSta ==
    /\ Request
    /\ sta_ssid' = "usable" /\ left' = FALSE
    /\ IF mode = "AP_STA"
       THEN /\ httpd' = [at |-> "setconfig", flag |-> TRUE]
            /\ UNCHANGED <<wifi, evq>>
       ELSE /\ httpd' = [at |-> "apsta", flag |-> FALSE]
            /\ esp_wifi_stop
    /\ UNCHANGED <<status, s_retry_count, s_scanning, armed, ap_stored, event,
                   timer, raced, crossed, refused>>

ConnectMode ==
    /\ httpd.at = "apsta"
    /\ esp_wifi_set_mode("AP_STA") /\ Goto("apsta2")
    /\ Unmoved

ConnectAp ==
    /\ httpd.at = "apsta2"
    /\ mode' = "AP_STA" /\ start_ap(ap_stored) /\ Goto("setconfig")
    /\ raced' = Raced
    /\ UNCHANGED <<evq, sta_connected, s_retry_count, s_scanning, armed,
                   config, event, timer, requests, left, crossed>>

\* A call whose result the request looks at may fail: the request ends there,
\* and a driver it has stopped stays stopped.
CallFails ==
    /\ httpd.at \in {"apsta", "setconfig", "wifistart", "mode", "start"}
    /\ httpd' = Answered
    /\ Unmoved /\ UNCHANGED <<wifi, evq>>

ConnectConfig ==
    /\ httpd.at = "setconfig"
    /\ wifi' = [wifi EXCEPT !.sta = TRUE]
    /\ s_retry_count' = 0
    /\ Goto(IF httpd.flag THEN "connect" ELSE "wifistart")
    /\ UNCHANGED <<evq, status, s_scanning, armed, config, event, timer,
                   history>>

ConnectGo ==
    /\ \/ httpd.at = "connect" /\ esp_wifi_connect /\ UNCHANGED evq
       \/ httpd.at = "wifistart" /\ esp_wifi_start
    /\ httpd' = Answered
    /\ Unmoved

\* wifi_manager_disconnect_sta
DisconnectSta ==
    /\ Request
    /\ armed' = FALSE /\ sta_ssid' = "none" /\ left' = FALSE
    /\ Goto("leave")
    /\ UNCHANGED <<wifi, evq, status, s_retry_count, s_scanning, ap_stored,
                   event, timer, raced, crossed, refused>>

Leave == httpd.at = "leave" /\ esp_wifi_disconnect /\ Goto("stop") /\ Unmoved
Stop == httpd.at = "stop" /\ esp_wifi_stop /\ Goto("mode") /\ Unmoved
ApMode ==
    httpd.at = "mode" /\ esp_wifi_set_mode("AP") /\ Goto("report") /\ Unmoved

Report ==
    /\ httpd.at = "report"
    /\ mode' = "AP" /\ sta_connected' = FALSE /\ start_ap(ap_stored)
    /\ Goto("start")
    /\ UNCHANGED <<evq, s_retry_count, s_scanning, armed, config, event, timer,
                   requests, left, raced, crossed>>

StartAp ==
    /\ httpd.at = "start"
    /\ esp_wifi_start
    /\ httpd' = Answered /\ left' = TRUE
    /\ raced' = Raced
    /\ UNCHANGED <<status, s_retry_count, s_scanning, armed, config, event,
                   timer, requests, crossed, refused>>

\* wifi_manager_update_ap stores the configuration before the driver sees it.
\* If it is taken, the same request may go on to one of the others; if it is
\* refused, or could not be saved, the request ends.
UpdateAp ==
    /\ Request
    /\ \E ap \in ApConfigs :
          /\ ap_stored' = ap
          /\ \/ ApTaken(ap) /\ UNCHANGED httpd
             \/ ApRefused /\ httpd' = Answered
    /\ crossed' = (event.at = "ap")
    /\ UNCHANGED <<evq, status, s_retry_count, s_scanning, armed, sta_ssid,
                   event, timer, left, raced>>

\* wifi_manager_scan: the flag and the mode; the disconnect; the end of the
\* scan, by when its delays have let its own events be handled.
Scan ==
    /\ Request
    /\ s_scanning' = TRUE
    /\ httpd' = [at |-> "scan", flag |-> wifi.mode = "AP"]
    /\ IF wifi.mode = "AP" THEN esp_wifi_set_mode("AP_STA")
       ELSE esp_wifi_disconnect
    /\ UNCHANGED <<status, s_retry_count, armed, config, event, timer, left,
                   raced, crossed, refused>>

ScanRestore ==
    /\ httpd.at = "scan" /\ evq = <<>> /\ event.at = "idle"
    /\ IF httpd.flag THEN esp_wifi_set_mode("AP") ELSE UNCHANGED <<wifi, evq>>
    /\ Goto("scanned") /\ Unmoved

ScanEnd_NoReconnect ==
    /\ httpd.at = "scanned"
    /\ s_scanning' = FALSE
    /\ httpd' = Answered
    /\ UNCHANGED <<wifi, evq, status, s_retry_count, armed, config, event,
                   timer, history>>

ScanEnd ==
    /\ httpd.at = "scanned"
    /\ s_scanning' = FALSE
    /\ IF sta_ssid # "none" THEN esp_wifi_connect ELSE UNCHANGED wifi
    /\ httpd' = Answered
    /\ UNCHANGED <<evq, status, s_retry_count, armed, config, event, timer,
                   history>>

Httpd ==
    \/ ConnectMode \/ ConnectAp \/ ConnectConfig \/ ConnectGo \/ CallFails
    \/ Leave \/ Stop \/ ApMode \/ Report \/ StartAp
    \/ ScanRestore \/ ScanEnd \/ NextRequest

Next ==
    \/ Network \/ EventTask \/ TimerTask \/ Httpd
    \/ ConnectSta \/ DisconnectSta \/ UpdateAp \/ Scan

Spec == Init /\ [][Next]_vars

\* Every task returns to its loop; the driver reports how an attempt ended.
FairSpec ==
    /\ Spec
    /\ WF_vars(EventTask) /\ WF_vars(TimerTask) /\ WF_vars(Httpd)
    /\ WF_vars(Network /\ wifi.link = "connecting")

-------------------------------------------------------------------------------
(* Properties                                                              *)

\* Every variable has its type; the event task has a step open only on the
\* values the handlers leave behind.
TypeOK ==
    /\ wifi \in [mode : Modes, on : BOOLEAN, sta : BOOLEAN,
                 ap : ApConfigs \cup {0},
                 link : {"down", "connecting", "joined", "up"}]
    /\ evq \in Seq({"sta_start", "disconnected", "got_ip"})
    /\ mode \in Modes /\ sta_connected \in BOOLEAN
    /\ s_retry_count \in 0..MaxRetries
    /\ s_scanning \in BOOLEAN /\ armed \in BOOLEAN
    /\ sta_ssid \in {"none", "usable", "toolong"} /\ ap_stored \in ApConfigs
    /\ event \in [at : {"idle", "fallback", "status", "ap", "apoff", "sta"},
                  ap : ApConfigs \cup {0}]
    /\ timer \in {"idle", "retry"}
    /\ httpd \in [at : {"idle", "apsta", "apsta2", "setconfig", "connect",
                        "wifistart", "leave", "stop", "mode", "report",
                        "start", "scan", "scanned", "answered"},
                  flag : BOOLEAN]
    /\ requests \in 0..MaxRequests
    /\ left \in BOOLEAN /\ raced \in BOOLEAN /\ crossed \in BOOLEAN
    /\ refused \in BOOLEAN

Quiet == evq = <<>> /\ event.at = "idle" /\ timer = "idle"
         /\ httpd.at \in {"idle", "answered"}

\* A stored network is never forgotten: when its link is down and no event and
\* no task is about to retry it, the watchdog runs.
NeverForgotten ==
    Quiet /\ wifi.on /\ HasSta(wifi.mode) /\ wifi.sta /\ sta_ssid = "usable"
    /\ wifi.link = "down" /\ ~raced => armed

\* An access point that is on air has the stored name and password, also when
\* they were changed while it was off, or after others that were refused: not
\* when the last ones offered to it were, as they stay stored all the same
\* (wifi_manager.c:445, 159-163).
ApIsCurrent ==
    Quiet /\ HasAp(wifi.mode) /\ ~crossed /\ ~refused => wifi.ap = ap_stored

\* A disconnect request returns the device to AP mode: an access point, and on
\* no network.  README.md:168 says so of every request.
DisconnectMeansAp ==
    Quiet /\ left => wifi.mode = "AP" /\ wifi.on /\ wifi.link = "down"

\* It does, and the status says it, unless an event handler was setting the
\* mode at the time.
LeftMeansAp ==
    raced \/ (DisconnectMeansAp /\ (Quiet /\ left => mode = "AP"))

\* A device that lost its network puts its access point back on air, unless it
\* finds the network again or a failed call left the driver stopped.
FallbackComes ==
    (mode = "STA" /\ wifi.link = "down") ~>
        \/ HasAp(wifi.mode) \/ wifi.link \in {"joined", "up"}
        \/ ~wifi.on \/ raced

\* A status that says connected while the link is down is corrected: also
\* after a scan, whose disconnect the event handler ignores.
StatusCatchesUp ==
    (sta_connected /\ wifi.link = "down" /\ sta_ssid = "usable") ~>
        \/ ~sta_connected \/ wifi.link \in {"joined", "up"}
        \/ sta_ssid = "none" \/ ~wifi.on \/ raced
===============================================================================
