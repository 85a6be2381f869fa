------------------------------ MODULE WifiProofs ------------------------------
(***************************************************************************)
(* The watchdog, the access point and the way back to AP mode, for any     *)
(* number of retries, configurations, network events and requests.         *)
(***************************************************************************)
EXTENDS Wifi, TLAPS

Events == {"sta_start", "disconnected", "got_ip"}
Driver == [mode : Modes, on : BOOLEAN, sta : BOOLEAN, ap : ApConfigs \cup {0},
           link : {"down", "connecting", "joined", "up"}]

\* What the event task and the httpd task are at.
SettingMode == event.at \in {"fallback", "status", "apoff", "sta"}
FallingBack == event.at \in {"fallback", "status", "ap"}
Joining ==
    httpd.at \in {"apsta", "apsta2", "setconfig", "connect", "wifistart"}
Leaving == httpd.at \in {"leave", "stop", "mode", "report", "start"}
Scanning == httpd.at \in {"scan", "scanned"}

\* What each task has made true where it is.
TaskInv ==
    /\ event.at = "ap" => event.ap \in ApConfigs
    /\ s_scanning <=> Scanning
    /\ Joining => sta_ssid = "usable"
    /\ Leaving => sta_ssid = "none"
    /\ armed \/ FallingBack => ~sta_connected

\* Only an interface that is there has a link.
LinkInv == ~HasSta(wifi.mode) => wifi.link = "down"

\* A link that came up and went down again has its disconnect in the queue,
\* behind its address.
LostInv ==
    wifi.link = "down" =>
        \A i \in 1..Len(evq) : evq[i] = "got_ip" =>
            \E j \in i + 1..Len(evq) : evq[j] = "disconnected"

\* A request that changes the mode stops the driver first, and nothing starts
\* it before the request does.
Stopped ==
    \/ httpd.at \in {"apsta", "apsta2", "wifistart", "mode", "report", "start"}
    \/ httpd.at = "setconfig" /\ ~httpd.flag
StoppedInv ==
    /\ Stopped => ~wifi.on
    /\ httpd.at \in {"apsta", "apsta2"} => ~httpd.flag

\* Without a network to join, a driver that runs is in AP mode, or a request is
\* about to stop it.
ModeInv ==
    ~raced /\ sta_ssid # "usable" /\ wifi.on =>
        \/ httpd.at \in {"leave", "stop"}
        \/ mode = "AP" /\ ~SettingMode

\* What is still going to try the network again, or to start the watchdog.
News == \E i \in 1..Len(evq) : evq[i] \in {"sta_start", "disconnected"}
Pending ==
    \/ armed \/ timer = "retry" \/ FallingBack \/ News
    \/ httpd.at \in {"connect", "wifistart"} \/ Scanning
Wanted == /\ wifi.on /\ HasSta(wifi.mode) /\ wifi.sta /\ wifi.link = "down"
          /\ sta_ssid = "usable"
RetryInv == Wanted /\ ~raced => Pending

\* Where the access point is not the stored one, somebody is about to set it.
ApInv ==
    /\ event.at \in {"status", "ap"} => HasAp(wifi.mode)
    /\ event.at = "ap" /\ ~crossed => event.ap = ap_stored
    /\ ~crossed /\ ~refused
       /\ (HasAp(wifi.mode) \/ (httpd.at = "scan" /\ httpd.flag)) =>
          \/ wifi.ap = ap_stored
          \/ event.at \in {"status", "ap"} \/ httpd.at \in {"apsta2", "report"}

\* The way of a disconnect request, and what keeps the device where it leads.
LeftInv ==
    ~raced =>
       /\ httpd.at \in {"report", "start"} /\ ~SettingMode => wifi.mode = "AP"
       /\ httpd.at = "start" => mode = "AP"
       /\ left => /\ mode = "AP" /\ wifi.on /\ ~SettingMode
                  /\ httpd.at \in {"idle", "answered", "scan", "scanned"}
                  /\ \/ wifi.mode = "AP"
                     \/ httpd.at = "scan" /\ httpd.flag

IInv == /\ TypeOK /\ LinkInv /\ TaskInv /\ LostInv /\ StoppedInv
        /\ ModeInv /\ RetryInv /\ ApInv /\ LeftInv

-------------------------------------------------------------------------------
(* Calls of the driver                                                     *)

LEMMA Cat ==
    ASSUME evq \in Seq(Events)
    PROVE  /\ evq \o <<>> = evq
           /\ \A e \in Events : /\ evq \o <<e>> = Append(evq, e)
                                /\ Append(evq, e) \in Seq(Events)
BY DEF Events

LEMMA ConnectDoes ==
    ASSUME wifi \in Driver, esp_wifi_connect
    PROVE  /\ wifi' \in Driver
           /\ wifi'.mode = wifi.mode /\ wifi'.on = wifi.on
           /\ wifi'.sta = wifi.sta /\ wifi'.ap = wifi.ap
           /\ wifi'.link # "down"
              <=> \/ wifi.link # "down"
                  \/ wifi.on /\ HasSta(wifi.mode) /\ wifi.sta
BY DEF esp_wifi_connect, Driver

LEMMA DisconnectDoes ==
    ASSUME wifi \in Driver, evq \in Seq(Events), esp_wifi_disconnect
    PROVE  /\ wifi' \in Driver /\ wifi'.link = "down"
           /\ wifi'.mode = wifi.mode /\ wifi'.on = wifi.on
           /\ wifi'.sta = wifi.sta /\ wifi'.ap = wifi.ap
           /\ \/ evq' = evq /\ wifi.link = "down"
              \/ evq' = Append(evq, "disconnected")
BY Cat DEF esp_wifi_disconnect, Driver, Lost, Events

LEMMA StopDoes ==
    ASSUME wifi \in Driver, evq \in Seq(Events), esp_wifi_stop
    PROVE  /\ wifi' \in Driver /\ wifi'.link = "down" /\ wifi'.on = FALSE
           /\ wifi'.mode = wifi.mode
           /\ wifi'.sta = wifi.sta /\ wifi'.ap = wifi.ap
           /\ \/ evq' = evq /\ wifi.link = "down"
              \/ evq' = Append(evq, "disconnected")
BY Cat DEF esp_wifi_stop, Driver, Lost, Events

LEMMA StartDoes ==
    ASSUME wifi \in Driver, evq \in Seq(Events), esp_wifi_start
    PROVE  /\ wifi' \in Driver /\ wifi'.link = wifi.link /\ wifi'.on = TRUE
           /\ wifi'.mode = wifi.mode
           /\ wifi'.sta = wifi.sta /\ wifi'.ap = wifi.ap
           /\ evq' = IF HasSta(wifi.mode)
                     THEN Append(evq, "sta_start") ELSE evq
BY Cat DEF esp_wifi_start, Driver, Events

LEMMA SetModeDoes ==
    ASSUME wifi \in Driver, evq \in Seq(Events), NEW m \in Modes,
           esp_wifi_set_mode(m)
    PROVE  /\ wifi' \in Driver /\ wifi'.mode = m /\ wifi'.on = wifi.on
           /\ wifi'.sta = wifi.sta /\ wifi'.ap = wifi.ap
           /\ wifi'.link = IF HasSta(m) THEN wifi.link ELSE "down"
           /\ \/ evq' = evq /\ (wifi'.link = "down" => wifi.link = "down")
              \/ evq' = Append(evq, "sta_start") /\ wifi'.link = wifi.link
              \/ evq' = Append(evq, "disconnected")
           /\ HasSta(m) /\ wifi.on /\ ~HasSta(wifi.mode) =>
                 evq' = Append(evq, "sta_start")
<1>1. /\ wifi' \in Driver /\ wifi'.mode = m /\ wifi'.on = wifi.on
      /\ wifi'.sta = wifi.sta /\ wifi'.ap = wifi.ap
      /\ wifi'.link = IF HasSta(m) THEN wifi.link ELSE "down"
  BY DEF esp_wifi_set_mode, Driver
<1>2. CASE ~HasSta(m)
  BY <1>1, <1>2, Cat DEF esp_wifi_set_mode, Lost, Events
<1>3. CASE HasSta(m)
  BY <1>1, <1>3, Cat DEF esp_wifi_set_mode, Events
<1> QED BY <1>1, <1>2, <1>3

LEMMA StartApDoes ==
    ASSUME wifi \in Driver, NEW ap \in ApConfigs, start_ap(ap)
    PROVE  /\ wifi' \in Driver /\ wifi'.link = wifi.link /\ wifi'.on = wifi.on
           /\ wifi'.mode = wifi.mode /\ wifi'.sta = wifi.sta
           /\ HasAp(wifi.mode) => wifi'.ap = ap \/ refused'
           /\ ~HasAp(wifi.mode) => /\ wifi'.ap = wifi.ap
                                   /\ ~refused' => ~refused
BY DEF start_ap, ApTaken, ApRefused, Driver

\* A configuration that is stored is offered to the driver, which takes it and
\* lets the request go on, or not.
LEMMA UpdateDoes ==
    ASSUME UpdateAp
    PROVE  /\ \E ap \in ApConfigs : ap_stored' = ap /\ start_ap(ap)
           /\ httpd.at = "idle"
           /\ httpd' = httpd \/ httpd' = Answered
BY DEF UpdateAp, Request, start_ap

LEMMA NetworkDoes ==
    ASSUME wifi \in Driver, evq \in Seq(Events), Network
    PROVE  /\ wifi' \in Driver /\ wifi.link # "down"
           /\ wifi'.mode = wifi.mode /\ wifi'.on = wifi.on
           /\ wifi'.sta = wifi.sta /\ wifi'.ap = wifi.ap
           /\ \/ evq' = evq /\ wifi'.link # "down"
              \/ evq' = Append(evq, "got_ip") /\ wifi'.link # "down"
              \/ evq' = Append(evq, "disconnected") /\ wifi'.link = "down"
<1>1. CASE esp_wifi_disconnect
  BY <1>1, DisconnectDoes DEF Network
<1>2. CASE \/ wifi' = [wifi EXCEPT !.link = "joined"] /\ UNCHANGED evq
           \/ /\ wifi' = [wifi EXCEPT !.link = "up"]
              /\ evq' = Append(evq, "got_ip")
  BY <1>2 DEF Network, Driver
<1> QED BY <1>1, <1>2 DEF Network

-------------------------------------------------------------------------------
(* The queue of events                                                     *)

\* What a step may do to the queue and the link at once.
Posts ==
    \/ evq' = evq /\ (wifi'.link = "down" => wifi.link = "down")
    \/ /\ evq' = Append(evq, "sta_start")
       /\ wifi'.link = "down" => wifi.link = "down"
    \/ evq' = Append(evq, "got_ip") /\ wifi'.link # "down"
    \/ evq' = Append(evq, "disconnected")
Handles ==
    /\ evq # <<>> /\ evq' = Tail(evq)
    /\ wifi'.link = "down" => wifi.link = "down"

LEMMA PostsKeep ==
    ASSUME evq \in Seq(Events), Posts
    PROVE  evq' \in Seq(Events) /\ (LostInv => LostInv') /\ (News => News')
<1>1. /\ Len(evq) \in Nat
      /\ \A e \in Events :
            /\ Append(evq, e) \in Seq(Events)
            /\ Len(Append(evq, e)) = Len(evq) + 1
            /\ Append(evq, e)[Len(evq) + 1] = e
            /\ \A i \in 1..Len(evq) : Append(evq, e)[i] = evq[i]
  BY DEF Events
<1>2. CASE evq' = evq /\ (wifi'.link = "down" => wifi.link = "down")
  BY <1>2 DEF LostInv, News
<1>3. ASSUME NEW e \in {"sta_start", "got_ip"}, evq' = Append(evq, e),
             wifi'.link = "down" => wifi.link = "down" /\ e # "got_ip"
      PROVE  evq' \in Seq(Events) /\ (LostInv => LostInv') /\ (News => News')
  BY <1>1, <1>3 DEF LostInv, News, Events
<1>4. CASE evq' = Append(evq, "disconnected")
  <2>1. "disconnected" \in Events
    BY DEF Events
  <2>2. LostInv'
    BY <1>1, <1>4, <2>1 DEF LostInv
  <2> QED BY <1>1, <1>4, <2>1, <2>2 DEF News
<1> QED BY <1>2, <1>3, <1>4 DEF Posts

LEMMA HandlesKeep ==
    ASSUME evq \in Seq(Events), Handles
    PROVE  /\ evq' \in Seq(Events) /\ (LostInv => LostInv')
           /\ Head(evq) = "got_ip" /\ News => News'
           /\ Head(evq) = "got_ip" /\ wifi.link = "down" /\ LostInv => News'
<1>1. /\ Len(evq) \in Nat \ {0} /\ evq' \in Seq(Events)
      /\ Len(evq') = Len(evq) - 1 /\ Head(evq) = evq[1]
      /\ \A i \in 1..Len(evq') : evq'[i] = evq[i + 1]
  BY DEF Handles
<1>2. \A i \in 2..Len(evq) : i - 1 \in 1..Len(evq') /\ evq'[i - 1] = evq[i]
  BY <1>1
<1>3. LostInv => LostInv'
  <2> SUFFICES ASSUME LostInv, wifi.link = "down", NEW i \in 1..Len(evq'),
                      evq'[i] = "got_ip"
               PROVE  \E j \in i + 1..Len(evq') : evq'[j] = "disconnected"
    BY DEF LostInv, Handles
  <2>1. i + 1 \in 1..Len(evq) /\ evq[i + 1] = "got_ip"
    BY <1>1
  <2>2. PICK j \in i + 2..Len(evq) : evq[j] = "disconnected"
    BY <2>1 DEF LostInv
  <2>3. j - 1 \in i + 1..Len(evq') /\ evq'[j - 1] = "disconnected"
    BY <1>1, <1>2, <2>2
  <2> QED BY <2>3
<1>4. Head(evq) = "got_ip" /\ News => News'
  <2> SUFFICES ASSUME Head(evq) = "got_ip", News PROVE News'
    OBVIOUS
  <2>1. PICK i \in 1..Len(evq) : evq[i] \in {"sta_start", "disconnected"}
    BY DEF News
  <2>2. i \in 2..Len(evq)
    BY <1>1, <2>1
  <2> QED BY <1>2, <2>1, <2>2 DEF News
<1>5. Head(evq) = "got_ip" /\ wifi.link = "down" /\ LostInv => News'
  <2> SUFFICES ASSUME Head(evq) = "got_ip", wifi.link = "down", LostInv
               PROVE  News'
    OBVIOUS
  <2>1. PICK j \in 2..Len(evq) : evq[j] = "disconnected"
    BY <1>1 DEF LostInv
  <2> QED BY <1>2, <2>1 DEF News
<1> QED BY <1>1, <1>3, <1>4, <1>5

\* The driver is started where a request does it, and nowhere else.
Starts == httpd.at \in {"wifistart", "start"} /\ httpd'.at = "answered"

LEMMA DriverStep ==
    ASSUME wifi \in Driver, evq \in Seq(Events), ap_stored \in ApConfigs,
           event.at = "ap" => event.ap \in ApConfigs, Next
    PROVE  /\ wifi' \in Driver /\ (Posts \/ Handles) /\ (LinkInv => LinkInv')
           /\ wifi'.on => wifi.on \/ Starts
<1> USE DEF LinkInv
<1>0. {"AP", "STA", "AP_STA"} = Modes
  BY DEF Modes
<1>1. CASE Network
  BY <1>1, NetworkDoes DEF Posts
<1>2. CASE StaStart \/ Retry
  BY <1>2, ConnectDoes DEF StaStart, Retry, Take, Handles
<1>3. CASE IgnoreDisconnect \/ GiveUp \/ GotIp
  BY <1>3 DEF IgnoreDisconnect, GiveUp, GotIp, Take, Handles
<1>4. CASE FallbackMode \/ ApOff
  BY <1>0, <1>4, SetModeDoes DEF FallbackMode, ApOff, Posts
<1>5. CASE FallbackAp
  BY <1>5, StartApDoes DEF FallbackAp, Posts
<1>6. CASE FallbackStatus \/ ApOffStatus \/ Watchdog
  BY <1>6 DEF FallbackStatus, ApOffStatus, Watchdog, Posts
<1>7. CASE WatchdogConnect
  BY <1>7, ConnectDoes DEF WatchdogConnect, Posts
<1>8. CASE ConnectMode \/ ApMode
  BY <1>0, <1>8, SetModeDoes DEF ConnectMode, ApMode, Posts
<1>9. CASE ConnectAp \/ Report
  BY <1>9, StartApDoes DEF ConnectAp, Report, Posts
<1>10. CASE CallFails \/ NextRequest \/ DisconnectSta
  BY <1>10 DEF CallFails, NextRequest, DisconnectSta, Posts
<1>11. CASE ConnectConfig
  BY <1>11 DEF ConnectConfig, Posts, Driver
<1>12. CASE ConnectGo
  <2>1. CASE esp_wifi_connect /\ UNCHANGED evq
    BY <2>1, ConnectDoes DEF Posts
  <2>2. CASE httpd.at = "wifistart" /\ esp_wifi_start
    BY <1>12, <2>2, StartDoes DEF ConnectGo, Posts, Starts, Answered
  <2> QED BY <1>12, <2>1, <2>2 DEF ConnectGo
<1>13. CASE Leave
  BY <1>13, DisconnectDoes DEF Leave, Posts
<1>14. CASE Stop
  BY <1>14, StopDoes DEF Stop, Posts
<1>15. CASE StartAp
  BY <1>15, StartDoes DEF StartAp, Posts, Starts, Answered
<1>16. CASE ScanRestore
  BY <1>0, <1>16, SetModeDoes DEF ScanRestore, Posts
<1>17. CASE ScanEnd
  BY <1>17, ConnectDoes DEF ScanEnd, Posts
<1>18. CASE ConnectSta
  BY <1>18, StopDoes DEF ConnectSta, Posts
<1>19. CASE UpdateAp
  BY <1>19, StartApDoes, UpdateDoes DEF UpdateAp, Posts
<1>20. CASE Scan
  BY <1>0, <1>20, SetModeDoes, DisconnectDoes DEF Scan, Posts
<1> QED BY <1>1, <1>2, <1>3, <1>4, <1>5, <1>6, <1>7, <1>8, <1>9, <1>10, <1>11,
           <1>12, <1>13, <1>14, <1>15, <1>16, <1>17, <1>18, <1>19, <1>20
        DEF Next, EventTask, TimerTask, Httpd

-------------------------------------------------------------------------------
(* Types                                                                   *)

EventState == [at : {"idle", "fallback", "status", "ap", "apoff", "sta"},
               ap : ApConfigs \cup {0}]
HttpdState == [at : {"idle", "apsta", "apsta2", "setconfig", "connect",
                     "wifistart", "leave", "stop", "mode", "report",
                     "start", "scan", "scanned", "answered"},
               flag : BOOLEAN]
StatusType ==
    /\ mode \in Modes /\ sta_connected \in BOOLEAN
    /\ s_retry_count \in 0..MaxRetries
    /\ s_scanning \in BOOLEAN /\ armed \in BOOLEAN
    /\ sta_ssid \in {"none", "usable", "toolong"} /\ ap_stored \in ApConfigs
TaskType ==
    /\ event \in EventState /\ timer \in {"idle", "retry"}
    /\ httpd \in HttpdState
HistoryType ==
    /\ requests \in 0..MaxRequests
    /\ left \in BOOLEAN /\ raced \in BOOLEAN /\ crossed \in BOOLEAN
    /\ refused \in BOOLEAN
DriverType == wifi \in Driver /\ evq \in Seq(Events)

LEMMA TypeParts ==
    /\ TypeOK <=> DriverType /\ StatusType /\ TaskType /\ HistoryType
    /\ TypeOK' <=> DriverType' /\ StatusType' /\ TaskType' /\ HistoryType'
BY DEF TypeOK, DriverType, StatusType, TaskType, HistoryType, Driver, Events,
       EventState, HttpdState

LEMMA StatusStep == ASSUME StatusType, Next PROVE StatusType'
<1> USE RetriesAssumption DEF StatusType, status, config
<1>1. CASE Network \/ NextRequest \/ Leave \/ Stop \/ ApMode \/ StartAp
  BY <1>1 DEF Network, NextRequest, Leave, Stop, ApMode, StartAp, Unmoved
<1>2. CASE StaStart \/ IgnoreDisconnect \/ FallbackMode \/ ApOff
  <2>1. UNCHANGED <<mode, sta_connected, s_retry_count, s_scanning, armed,
                    sta_ssid, ap_stored>>
    BY <1>2 DEF StaStart, IgnoreDisconnect, FallbackMode, ApOff
  <2> QED BY <2>1
<1>3. CASE Retry \/ GotIp
  <2>1. UNCHANGED <<mode, s_scanning, sta_ssid, ap_stored>>
    BY <1>3 DEF Retry, GotIp
  <2>2. s_retry_count' \in 0..MaxRetries
    BY <1>3 DEF Retry, GotIp
  <2>3. sta_connected' \in BOOLEAN /\ armed' \in BOOLEAN
    BY <1>3 DEF Retry, GotIp
  <2> QED BY <2>1, <2>2, <2>3
<1>4. Armed \in BOOLEAN
  BY DEF Armed
<1>5. CASE GiveUp
  BY <1>4, <1>5 DEF GiveUp
<1>6. CASE FallbackStatus \/ ApOffStatus \/ FallbackAp
  <2>1. UNCHANGED <<sta_connected, s_retry_count, s_scanning, sta_ssid,
                    ap_stored>>
    BY <1>6 DEF FallbackStatus, ApOffStatus, FallbackAp
  <2>2. mode' \in Modes /\ armed' \in BOOLEAN
    BY <1>4, <1>6 DEF FallbackStatus, ApOffStatus, FallbackAp, Modes
  <2> QED BY <2>1, <2>2
<1>7. CASE TimerTask
  <2>1. UNCHANGED <<mode, sta_connected, s_scanning, sta_ssid, ap_stored>>
    BY <1>7 DEF TimerTask, Watchdog, WatchdogConnect
  <2>2. s_retry_count' \in 0..MaxRetries
    BY <1>7 DEF TimerTask, Watchdog, WatchdogConnect
  <2>3. armed' \in BOOLEAN
    BY <1>7 DEF TimerTask, Watchdog, WatchdogConnect
  <2> QED BY <2>1, <2>2, <2>3
<1>8. CASE ConnectMode \/ ConnectAp \/ CallFails \/ ConnectConfig \/ ConnectGo
  BY <1>8 DEF ConnectMode, ConnectAp, CallFails, ConnectConfig, ConnectGo,
              Unmoved, Modes
<1>9. CASE Report \/ ScanRestore \/ ScanEnd
  BY <1>9 DEF Report, ScanRestore, ScanEnd, Unmoved, Modes
<1>10. CASE ConnectSta \/ DisconnectSta \/ UpdateAp \/ Scan
  BY <1>10 DEF ConnectSta, DisconnectSta, UpdateAp, Scan
<1> QED BY <1>1, <1>2, <1>3, <1>5, <1>6, <1>7, <1>8, <1>9, <1>10
        DEF Next, EventTask, Httpd

LEMMA TaskTypeStep == ASSUME StatusType, TaskType, Next PROVE TaskType'
<1> USE DEF TaskType, StatusType
<1>1. /\ IdleEvent \in EventState
      /\ [at |-> "ap", ap |-> ap_stored] \in EventState
  BY DEF IdleEvent, EventState
<1>2. \A step \in {"idle", "fallback", "status", "ap", "apoff", "sta"} :
          [event EXCEPT !.at = step] \in EventState
  BY DEF EventState
<1>3. CASE \/ StaStart \/ IgnoreDisconnect \/ Retry \/ GiveUp \/ GotIp
           \/ FallbackMode \/ FallbackStatus \/ FallbackAp \/ ApOff
           \/ ApOffStatus
  <2>1. event' \in EventState
    <3>1. CASE GotIp
      <4>1. [event EXCEPT !.at = IF mode = "AP_STA" THEN "apoff" ELSE @]
            \in EventState
        BY DEF EventState
      <4> QED BY <3>1, <4>1 DEF GotIp
    <3>2. CASE ~GotIp
      BY <1>1, <1>2, <1>3, <3>2
         DEF StaStart, IgnoreDisconnect, Retry, GiveUp, FallbackMode,
             FallbackStatus, FallbackAp, ApOff, ApOffStatus
    <3> QED BY <3>1, <3>2
  <2>2. UNCHANGED <<timer, httpd>>
    BY <1>3 DEF StaStart, IgnoreDisconnect, Retry, GiveUp, GotIp, FallbackMode,
                FallbackStatus, FallbackAp, ApOff, ApOffStatus
  <2> QED BY <2>1, <2>2
<1>4. CASE Network \/ TimerTask
  BY <1>4 DEF Network, TimerTask, Watchdog, WatchdogConnect
<1>5. CASE Httpd \/ ConnectSta \/ DisconnectSta \/ UpdateAp \/ Scan
  <2>1. UNCHANGED <<event, timer>>
    BY <1>5 DEF Httpd, ConnectMode, ConnectAp, CallFails, ConnectConfig,
                ConnectGo, Leave, Stop, ApMode, Report, StartAp, ScanRestore,
                ScanEnd, NextRequest, ConnectSta, DisconnectSta, UpdateAp,
                Scan, Unmoved
  <2>2. /\ IdleHttpd \in HttpdState /\ Answered \in HttpdState
        /\ \A flag \in BOOLEAN :
              /\ [at |-> "setconfig", flag |-> flag] \in HttpdState
              /\ [at |-> "apsta", flag |-> flag] \in HttpdState
              /\ [at |-> "scan", flag |-> flag] \in HttpdState
        /\ \A step \in {"apsta2", "setconfig", "connect", "wifistart", "leave",
                        "stop", "mode", "report", "start", "scanned"} :
              [httpd EXCEPT !.at = step] \in HttpdState
    BY DEF IdleHttpd, Answered, HttpdState
  <2>3. httpd' \in HttpdState
    <3>1. CASE Httpd
      BY <2>2, <3>1 DEF Httpd, ConnectMode, ConnectAp, CallFails,
            ConnectConfig, ConnectGo, Leave, Stop, ApMode, Report, StartAp,
            ScanRestore, ScanEnd, NextRequest, Goto
    <3>2. CASE ConnectSta \/ DisconnectSta \/ UpdateAp
      BY <2>2, <3>2 DEF ConnectSta, DisconnectSta, UpdateAp, Goto
    <3>3. CASE Scan
      <4>1. (wifi.mode = "AP") \in BOOLEAN
        OBVIOUS
      <4> QED BY <2>2, <3>3, <4>1 DEF Scan
    <3> QED BY <1>5, <3>1, <3>2, <3>3
  <2> QED BY <2>1, <2>3
<1> QED BY <1>3, <1>4, <1>5 DEF Next, EventTask

LEMMA HistoryStep == ASSUME HistoryType, Next PROVE HistoryType'
<1> USE BoundsAssumption DEF HistoryType, history
<1>1. Raced \in BOOLEAN
  BY DEF Raced
<1>2. CASE Network \/ TimerTask
  BY <1>2 DEF Network, TimerTask, Watchdog, WatchdogConnect
<1>3. CASE EventTask
  BY <1>1, <1>3 DEF EventTask, StaStart, IgnoreDisconnect, Retry, GiveUp,
      GotIp, FallbackMode, FallbackStatus, FallbackAp, ApOff, ApOffStatus,
      start_ap, ApTaken, ApRefused
<1>4. CASE Httpd
  BY <1>1, <1>4 DEF Httpd, ConnectMode, ConnectAp, CallFails,
      ConnectConfig, ConnectGo, Leave, Stop, ApMode, Report, StartAp,
      ScanRestore, ScanEnd, NextRequest, Unmoved, start_ap, ApTaken, ApRefused
<1>5. CASE ConnectSta \/ DisconnectSta \/ UpdateAp \/ Scan
  <2>1. requests' \in 0..MaxRequests
    BY <1>5 DEF ConnectSta, DisconnectSta, UpdateAp, Scan, Request
  <2>2. left' \in BOOLEAN /\ raced' \in BOOLEAN /\ crossed' \in BOOLEAN
    BY <1>5 DEF ConnectSta, DisconnectSta, UpdateAp, Scan
  <2>3. refused' \in BOOLEAN
    BY <1>5 DEF ConnectSta, DisconnectSta, UpdateAp, Scan, ApTaken, ApRefused
  <2> QED BY <2>1, <2>2, <2>3
<1> QED BY <1>2, <1>3, <1>4, <1>5 DEF Next

LEMMA TypeStep == ASSUME IInv, [Next]_vars PROVE TypeOK'
<1>1. CASE UNCHANGED vars
  BY <1>1 DEF IInv, TypeOK, vars, status, config, history
<1>2. CASE Next
  <2>1. DriverType /\ StatusType /\ TaskType /\ HistoryType
    BY TypeParts DEF IInv
  <2>2. DriverType'
    <3>1. wifi' \in Driver /\ (Posts \/ Handles)
      BY <1>2, <2>1, DriverStep DEF DriverType, StatusType, IInv, TaskInv
    <3> QED BY <2>1, <3>1, PostsKeep, HandlesKeep DEF DriverType
  <2> QED BY <1>2, <2>1, <2>2, StatusStep, TaskTypeStep, HistoryStep, TypeParts
<1> QED BY <1>1, <1>2

-------------------------------------------------------------------------------
(* The driver and its queue                                                *)

LEMMA DriverInvStep == ASSUME IInv, [Next]_vars PROVE LinkInv' /\ LostInv'
<1>1. CASE UNCHANGED vars
  BY <1>1 DEF IInv, LinkInv, LostInv, vars
<1>2. CASE Next
  <2>1. DriverType /\ StatusType
    BY TypeParts DEF IInv
  <2>2. (Posts \/ Handles) /\ (LinkInv => LinkInv')
    BY <1>2, <2>1, DriverStep DEF DriverType, StatusType, IInv, TaskInv
  <2> QED BY <2>1, <2>2, PostsKeep, HandlesKeep DEF DriverType, IInv
<1> QED BY <1>1, <1>2

-------------------------------------------------------------------------------
(* The tasks                                                               *)

LEMMA TaskStep == ASSUME IInv, [Next]_vars PROVE TaskInv'
<1> USE DEF TaskInv, FallingBack, Joining, Leaving, Scanning, status, config,
            history
<1>0. event \in EventState /\ httpd \in HttpdState /\ ap_stored \in ApConfigs
  BY TypeParts DEF IInv, TaskType, StatusType
<1>1. CASE UNCHANGED <<event, httpd, s_scanning, sta_ssid, sta_connected,
                       armed>>
  BY <1>1 DEF IInv
<1>2. CASE Retry
  BY <1>2 DEF IInv, Retry, Take
<1>3. CASE GiveUp
  <2>1. ~sta_connected' /\ event'.at # "ap"
        /\ UNCHANGED <<httpd, s_scanning, sta_ssid>>
    BY <1>0, <1>3 DEF GiveUp, EventState, Take
  <2> QED BY <2>1 DEF IInv
<1>4. CASE FallbackMode \/ FallbackStatus \/ FallbackAp
  <2>1. /\ FallingBack /\ event'.at \in {"status", "ap", "idle"}
        /\ event'.at = "ap" => event'.ap \in ApConfigs
        /\ UNCHANGED <<httpd, s_scanning, sta_ssid, sta_connected>>
    BY <1>0, <1>4 DEF FallbackMode, FallbackStatus, FallbackAp, EventState,
                      IdleEvent
  <2> QED BY <2>1 DEF IInv
<1>5. CASE GotIp
  <2>1. /\ event'.at \in {"idle", "apoff"} /\ armed' = FALSE
        /\ UNCHANGED <<httpd, s_scanning, sta_ssid>>
    BY <1>0, <1>5 DEF GotIp, Take, EventState
  <2> QED BY <2>1 DEF IInv
<1>6. CASE ApOff \/ ApOffStatus
  <2>1. /\ event'.at \in {"idle", "sta"} /\ event.at \in {"apoff", "sta"}
        /\ UNCHANGED <<httpd, s_scanning, sta_ssid, sta_connected, armed>>
    BY <1>0, <1>6 DEF ApOff, ApOffStatus, EventState, IdleEvent
  <2> QED BY <2>1 DEF IInv
<1>7. CASE TimerTask
  <2>1. /\ armed' => armed
        /\ UNCHANGED <<event, httpd, s_scanning, sta_ssid, sta_connected>>
    BY <1>7 DEF TimerTask, Watchdog, WatchdogConnect
  <2> QED BY <2>1 DEF IInv
<1>8. CASE ConnectMode \/ ConnectAp \/ ConnectConfig \/ ConnectGo
  <2>1. /\ Joining
        /\ httpd'.at \in {"apsta2", "setconfig", "connect", "wifistart",
                          "answered"}
        /\ UNCHANGED <<event, s_scanning, sta_ssid, sta_connected, armed>>
    BY <1>0, <1>8 DEF ConnectMode, ConnectAp, ConnectConfig, ConnectGo, Goto,
                      Unmoved, Answered, HttpdState
  <2> QED BY <2>1 DEF IInv
<1>9. CASE Leave \/ Stop \/ ApMode \/ Report \/ StartAp
  <2>1. /\ Leaving
        /\ httpd'.at \in {"stop", "mode", "report", "start", "answered"}
        /\ UNCHANGED <<event, s_scanning, sta_ssid, armed>>
        /\ sta_connected' = sta_connected \/ sta_connected' = FALSE
    BY <1>0, <1>9 DEF Leave, Stop, ApMode, Report, StartAp, Goto, Unmoved,
                      Answered, HttpdState
  <2> QED BY <2>1 DEF IInv
<1>10. CASE ScanRestore
  <2>1. /\ httpd.at = "scan" /\ httpd'.at = "scanned"
        /\ UNCHANGED <<event, s_scanning, sta_ssid, sta_connected, armed>>
    BY <1>0, <1>10 DEF ScanRestore, Goto, Unmoved, HttpdState
  <2> QED BY <2>1 DEF IInv
<1>11. CASE ScanEnd
  <2>1. /\ httpd'.at = "answered" /\ ~s_scanning'
        /\ UNCHANGED <<event, sta_ssid, sta_connected, armed>>
    BY <1>11 DEF ScanEnd, Answered
  <2> QED BY <2>1 DEF IInv
<1>12. CASE NextRequest
  <2>1. /\ httpd.at = "answered" /\ httpd'.at = "idle"
        /\ UNCHANGED <<event, s_scanning, sta_ssid, sta_connected, armed>>
    BY <1>12 DEF NextRequest, IdleHttpd, Unmoved
  <2> QED BY <2>1 DEF IInv
<1>13. CASE ConnectSta
  <2>1. /\ httpd.at = "idle" /\ httpd'.at \in {"setconfig", "apsta"}
        /\ sta_ssid' = "usable"
        /\ UNCHANGED <<event, s_scanning, sta_connected, armed>>
    BY <1>13 DEF ConnectSta, Request
  <2> QED BY <2>1 DEF IInv
<1>14. CASE DisconnectSta
  <2>1. /\ httpd.at = "idle" /\ httpd'.at = "leave" /\ sta_ssid' = "none"
        /\ UNCHANGED <<event, s_scanning, sta_connected>> /\ armed' = FALSE
    BY <1>0, <1>14 DEF DisconnectSta, Request, Goto, HttpdState
  <2> QED BY <2>1 DEF IInv
<1>15. CASE UpdateAp
  <2>1. /\ httpd.at = "idle" /\ httpd'.at \in {"idle", "answered"}
        /\ UNCHANGED <<event, s_scanning, sta_ssid, sta_connected, armed>>
    BY <1>15, UpdateDoes DEF UpdateAp, Answered
  <2> QED BY <2>1 DEF IInv
<1>16. CASE Scan
  <2>1. /\ httpd.at = "idle" /\ httpd'.at = "scan" /\ s_scanning'
        /\ UNCHANGED <<event, sta_ssid, sta_connected, armed>>
    BY <1>16 DEF Scan, Request
  <2> QED BY <2>1 DEF IInv
<1>17. CASE StaStart \/ IgnoreDisconnect \/ Network
  BY <1>17 DEF StaStart, IgnoreDisconnect, Network, IInv
<1>18. CASE CallFails
  <2>1. /\ Joining \/ Leaving
        /\ httpd'.at = "answered"
        /\ UNCHANGED <<event, s_scanning, sta_ssid, sta_connected, armed>>
    BY <1>18 DEF CallFails, Unmoved, Answered
  <2> QED BY <2>1 DEF IInv
<1> QED BY <1>1, <1>2, <1>3, <1>4, <1>5, <1>6, <1>7, <1>8, <1>9, <1>10, <1>11,
           <1>12, <1>13, <1>14, <1>15, <1>16, <1>17, <1>18
        DEF Next, EventTask, Httpd, vars

-------------------------------------------------------------------------------
(* The mode                                                                *)

LEMMA EventAt ==
    ASSUME event \in EventState
    PROVE  /\ \A step : /\ [event EXCEPT !.at = step].at = step
                        /\ [event EXCEPT !.at = step].ap = event.ap
           /\ IdleEvent.at = "idle"
BY DEF EventState, IdleEvent

LEMMA HttpdAt ==
    ASSUME httpd \in HttpdState
    PROVE  /\ \A step : /\ [httpd EXCEPT !.at = step].at = step
                        /\ [httpd EXCEPT !.at = step].flag = httpd.flag
           /\ IdleHttpd.at = "idle" /\ Answered.at = "answered"
BY DEF HttpdState, IdleHttpd, Answered

LEMMA StartsStep ==
    ASSUME IInv, [Next]_vars PROVE wifi'.on => wifi.on \/ Starts
<1>1. CASE UNCHANGED vars
  BY <1>1 DEF vars
<1>2. CASE Next
  BY <1>2, DriverStep, TypeParts DEF IInv, DriverType, StatusType, TaskInv
<1> QED BY <1>1, <1>2

LEMMA StoppedStep == ASSUME IInv, [Next]_vars PROVE StoppedInv'
<1> USE DEF StoppedInv, Stopped
<1>0. /\ httpd \in HttpdState /\ wifi \in Driver /\ evq \in Seq(Events)
      /\ StoppedInv /\ (wifi'.on => wifi.on \/ Starts)
  BY StartsStep, TypeParts DEF IInv, TaskType, DriverType
<1>1. CASE httpd' = httpd
  BY <1>0, <1>1 DEF Starts
<1>2. ASSUME httpd'.at \in {"idle", "connect", "leave", "stop", "scan",
                           "scanned", "answered"}
      PROVE  StoppedInv'
  BY <1>2
<1>3. CASE ConnectMode \/ ConnectAp
  <2>1. /\ httpd.at \in {"apsta", "apsta2"} /\ httpd'.flag = httpd.flag
        /\ httpd'.at \in {"apsta2", "setconfig"}
    BY <1>0, <1>3, HttpdAt DEF ConnectMode, ConnectAp, Goto
  <2> QED BY <1>0, <2>1 DEF Starts
<1>4. CASE ConnectConfig
  <2>1. /\ httpd.at = "setconfig"
        /\ httpd'.at = IF httpd.flag THEN "connect" ELSE "wifistart"
    BY <1>0, <1>4, HttpdAt DEF ConnectConfig, Goto
  <2> QED BY <1>0, <2>1 DEF Starts
<1>5. CASE Stop
  <2>1. httpd'.at = "mode" /\ wifi'.on = FALSE
    BY <1>0, <1>5, HttpdAt, StopDoes DEF Stop, Goto
  <2> QED BY <2>1
<1>6. CASE ApMode \/ Report
  <2>1. httpd.at \in {"mode", "report"} /\ httpd'.at \in {"report", "start"}
    BY <1>0, <1>6, HttpdAt DEF ApMode, Report, Goto
  <2> QED BY <1>0, <2>1 DEF Starts
<1>7. CASE ConnectSta
  <2>1. CASE mode = "AP_STA"
    <3>1. httpd'.at = "setconfig" /\ httpd'.flag = TRUE
      BY <1>7, <2>1 DEF ConnectSta
    <3> QED BY <3>1
  <2>2. CASE mode # "AP_STA"
    <3>1. httpd' = [at |-> "apsta", flag |-> FALSE] /\ esp_wifi_stop
      BY <1>7, <2>2 DEF ConnectSta
    <3>2. httpd'.at = "apsta" /\ ~httpd'.flag
      BY <3>1
    <3>3. ~wifi'.on
      BY <1>0, <3>1, StopDoes
    <3> QED BY <3>2, <3>3
  <2> QED BY <2>1, <2>2
<1>8. CASE CallFails \/ ConnectGo \/ StartAp \/ ScanEnd \/ NextRequest \/ Scan
  <2>1. httpd'.at \in {"answered", "idle", "scan"}
    BY <1>8 DEF CallFails, ConnectGo, StartAp, ScanEnd, NextRequest, Scan,
                Answered, IdleHttpd
  <2> QED BY <1>2, <2>1
<1>9. CASE Leave \/ ScanRestore \/ DisconnectSta
  <2>1. httpd'.at \in {"stop", "scanned", "leave"}
    BY <1>0, <1>9, HttpdAt DEF Leave, ScanRestore, DisconnectSta, Goto
  <2> QED BY <1>2, <2>1
<1>10. CASE UpdateAp
  BY <1>1, <1>2, <1>10, UpdateDoes DEF Answered
<1>11. CASE Network \/ EventTask \/ TimerTask \/ UNCHANGED vars
  BY <1>1, <1>11 DEF Network, EventTask, StaStart, IgnoreDisconnect, Retry,
      GiveUp, GotIp, FallbackMode, FallbackStatus, FallbackAp, ApOff,
      ApOffStatus, TimerTask, Watchdog, WatchdogConnect, vars
<1> QED BY <1>3, <1>4, <1>5, <1>6, <1>7, <1>8, <1>9, <1>10, <1>11
        DEF Next, Httpd

LEMMA ModeStep == ASSUME IInv, [Next]_vars PROVE ModeInv'
<1> USE DEF ModeInv, SettingMode, Starts
<1>0. /\ event \in EventState /\ httpd \in HttpdState /\ ModeInv /\ TaskInv
      /\ LeftInv /\ (wifi'.on => wifi.on \/ Starts)
  BY StartsStep, TypeParts DEF IInv, TaskType
<1>1. CASE UNCHANGED <<mode, sta_ssid, event, httpd, raced>>
  BY <1>0, <1>1
<1>2. CASE GiveUp \/ GotIp
  <2>1. UNCHANGED <<mode, sta_ssid, httpd, raced>>
    BY <1>2 DEF GiveUp, GotIp, config, history
  <2>2. mode = "AP" => event' = event
    BY <1>0, <1>2 DEF GiveUp, GotIp, EventState
  <2> QED BY <1>0, <2>1, <2>2
<1>3. CASE FallbackMode \/ ApOff
  <2>1. /\ SettingMode /\ UNCHANGED <<mode, sta_ssid, httpd, raced>>
    BY <1>3 DEF FallbackMode, ApOff, status, config, history
  <2> QED BY <1>0, <2>1
<1>4. CASE FallbackStatus \/ ApOffStatus
  <2>1. /\ SettingMode /\ raced' = Raced /\ UNCHANGED <<sta_ssid, httpd>>
    BY <1>4 DEF FallbackStatus, ApOffStatus, config
  <2> QED BY <1>0, <2>1 DEF Raced
<1>5. CASE FallbackAp
  <2>1. event'.at = "idle" /\ event.at = "ap"
        /\ UNCHANGED <<mode, sta_ssid, httpd, raced>>
    BY <1>0, <1>5, EventAt DEF FallbackAp, status, config, history
  <2> QED BY <1>0, <2>1
<1>6. CASE ConnectMode \/ ConnectAp \/ ConnectConfig \/ ConnectGo
  <2>1. Joining /\ sta_ssid' = sta_ssid
    BY <1>6 DEF ConnectMode, ConnectAp, ConnectConfig, ConnectGo, Unmoved,
                config, Joining
  <2>2. sta_ssid' = "usable"
    BY <1>0, <2>1 DEF TaskInv
  <2> QED BY <2>2
<1>7. CASE Leave \/ DisconnectSta
  <2>1. httpd'.at \in {"leave", "stop"}
    BY <1>0, <1>7 DEF Leave, DisconnectSta, Goto, HttpdState
  <2> QED BY <2>1
<1>8. CASE Stop \/ ApMode \/ Report
  <2>1. httpd'.at \in {"mode", "report", "start"}
    BY <1>0, <1>8 DEF Stop, ApMode, Report, Goto, HttpdState
  <2>2. ~wifi'.on
    BY <2>1, StoppedStep DEF StoppedInv, Stopped
  <2> QED BY <2>2
<1>9. CASE StartAp
  <2>1. /\ httpd.at = "start" /\ raced' = Raced
        /\ UNCHANGED <<mode, sta_ssid, event>>
    BY <1>9 DEF StartAp, status, config
  <2> QED BY <1>0, <2>1 DEF Raced, LeftInv
<1>10. CASE ScanRestore \/ ScanEnd \/ NextRequest \/ Scan
  <2>1. /\ httpd.at \in {"scan", "scanned", "answered", "idle"}
        /\ UNCHANGED <<mode, sta_ssid, event, raced>>
    BY <1>10 DEF ScanRestore, ScanEnd, NextRequest, Scan, Request, Unmoved,
                 status, config, history
  <2> QED BY <1>0, <2>1
<1>11. CASE ConnectSta
  BY <1>11 DEF ConnectSta
<1>12. CASE StaStart \/ IgnoreDisconnect \/ Retry
  BY <1>1, <1>12 DEF StaStart, IgnoreDisconnect, Retry, config, status, history
<1>13. CASE Network \/ TimerTask
  BY <1>1, <1>13 DEF Network, TimerTask, Watchdog, WatchdogConnect, config,
                     status, history
<1>14. CASE UpdateAp
  <2>1. httpd.at = "idle" /\ UNCHANGED <<mode, sta_ssid, event, raced>>
    BY <1>14, UpdateDoes DEF UpdateAp, status
  <2> QED BY <1>0, <2>1
<1>15. CASE CallFails
  <2>1. /\ httpd.at \notin {"leave", "stop"}
        /\ UNCHANGED <<wifi, mode, sta_ssid, event, raced>>
    BY <1>15 DEF CallFails, Unmoved, status, config, history
  <2> QED BY <1>0, <2>1
<1> QED BY <1>1, <1>2, <1>3, <1>4, <1>5, <1>6, <1>7, <1>8, <1>9, <1>10, <1>11,
           <1>12, <1>13, <1>14, <1>15
        DEF Next, EventTask, Httpd, vars, status, config, history

-------------------------------------------------------------------------------
(* The way back to AP mode                                                 *)

LEMMA LeftStep == ASSUME IInv, [Next]_vars PROVE LeftInv'
<1> USE DEF LeftInv, SettingMode
<1>0. /\ event \in EventState /\ httpd \in HttpdState /\ wifi \in Driver
      /\ evq \in Seq(Events) /\ ap_stored \in ApConfigs
      /\ {"AP", "STA", "AP_STA"} = Modes
      /\ LeftInv /\ TaskInv /\ ModeInv
  BY TypeParts DEF IInv, TaskType, DriverType, StatusType, Modes
<1>1. ASSUME wifi'.mode = wifi.mode, wifi'.on = wifi.on,
             UNCHANGED <<mode, event, httpd, left, raced>>
      PROVE  LeftInv'
  BY <1>0, <1>1
<1>2. CASE Network
  <2>1. UNCHANGED <<mode, event, httpd, left, raced>>
    BY <1>2 DEF Network, status, history
  <2> QED BY <1>0, <1>1, <1>2, <2>1, NetworkDoes
<1>3. CASE StaStart \/ Retry \/ IgnoreDisconnect
  <2>1. /\ UNCHANGED <<mode, event, httpd, left, raced>>
        /\ esp_wifi_connect \/ UNCHANGED wifi
    BY <1>3 DEF StaStart, Retry, IgnoreDisconnect, status, history
  <2> QED BY <1>0, <1>1, <2>1, ConnectDoes
<1>4. CASE TimerTask
  <2>1. /\ UNCHANGED <<mode, event, httpd, left, raced>>
        /\ esp_wifi_connect \/ UNCHANGED wifi
    BY <1>4 DEF TimerTask, Watchdog, WatchdogConnect, status, history
  <2> QED BY <1>0, <1>1, <2>1, ConnectDoes
<1>5. CASE UpdateAp
  <2>1. /\ UNCHANGED <<mode, event, left, raced>> /\ httpd.at = "idle"
        /\ httpd'.at \in {"idle", "answered"}
    BY <1>5, UpdateDoes DEF UpdateAp, status, Answered
  <2>2. wifi'.mode = wifi.mode /\ wifi'.on = wifi.on
    BY <1>0, <1>5, UpdateDoes, StartApDoes
  <2> QED BY <1>0, <2>1, <2>2
<1>6. CASE FallbackAp
  <2>1. /\ UNCHANGED <<mode, httpd, left, raced>>
        /\ event.at = "ap" /\ event'.at = "idle" /\ start_ap(event.ap)
    BY <1>0, <1>6, EventAt DEF FallbackAp, status, history
  <2>2. wifi'.mode = wifi.mode /\ wifi'.on = wifi.on
    BY <1>0, <2>1, StartApDoes DEF TaskInv
  <2> QED BY <1>0, <2>1, <2>2
<1>7. CASE GiveUp \/ GotIp
  <2>1. /\ UNCHANGED <<wifi, mode, httpd, left, raced>> /\ event.at = "idle"
        /\ event' = event \/ mode # "AP"
    BY <1>0, <1>7, EventAt DEF GiveUp, GotIp, Take, history, EventState
  <2>2. ~raced' => ~(left' /\ event' # event)
    BY <1>0, <2>1
  <2> QED BY <1>0, <2>1, <2>2
<1>8. CASE FallbackMode \/ ApOff
  <2>1. /\ UNCHANGED <<mode, httpd, left, raced>>
        /\ SettingMode /\ event'.at \in {"status", "sta"}
    BY <1>0, <1>8, EventAt DEF FallbackMode, ApOff, status, history
  <2> QED BY <1>0, <2>1
<1>9. CASE FallbackStatus \/ ApOffStatus
  <2>1. /\ UNCHANGED <<wifi, httpd, left>> /\ SettingMode /\ raced' = Raced
    BY <1>9 DEF FallbackStatus, ApOffStatus
  <2> QED BY <1>0, <2>1 DEF Raced
<1>10. CASE ConnectMode \/ ConnectAp \/ ConnectConfig \/ ConnectGo
  <2>1. Joining /\ left' = left /\ (raced' = raced \/ raced' = Raced)
        /\ httpd'.at \notin {"report", "start"}
    <3>1. CASE ConnectMode \/ ConnectAp
      BY <1>0, <3>1, HttpdAt
         DEF ConnectMode, ConnectAp, Unmoved, history, Goto, Joining
    <3>2. CASE ConnectConfig \/ ConnectGo
      BY <1>0, <3>2, HttpdAt
         DEF ConnectConfig, ConnectGo, Unmoved, history, Goto, Joining
    <3> QED BY <1>10, <3>1, <3>2
  <2>2. ~raced' => ~raced
    BY <2>1 DEF Raced
  <2>3. ~raced' => ~left'
    BY <1>0, <2>1, <2>2 DEF Joining
  <2> QED BY <2>1, <2>3
<1>11. CASE Leave \/ Stop
  <2>1. /\ httpd.at \in {"leave", "stop"} /\ httpd'.at \in {"stop", "mode"}
        /\ UNCHANGED <<left, raced>>
    BY <1>0, <1>11, HttpdAt DEF Leave, Stop, Goto, Unmoved, history
  <2>2. ~raced' => ~left'
    BY <1>0, <2>1
  <2> QED BY <2>1, <2>2
<1>12. CASE ApMode
  <2>1. /\ httpd.at = "mode" /\ httpd'.at = "report"
        /\ UNCHANGED <<left, raced>> /\ wifi'.mode = "AP"
    BY <1>0, <1>12, HttpdAt, SetModeDoes DEF ApMode, Goto, Unmoved, history
  <2>2. ~raced' => ~left'
    BY <1>0, <2>1
  <2> QED BY <2>1, <2>2
<1>13. CASE Report
  <2>1. /\ httpd.at = "report" /\ httpd'.at = "start" /\ mode' = "AP"
        /\ wifi'.mode = wifi.mode /\ UNCHANGED <<event, left, raced>>
    BY <1>0, <1>13, HttpdAt, StartApDoes DEF Report, Goto, history
  <2>2. ~raced' => ~left'
    BY <1>0, <2>1
  <2> QED BY <1>0, <2>1, <2>2
<1>14. CASE StartAp
  <2>1. /\ httpd.at = "start" /\ httpd'.at = "answered" /\ raced' = Raced
        /\ UNCHANGED <<mode, event>> /\ wifi'.mode = wifi.mode
        /\ wifi'.on = TRUE
    BY <1>0, <1>14, HttpdAt, StartDoes DEF StartAp, status
  <2>2. ~raced' => ~raced /\ ~SettingMode
    BY <2>1 DEF Raced
  <2> QED BY <1>0, <2>1, <2>2
<1>15. CASE ScanRestore
  <2>1. /\ httpd.at = "scan" /\ httpd'.at = "scanned"
        /\ UNCHANGED <<mode, event, left, raced>>
    BY <1>0, <1>15, HttpdAt DEF ScanRestore, Goto, Unmoved, status, history
  <2>2. /\ wifi'.on = wifi.on
        /\ IF httpd.flag THEN wifi'.mode = "AP" ELSE wifi' = wifi
    BY <1>0, <1>15, SetModeDoes DEF ScanRestore
  <2> QED BY <1>0, <2>1, <2>2
<1>16. CASE ScanEnd
  <2>1. /\ httpd.at = "scanned" /\ httpd'.at = "answered"
        /\ UNCHANGED <<mode, event, left, raced>>
        /\ esp_wifi_connect \/ UNCHANGED wifi
    BY <1>0, <1>16, HttpdAt DEF ScanEnd, status, history
  <2> QED BY <1>0, <2>1, ConnectDoes
<1>17. CASE NextRequest
  <2>1. /\ httpd.at = "answered" /\ httpd'.at = "idle"
        /\ UNCHANGED <<wifi, mode, event, left, raced>>
    BY <1>0, <1>17, HttpdAt DEF NextRequest, Unmoved, status, history
  <2> QED BY <1>0, <2>1
<1>18. CASE ConnectSta \/ DisconnectSta
  <2>1. left' = FALSE /\ httpd'.at \in {"setconfig", "apsta", "leave"}
    BY <1>0, <1>18 DEF ConnectSta, DisconnectSta, Goto, HttpdState
  <2> QED BY <2>1
<1>19. CASE Scan
  <2>1. /\ httpd.at = "idle"
        /\ httpd' = [at |-> "scan", flag |-> wifi.mode = "AP"]
        /\ UNCHANGED <<mode, event, left, raced>>
    BY <1>19 DEF Scan, Request, status
  <2>2. httpd'.at = "scan" /\ (httpd'.flag <=> wifi.mode = "AP")
    BY <2>1
  <2>3. wifi'.on = wifi.on
    BY <1>0, <1>19, SetModeDoes, DisconnectDoes DEF Scan
  <2> QED BY <1>0, <2>1, <2>2, <2>3
<1>20. CASE UNCHANGED vars
  BY <1>1, <1>20 DEF vars, status, history
<1>21. CASE CallFails
  <2>1. /\ Joining \/ Leaving
        /\ httpd'.at = "answered" /\ UNCHANGED <<left, raced>>
    BY <1>21 DEF CallFails, Unmoved, history, Joining, Leaving, Answered
  <2>2. ~raced' => ~left'
    BY <1>0, <2>1 DEF Joining, Leaving
  <2> QED BY <2>1, <2>2
<1> QED BY <1>2, <1>3, <1>4, <1>5, <1>6, <1>7, <1>8, <1>9, <1>10, <1>11, <1>12,
           <1>13, <1>14, <1>15, <1>16, <1>17, <1>18, <1>19, <1>20, <1>21
        DEF Next, EventTask, Httpd

-------------------------------------------------------------------------------
(* The access point                                                        *)

LEMMA ApStep == ASSUME IInv, [Next]_vars PROVE ApInv'
<1> USE DEF ApInv
<1>0. /\ event \in EventState /\ httpd \in HttpdState /\ wifi \in Driver
      /\ evq \in Seq(Events) /\ ap_stored \in ApConfigs
      /\ {"AP", "STA", "AP_STA"} = Modes
      /\ ApInv /\ TaskInv
  BY TypeParts DEF IInv, TaskType, DriverType, StatusType, Modes
<1>00. HasAp("AP") /\ HasAp("AP_STA") /\ ~HasAp("STA")
  BY DEF HasAp
<1>1. ASSUME HasAp(wifi'.mode) => HasAp(wifi.mode),
             HasAp(wifi.mode)
                => HasAp(wifi'.mode) \/ event'.at \notin {"status", "ap"},
             wifi'.ap = wifi.ap, UNCHANGED <<ap_stored, crossed, refused>>,
             \/ event' = event
             \/ /\ event.at \notin {"status", "ap"}
                /\ event'.at \notin {"status", "ap"},
             \/ httpd' = httpd
             \/ /\ httpd.at \notin {"apsta2", "report"}
                /\ httpd'.at # "scan"
      PROVE  ApInv'
  BY <1>0, <1>1
<1>2. CASE Network
  <2>1. UNCHANGED <<event, httpd, ap_stored, crossed, refused>>
    BY <1>2 DEF Network, config, history
  <2> QED BY <1>0, <1>1, <1>2, <2>1, NetworkDoes
<1>3. CASE StaStart \/ Retry \/ IgnoreDisconnect
  <2>1. /\ UNCHANGED <<event, httpd, ap_stored, crossed, refused>>
        /\ esp_wifi_connect \/ UNCHANGED wifi
    BY <1>3 DEF StaStart, Retry, IgnoreDisconnect, config, history
  <2> QED BY <1>0, <1>1, <2>1, ConnectDoes
<1>4. CASE TimerTask
  <2>1. /\ UNCHANGED <<event, httpd, ap_stored, crossed, refused>>
        /\ esp_wifi_connect \/ UNCHANGED wifi
    BY <1>4 DEF TimerTask, Watchdog, WatchdogConnect, config, history
  <2> QED BY <1>0, <1>1, <2>1, ConnectDoes
<1>5. CASE GiveUp \/ GotIp
  <2>1. /\ UNCHANGED <<wifi, httpd, ap_stored, crossed, refused>>
        /\ event.at = "idle" /\ event'.at \in {"idle", "fallback", "apoff"}
    <3>1. CASE GiveUp
      BY <1>0, <3>1, EventAt DEF GiveUp, Take, config, history
    <3>2. CASE GotIp
      BY <1>0, <3>2, EventAt DEF GotIp, Take, config, history
    <3> QED BY <1>5, <3>1, <3>2
  <2> QED BY <1>1, <2>1
<1>6. CASE FallbackMode
  <2>1. /\ UNCHANGED <<httpd, ap_stored, crossed, refused>>
        /\ event'.at = "status" /\ wifi'.mode = "AP_STA"
    BY <1>0, <1>6, EventAt, SetModeDoes DEF FallbackMode, config, history
  <2> QED BY <1>00, <2>1
<1>7. CASE FallbackStatus
  <2>1. /\ UNCHANGED <<wifi, httpd, ap_stored, crossed, refused>>
        /\ event.at = "status" /\ event' = [at |-> "ap", ap |-> ap_stored]
    BY <1>7 DEF FallbackStatus, config
  <2>2. event'.at = "ap" /\ event'.ap = ap_stored
    BY <2>1
  <2> QED BY <1>0, <2>1, <2>2
<1>8. CASE FallbackAp
  <2>1. /\ UNCHANGED <<httpd, ap_stored, crossed>> /\ event.at = "ap"
        /\ event'.at = "idle" /\ start_ap(event.ap)
    BY <1>0, <1>8, EventAt DEF FallbackAp, config, history
  <2>2. wifi'.mode = wifi.mode /\ (wifi'.ap = event.ap \/ refused')
    BY <1>0, <2>1, StartApDoes DEF TaskInv
  <2> QED BY <1>0, <2>1, <2>2
<1>9. CASE ApOff
  <2>1. /\ UNCHANGED <<httpd, ap_stored, crossed, refused>>
        /\ event.at = "apoff" /\ event'.at = "sta"
        /\ wifi'.mode = "STA" /\ wifi'.ap = wifi.ap
    BY <1>0, <1>9, EventAt, SetModeDoes DEF ApOff, config, history
  <2> QED BY <1>00, <1>1, <2>1
<1>10. CASE ApOffStatus
  <2>1. /\ UNCHANGED <<wifi, httpd, ap_stored, crossed, refused>>
        /\ event.at = "sta" /\ event'.at = "idle"
    BY <1>0, <1>10, EventAt DEF ApOffStatus, config
  <2> QED BY <1>1, <2>1
<1>11. CASE ConnectMode
  <2>1. /\ httpd'.at = "apsta2" /\ wifi'.mode = "AP_STA"
        /\ UNCHANGED <<event, ap_stored, crossed, refused>>
    BY <1>0, <1>11, HttpdAt, SetModeDoes
       DEF ConnectMode, Goto, Unmoved, config, history
  <2> QED BY <1>0, <1>00, <2>1
<1>12. CASE ConnectAp \/ Report
  <2>1. /\ httpd'.at \in {"setconfig", "start"} /\ start_ap(ap_stored)
        /\ UNCHANGED <<event, ap_stored, crossed>>
    BY <1>0, <1>12, HttpdAt DEF ConnectAp, Report, Goto, config, history
  <2> QED BY <1>0, <2>1, StartApDoes
<1>13. CASE CallFails \/ ConnectConfig
  <2>1. /\ httpd.at \notin {"apsta2", "report"} /\ httpd'.at # "scan"
        /\ UNCHANGED <<event, ap_stored, crossed, refused>>
    BY <1>0, <1>13, HttpdAt
       DEF CallFails, ConnectConfig, Goto, Unmoved, config, history
  <2>2. wifi'.mode = wifi.mode /\ wifi'.ap = wifi.ap
    BY <1>0, <1>13 DEF CallFails, ConnectConfig, Driver
  <2> QED BY <1>0, <1>1, <2>1, <2>2
<1>14. CASE ConnectGo
  <2>1. /\ httpd.at \in {"connect", "wifistart"} /\ httpd'.at = "answered"
        /\ UNCHANGED <<event, ap_stored, crossed, refused>>
        /\ esp_wifi_connect \/ esp_wifi_start
    BY <1>0, <1>14, HttpdAt DEF ConnectGo, Unmoved, config, history
  <2> QED BY <1>0, <1>1, <2>1, ConnectDoes, StartDoes
<1>15. CASE Leave \/ Stop \/ StartAp
  <2>1. /\ httpd.at \in {"leave", "stop", "start"}
        /\ httpd'.at \in {"stop", "mode", "answered"}
        /\ UNCHANGED <<event, ap_stored, crossed, refused>>
        /\ esp_wifi_disconnect \/ esp_wifi_stop \/ esp_wifi_start
    BY <1>0, <1>15, HttpdAt
       DEF Leave, Stop, StartAp, Goto, Unmoved, config, history
  <2> QED BY <1>0, <1>1, <2>1, DisconnectDoes, StopDoes, StartDoes
<1>16. CASE ApMode
  <2>1. /\ httpd'.at = "report" /\ wifi'.mode = "AP"
        /\ UNCHANGED <<event, ap_stored, crossed, refused>>
    BY <1>0, <1>16, HttpdAt, SetModeDoes
       DEF ApMode, Goto, Unmoved, config, history
  <2> QED BY <1>0, <1>00, <2>1
<1>17. CASE ScanRestore
  <2>1. /\ httpd.at = "scan" /\ httpd'.at = "scanned" /\ event.at = "idle"
        /\ UNCHANGED <<event, ap_stored, crossed, refused>>
    BY <1>0, <1>17, HttpdAt DEF ScanRestore, Goto, Unmoved, config, history
  <2>2. CASE httpd.flag
    <3>1. wifi'.ap = wifi.ap
      BY <1>0, <1>17, <2>2, SetModeDoes DEF ScanRestore
    <3> QED BY <1>0, <2>1, <2>2, <3>1
  <2>3. CASE ~httpd.flag
    BY <1>1, <1>17, <2>1, <2>3 DEF ScanRestore
  <2> QED BY <2>2, <2>3
<1>18. CASE ScanEnd
  <2>1. /\ httpd.at = "scanned" /\ httpd'.at = "answered"
        /\ UNCHANGED <<event, ap_stored, crossed, refused>>
        /\ esp_wifi_connect \/ UNCHANGED wifi
    BY <1>0, <1>18, HttpdAt DEF ScanEnd, config, history
  <2> QED BY <1>0, <1>1, <2>1, ConnectDoes
<1>19. CASE NextRequest
  <2>1. /\ httpd.at = "answered" /\ httpd'.at = "idle"
        /\ UNCHANGED <<wifi, event, ap_stored, crossed, refused>>
    BY <1>0, <1>19, HttpdAt DEF NextRequest, Unmoved, config, history
  <2> QED BY <1>0, <1>1, <2>1
<1>20. CASE ConnectSta
  <2>1. /\ httpd.at = "idle" /\ httpd'.at \in {"setconfig", "apsta"}
        /\ UNCHANGED <<event, ap_stored, crossed, refused>>
        /\ esp_wifi_stop \/ UNCHANGED wifi
    BY <1>20 DEF ConnectSta, Request
  <2> QED BY <1>0, <1>1, <2>1, StopDoes
<1>21. CASE DisconnectSta
  <2>1. /\ httpd.at = "idle" /\ httpd'.at = "leave"
        /\ UNCHANGED <<wifi, event, ap_stored, crossed, refused>>
    BY <1>0, <1>21 DEF DisconnectSta, Request, Goto, HttpdState
  <2> QED BY <1>0, <1>1, <2>1
<1>22. CASE UpdateAp
  <2>1. PICK ap \in ApConfigs : ap_stored' = ap /\ start_ap(ap)
    BY <1>22, UpdateDoes
  <2>2. /\ httpd.at = "idle" /\ httpd'.at \in {"idle", "answered"}
        /\ crossed' = (event.at = "ap") /\ event' = event
    BY <1>22, UpdateDoes DEF UpdateAp, Answered
  <2>3. /\ wifi'.mode = wifi.mode
        /\ HasAp(wifi.mode) => wifi'.ap = ap \/ refused'
    BY <1>0, <2>1, StartApDoes
  <2>4. event'.at = "ap" => crossed'
    BY <2>2
  <2>5. HasAp(wifi'.mode) => wifi'.ap = ap_stored' \/ refused'
    BY <2>1, <2>3
  <2>6. event'.at \in {"status", "ap"} => HasAp(wifi'.mode)
    BY <1>0, <2>2, <2>3
  <2>7. httpd'.at # "scan"
    BY <2>2
  <2> QED BY <2>4, <2>5, <2>6, <2>7
<1>23. CASE Scan
  <2>1. /\ httpd.at = "idle"
        /\ httpd' = [at |-> "scan", flag |-> wifi.mode = "AP"]
        /\ UNCHANGED <<event, ap_stored, crossed, refused>>
    BY <1>23 DEF Scan, Request, config
  <2>2. httpd'.at = "scan" /\ (httpd'.flag <=> wifi.mode = "AP")
    BY <2>1
  <2>3. CASE wifi.mode = "AP"
    <3>1. wifi'.mode = "AP_STA" /\ wifi'.ap = wifi.ap
      BY <1>0, <1>23, <2>3, SetModeDoes DEF Scan
    <3> QED BY <1>0, <1>00, <2>1, <2>2, <2>3, <3>1
  <2>4. CASE wifi.mode # "AP"
    <3>1. wifi'.mode = wifi.mode /\ wifi'.ap = wifi.ap
      BY <1>0, <1>23, <2>4, DisconnectDoes DEF Scan
    <3> QED BY <1>0, <2>1, <2>2, <2>4, <3>1
  <2> QED BY <2>3, <2>4
<1>24. CASE UNCHANGED vars
  BY <1>0, <1>1, <1>24 DEF vars, config, history
<1> QED BY <1>2, <1>3, <1>4, <1>5, <1>6, <1>7, <1>8, <1>9, <1>10, <1>11, <1>12,
           <1>13, <1>14, <1>15, <1>16, <1>17, <1>18, <1>19, <1>20, <1>21,
           <1>22, <1>23, <1>24
        DEF Next, EventTask, Httpd

-------------------------------------------------------------------------------
(* The next attempt to join                                                *)

LEMMA RetryStep == ASSUME IInv, [Next]_vars PROVE RetryInv'
<1> USE DEF RetryInv, Pending, FallingBack, Scanning
<1>0. /\ event \in EventState /\ httpd \in HttpdState /\ wifi \in Driver
      /\ evq \in Seq(Events) /\ ap_stored \in ApConfigs
      /\ {"AP", "STA", "AP_STA"} = Modes
      /\ RetryInv /\ TaskInv /\ LostInv /\ StoppedInv
  BY TypeParts DEF IInv, TaskType, DriverType, StatusType, Modes
<1>00. HasSta("AP_STA") /\ HasSta("STA") /\ ~HasSta("AP")
  BY DEF HasSta
<1>1. ASSUME Wanted' => Wanted, News => News', ~raced' => ~raced,
             UNCHANGED <<armed, timer>>, FallingBack => FallingBack',
             httpd.at \in {"connect", "wifistart", "scan", "scanned"}
                => httpd' = httpd
      PROVE  RetryInv'
  <2>1. Wanted' /\ ~raced' => Pending
    BY <1>0, <1>1
  <2> QED BY <1>1, <2>1
\* A step that tries to join leaves no link wanted.
<1>2. ASSUME esp_wifi_connect, UNCHANGED <<sta_ssid>> PROVE ~Wanted'
  BY <1>0, <1>2, ConnectDoes DEF Wanted
<1>3. CASE Network
  <2>1. UNCHANGED <<armed, timer, httpd, event, raced, sta_ssid>>
    BY <1>3 DEF Network, config, history
  <2>2. CASE evq' = Append(evq, "disconnected")
    <3>1. /\ Append(evq, "disconnected")[Len(evq) + 1] = "disconnected"
          /\ Len(evq) + 1 \in 1..Len(Append(evq, "disconnected"))
      BY <1>0
    <3> QED BY <2>2, <3>1 DEF News
  <2>3. CASE wifi'.link # "down"
    BY <2>3 DEF Wanted
  <2> QED BY <1>0, <1>3, <2>2, <2>3, NetworkDoes
<1>4. CASE StaStart \/ Retry \/ IgnoreDisconnect
  <2>1. CASE s_scanning
    BY <1>0, <1>4, <2>1 DEF StaStart, Retry, IgnoreDisconnect, TaskInv
  <2>2. CASE ~s_scanning
    <3>1. esp_wifi_connect /\ UNCHANGED <<sta_ssid>>
      BY <1>4, <2>2 DEF StaStart, Retry, IgnoreDisconnect, config
    <3> QED BY <1>2, <3>1
  <2> QED BY <2>1, <2>2
<1>5. CASE GiveUp
  <2>1. CASE mode = "STA"
    <3>1. event'.at = "fallback"
      BY <1>0, <1>5, <2>1, EventAt DEF GiveUp
    <3> QED BY <3>1
  <2>2. CASE mode # "STA"
    <3>1. sta_ssid' = sta_ssid /\ armed' = Armed
      BY <1>5, <2>2 DEF GiveUp, config
    <3> QED BY <3>1 DEF Wanted, Armed
  <2> QED BY <2>1, <2>2
<1>6. CASE GotIp
  <2>1. /\ Handles /\ Head(evq) = "got_ip"
        /\ UNCHANGED <<wifi, sta_ssid>>
    BY <1>6 DEF GotIp, Take, Handles, config
  <2>2. Wanted' => News'
    BY <1>0, <2>1, HandlesKeep DEF Wanted
  <2> QED BY <2>2
<1>7. CASE FallbackMode \/ FallbackStatus
  <2>1. event'.at \in {"status", "ap"}
    <3>1. CASE FallbackMode
      BY <1>0, <3>1, EventAt DEF FallbackMode
    <3>2. CASE FallbackStatus
      BY <3>2 DEF FallbackStatus
    <3> QED BY <1>7, <3>1, <3>2
  <2> QED BY <2>1
<1>8. CASE FallbackAp
  <2>1. sta_ssid' = sta_ssid /\ armed' = Armed
    BY <1>8 DEF FallbackAp, config
  <2> QED BY <2>1 DEF Wanted, Armed
<1>9. ASSUME NEW m \in {"STA", "AP_STA"}, esp_wifi_set_mode(m),
             ~raced' => ~raced, UNCHANGED <<armed, timer, sta_ssid>>,
             event.at \notin {"fallback", "status", "ap"} \/ event' = event,
             httpd.at \in {"connect", "wifistart", "scan", "scanned"}
                => httpd' = httpd
      PROVE  RetryInv'
  <2>1. /\ wifi'.mode = m /\ HasSta(m) /\ wifi'.on = wifi.on
        /\ wifi'.sta = wifi.sta /\ wifi'.link = wifi.link
        /\ \/ evq' = evq \/ evq' = Append(evq, "sta_start")
           \/ evq' = Append(evq, "disconnected")
        /\ wifi.on /\ ~HasSta(wifi.mode) => evq' = Append(evq, "sta_start")
    BY <1>0, <1>00, <1>9, SetModeDoes
  <2>2. ASSUME NEW e \in {"sta_start", "disconnected"}, evq' = Append(evq, e)
        PROVE  News'
    <3>1. /\ Append(evq, e)[Len(evq) + 1] = e
          /\ Len(evq) + 1 \in 1..Len(Append(evq, e))
      BY <1>0 DEF Events
    <3> QED BY <2>2, <3>1 DEF News
  <2>3. CASE evq' = evq
    <3>1. Wanted' => Wanted
      BY <1>9, <2>1, <2>3 DEF Wanted
    <3>2. News => News'
      BY <2>3 DEF News
    <3>3. FallingBack => FallingBack'
      BY <1>9
    <3> QED BY <1>1, <1>9, <3>1, <3>2, <3>3
  <2> QED BY <2>1, <2>2, <2>3
<1>10. CASE ApOff
  <2>1. /\ event.at = "apoff" /\ esp_wifi_set_mode("STA")
        /\ UNCHANGED <<armed, timer, sta_ssid, httpd, raced>>
    BY <1>10 DEF ApOff, config, history
  <2> QED BY <1>9, <2>1
<1>11. CASE ConnectMode
  <2>1. /\ httpd.at = "apsta" /\ esp_wifi_set_mode("AP_STA")
        /\ UNCHANGED <<armed, timer, sta_ssid, event, raced>>
    BY <1>11 DEF ConnectMode, Unmoved, config, history
  <2> QED BY <1>9, <2>1
<1>12. CASE ApOffStatus
  <2>1. /\ UNCHANGED <<wifi, evq, armed, timer, sta_ssid, httpd>>
        /\ event.at = "sta" /\ (~raced' => ~raced)
    BY <1>12 DEF ApOffStatus, config, Raced
  <2> QED BY <1>1, <2>1 DEF Wanted, News
<1>13. CASE TimerTask
  <2>1. CASE WatchdogConnect
    BY <1>2, <2>1 DEF WatchdogConnect, config
  <2>2. CASE Watchdog
    <3>1. timer' = "retry"
      BY <1>0, <2>2 DEF Watchdog, TaskInv
    <3> QED BY <3>1
  <2> QED BY <1>13, <2>1, <2>2 DEF TimerTask
<1>14. CASE ConnectAp \/ UpdateAp
  <2>1. /\ \E ap \in ApConfigs : start_ap(ap)
        /\ httpd.at \in {"apsta2", "idle"} /\ (~raced' => ~raced)
        /\ UNCHANGED <<evq, armed, timer, sta_ssid, event>>
    <3>1. CASE ConnectAp
      BY <1>0, <3>1 DEF ConnectAp, Raced, config
    <3>2. CASE UpdateAp
      BY <3>2, UpdateDoes DEF UpdateAp
    <3> QED BY <1>14, <3>1, <3>2
  <2>2. Wanted' => Wanted
    BY <1>0, <2>1, StartApDoes DEF Wanted
  <2> QED BY <1>1, <2>1, <2>2 DEF News
<1>15. CASE CallFails \/ NextRequest
  <2>1. /\ httpd.at \in {"apsta", "setconfig", "wifistart", "mode", "start",
                        "answered"}
        /\ UNCHANGED <<wifi, evq, armed, timer, sta_ssid, event, raced>>
    BY <1>15 DEF CallFails, NextRequest, Unmoved, config, history
  <2>2. CASE httpd.at = "wifistart"
    BY <1>0, <2>1, <2>2 DEF StoppedInv, Stopped, Wanted
  <2>3. CASE httpd.at # "wifistart"
    BY <1>1, <2>1, <2>3 DEF Wanted, News
  <2> QED BY <2>2, <2>3
<1>16. CASE ConnectConfig
  <2>1. httpd'.at \in {"connect", "wifistart"}
    BY <1>0, <1>16, HttpdAt DEF ConnectConfig, Goto
  <2> QED BY <2>1
<1>17. CASE ConnectGo
  <2>1. CASE esp_wifi_connect
    BY <1>2, <1>17, <2>1 DEF ConnectGo, Unmoved, config
  <2>2. CASE esp_wifi_start
    <3>1. /\ wifi'.mode = wifi.mode
          /\ evq' = IF HasSta(wifi.mode) THEN Append(evq, "sta_start") ELSE evq
      BY <1>0, <2>2, StartDoes
    <3>2. /\ Append(evq, "sta_start")[Len(evq) + 1] = "sta_start"
          /\ Len(evq) + 1 \in 1..Len(Append(evq, "sta_start"))
      BY <1>0 DEF Events
    <3> QED BY <3>1, <3>2 DEF Wanted, News
  <2> QED BY <1>17, <2>1, <2>2 DEF ConnectGo
<1>18. CASE Leave \/ Stop \/ ApMode \/ Report \/ StartAp
  <2>1. Leaving /\ sta_ssid' = sta_ssid
    BY <1>18 DEF Leave, Stop, ApMode, Report, StartAp, Leaving, Unmoved, config
  <2>2. sta_ssid' = "none"
    BY <1>0, <2>1 DEF TaskInv
  <2> QED BY <2>2 DEF Wanted
<1>19. CASE DisconnectSta
  <2>1. sta_ssid' = "none"
    BY <1>19 DEF DisconnectSta
  <2> QED BY <2>1 DEF Wanted
<1>20. CASE ConnectSta
  <2>1. CASE mode = "AP_STA"
    <3>1. /\ httpd.at = "idle" /\ wifi.on
          /\ UNCHANGED <<wifi, evq, armed, timer, event, raced>>
      BY <1>20, <2>1 DEF ConnectSta, Request
    <3>2. ~raced => sta_ssid = "usable"
      BY <2>1, <3>1 DEF IInv, ModeInv
    <3>3. ~raced /\ Wanted' => Wanted
      BY <3>1, <3>2 DEF Wanted
    <3> QED BY <1>0, <3>1, <3>3 DEF News
  <2>2. CASE mode # "AP_STA"
    <3>1. wifi'.on = FALSE
      BY <1>0, <1>20, <2>2, StopDoes DEF ConnectSta
    <3> QED BY <3>1 DEF Wanted
  <2> QED BY <2>1, <2>2
<1>21. CASE Scan \/ ScanRestore
  <2>1. httpd'.at \in {"scan", "scanned"}
    <3>1. CASE Scan
      BY <3>1 DEF Scan
    <3>2. CASE ScanRestore
      BY <1>0, <3>2, HttpdAt DEF ScanRestore, Goto
    <3> QED BY <1>21, <3>1, <3>2
  <2> QED BY <2>1
<1>22. CASE ScanEnd
  <2>1. CASE sta_ssid = "none"
    BY <1>22, <2>1 DEF ScanEnd, Wanted, config
  <2>2. CASE sta_ssid # "none"
    BY <1>2, <1>22, <2>2 DEF ScanEnd, config
  <2> QED BY <2>1, <2>2
<1>23. CASE UNCHANGED vars
  <2>1. UNCHANGED <<wifi, evq, armed, timer, sta_ssid, event, httpd, raced>>
    BY <1>23 DEF vars, config, history
  <2> QED BY <1>1, <2>1 DEF Wanted, News
<1> QED BY <1>3, <1>4, <1>5, <1>6, <1>7, <1>8, <1>10, <1>11, <1>12, <1>13,
           <1>14, <1>15, <1>16, <1>17, <1>18, <1>19, <1>20, <1>21, <1>22, <1>23
        DEF Next, EventTask, Httpd

-------------------------------------------------------------------------------
(* Results                                                                 *)

LEMMA InitIInv == Init => IInv
<1> SUFFICES ASSUME Init PROVE IInv
  OBVIOUS
<1>1. /\ event.at = "idle" /\ httpd.at = "idle" /\ httpd.flag = FALSE
      /\ timer = "idle" /\ event \in EventState /\ httpd \in HttpdState
  BY DEF Init, IdleEvent, IdleHttpd, EventState, HttpdState
<1>2. /\ ap_stored \in ApConfigs /\ s_retry_count = 0 /\ requests = 0
      /\ ~sta_connected /\ ~s_scanning /\ ~armed
      /\ ~left /\ ~raced /\ ~crossed
  BY DEF Init
<1>3. /\ sta_connected \in BOOLEAN /\ s_scanning \in BOOLEAN
      /\ armed \in BOOLEAN
      /\ left \in BOOLEAN /\ raced \in BOOLEAN /\ crossed \in BOOLEAN
      /\ refused \in BOOLEAN
  BY DEF Init
<1>4. ASSUME NEW on \in BOOLEAN, NEW sta \in BOOLEAN, NEW m \in Modes
      PROVE  /\ Booted(on, m, sta) \in Driver /\ Booted(on, m, sta).mode = m
             /\ refused \/ Booted(on, m, sta).ap = ap_stored
             /\ Booted(on, m, sta).link = "down"
  BY <1>2, <1>4 DEF Booted, NoDriver, Driver, Modes
<1>5. "AP" \in Modes /\ "AP_STA" \in Modes
  BY DEF Modes
<1>6. /\ wifi \in Driver /\ mode \in Modes
      /\ refused \/ wifi.ap = ap_stored
      /\ \/ /\ evq = <<"sta_start">> /\ sta_ssid = "usable"
            /\ wifi.mode = "AP_STA"
         \/ /\ evq = <<>> /\ sta_ssid \in {"none", "toolong"}
            /\ mode = "AP" /\ wifi.mode = "AP" /\ wifi.link = "down"
  <2>1. CASE sta_ssid = "usable"
    <3>1. PICK accepted \in BOOLEAN :
             /\ mode = IF accepted THEN "AP_STA" ELSE "AP"
             /\ wifi = Booted(TRUE, "AP_STA", accepted)
      BY <2>1 DEF Init
    <3>2. evq = <<"sta_start">>
      BY <2>1 DEF Init
    <3>3. mode \in Modes
      BY <1>5, <3>1
    <3>4. PICK on \in BOOLEAN, m \in Modes : on = TRUE /\ m = "AP_STA"
      BY <1>5
    <3>5. /\ Booted(on, m, accepted) \in Driver
          /\ Booted(on, m, accepted).mode = m
          /\ refused \/ Booted(on, m, accepted).ap = ap_stored
      BY <1>4
    <3>6. wifi = Booted(on, m, accepted)
      BY <3>1, <3>4
    <3>7. /\ wifi \in Driver /\ (refused \/ wifi.ap = ap_stored)
          /\ wifi.mode = "AP_STA"
      BY <3>4, <3>5, <3>6
    <3> QED BY <2>1, <3>2, <3>3, <3>7
  <2>2. CASE sta_ssid # "usable"
    <3>1. /\ wifi = Booted(TRUE, "AP", FALSE)
          /\ evq = <<>> /\ mode = "AP" /\ sta_ssid \in {"none", "toolong"}
      BY <2>2 DEF Init
    <3> QED BY <1>4, <1>5, <3>1
  <2> QED BY <2>1, <2>2
<1>7. TypeOK
  <2>1. evq \in Seq(Events)
    <3>1. <<"sta_start">> \in Seq(Events) /\ <<>> \in Seq(Events)
      BY DEF Events
    <3> QED BY <1>6, <3>1
  <2>2. /\ s_retry_count \in 0..MaxRetries /\ requests \in 0..MaxRequests
        /\ sta_ssid \in {"none", "usable", "toolong"}
    BY <1>2, <1>6, RetriesAssumption, BoundsAssumption
  <2>3. StatusType /\ HistoryType
    BY <1>2, <1>3, <1>6, <2>2 DEF StatusType, HistoryType
  <2> QED BY <1>1, <1>6, <2>1, <2>3, TypeParts DEF TaskType, DriverType
<1>8. LinkInv
  BY <1>6 DEF LinkInv, HasSta
<1>9. LostInv /\ RetryInv
  <2>1. CASE evq = <<"sta_start">>
    <3>1. Len(evq) = 1 /\ evq[1] = "sta_start"
      BY <2>1
    <3>2. LostInv
      BY <3>1 DEF LostInv
    <3>3. News
      BY <3>1 DEF News
    <3> QED BY <3>2, <3>3 DEF RetryInv, Pending
  <2>2. CASE evq = <<>> /\ sta_ssid # "usable"
    BY <2>2 DEF LostInv, RetryInv, Wanted
  <2> QED BY <1>6, <2>1, <2>2
<1>10. TaskInv
  BY <1>1, <1>2 DEF TaskInv, FallingBack, Joining, Leaving, Scanning
<1>11. ModeInv
  BY <1>1, <1>6 DEF ModeInv, SettingMode
<1>12. ApInv
  BY <1>1, <1>6 DEF ApInv
<1>13. LeftInv
  BY <1>1, <1>2 DEF LeftInv
<1>14. StoppedInv
  BY <1>1 DEF StoppedInv, Stopped
<1> QED BY <1>7, <1>8, <1>9, <1>10, <1>11, <1>12, <1>13, <1>14 DEF IInv

LEMMA StepIInv == IInv /\ [Next]_vars => IInv'
BY TypeStep, DriverInvStep, TaskStep, StoppedStep, ModeStep, RetryStep, ApStep,
   LeftStep
   DEF IInv

\* What the three tasks keep true together, each at the line it is at.
THEOREM WifiInvariant == Spec => []IInv
<1> QED BY InitIInv, StepIInv, PTL DEF Spec

\* The variables keep their types: the retry count its limit, the tasks the
\* steps their handlers have.
THEOREM TypeCorrect == Spec => []TypeOK
<1>1. IInv => TypeOK
  BY DEF IInv
<1> QED BY <1>1, WifiInvariant, PTL

\* The watchdog runs whenever a stored network is down and nothing else is
\* about to try it: no disconnect is lost, whatever it interrupts.
THEOREM NetworkNeverForgotten == Spec => []NeverForgotten
<1>1. IInv => NeverForgotten
  <2> SUFFICES ASSUME RetryInv, Quiet, Wanted, ~raced PROVE armed
    BY DEF IInv, NeverForgotten, Wanted
  <2>1. ~News /\ ~FallingBack /\ timer # "retry" /\ ~Scanning
        /\ httpd.at \notin {"connect", "wifistart"}
    BY DEF Quiet, News, FallingBack, Scanning
  <2> QED BY <2>1 DEF RetryInv, Pending
<1> QED BY <1>1, WifiInvariant, PTL

\* The access point on air is the stored one, whichever task put it there,
\* unless the driver refused it or a fallback put back the one before.
THEOREM ApStaysCurrent == Spec => []ApIsCurrent
<1>1. IInv => ApIsCurrent
  BY DEF IInv, ApInv, ApIsCurrent, Quiet
<1> QED BY <1>1, WifiInvariant, PTL

\* After a disconnect request the device is an access point and on no network,
\* and its status says so.
THEOREM LeavingMeansAp == Spec => []LeftMeansAp
<1>1. IInv => LeftMeansAp
  <2> SUFFICES ASSUME LeftInv, LinkInv, ~raced, Quiet, left
               PROVE  /\ wifi.mode = "AP" /\ wifi.on /\ wifi.link = "down"
                      /\ mode = "AP"
    BY DEF IInv, LeftMeansAp, DisconnectMeansAp
  <2>1. wifi.mode = "AP" /\ wifi.on /\ mode = "AP"
    BY DEF LeftInv, Quiet
  <2> QED BY <2>1 DEF LinkInv, HasSta
<1> QED BY <1>1, WifiInvariant, PTL
==============================================================================
