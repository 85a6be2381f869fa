----------------------------- MODULE DeviceProofs -----------------------------
(***************************************************************************)
(* What holds of the device from reset to reset, for any boards, intervals *)
(* and numbers of faults, reads and timeouts: it can boot, it serves with  *)
(* a pair that matches, and the relay keeps its interval.                  *)
(***************************************************************************)
EXTENDS Device, TLAPS

Up == {"confirm", "up"}

\* The server runs from the last steps of app_main on, and only then is there
\* a request or a moved relay.
ServerInv ==
    /\ served # NoPair <=> main \in Up
    /\ served = NoPair => req = Idle /\ moved = 0
    /\ last_power_toggle = moved

\* The image that runs works or is on trial, and the one to go back to works.
BootInv ==
    /\ Bootable
    /\ ota[boot] # "aborted"
    /\ ota[boot] \in {"new", "pending"} =>
           ota[Other(boot)] \in {"undefined", "valid"}
    /\ main # "bootloader" =>
           /\ req.do # "restart" => boot = running
           /\ ota[running] \in {"undefined", "valid", "pending"}
           /\ boot # running => ota[boot] = "new"
           /\ ota[running] = "pending" =>
                  main # "up" /\ req.do \notin {"recv", "fetch"}
           /\ ota[running] # "pending" => image[running] = "good"
           /\ image[running] # None
    /\ main \in Up => image[running] = "good"

\* A pair that does not match is in flash only between two writes or after a
\* fault that fell there.
PairInv ==
    /\ ServedPairMatches
    /\ s_pem.cert = s_pem.key \/ torn
    /\ main = "key" => s_pem = Pair("embedded")
    /\ HalfWritten => torn \/ BetweenWrites
    /\ served # NoPair => s_pem \in {NoPair, served}
    /\ req.do = "tls" => served.cert = served.key

\* The event task starts after the wait for the library.
UsbInv == event_task => main \in {"certs", "key", "server", "confirm", "up"}

IInv == TypeOK /\ UsbInv /\ ServerInv /\ BootInv /\ PairInv

-------------------------------------------------------------------------------
(* The order of app_main                                                   *)

Steps == {BootOrder[i] : i \in DOMAIN BootOrder}

\* The steps of app_main, spelled out
LEMMA StepsAre ==
    Steps = {"config", "auth", "gpio", "ntp", "wifi", "uart", "usb", "usbwait",
             "certs", "key", "server", "confirm", "up"}
BY SMTT(30) DEF Steps, BootOrder

\* The step after each step
LEMMA AfterIs ==
    /\ After("config") = "auth" /\ After("auth") = "gpio"
    /\ After("gpio") = "ntp" /\ After("ntp") = "wifi"
    /\ After("wifi") = "uart" /\ After("uart") = "usb"
    /\ After("usb") = "usbwait" /\ After("usbwait") = "certs"
    /\ After("certs") = "key" /\ After("key") = "server"
    /\ After("server") = "confirm" /\ After("confirm") = "up"
<1>1. ASSUME NEW s, NEW i \in DOMAIN BootOrder, BootOrder[i] = s
      PROVE  After(s) = BootOrder[i + 1]
  <2>1. ASSUME NEW j \in DOMAIN BootOrder, BootOrder[j] = s PROVE j = i
    BY <1>1, <2>1, SMTT(30) DEF BootOrder
  <2> QED BY <1>1, <2>1 DEF After
<1> QED BY <1>1, SMTT(60) DEF BootOrder

\* The type of main with the steps spelled out
LEMMA MainIs ==
    ASSUME TypeOK
    PROVE  main \in {"bootloader", "config", "auth", "gpio", "ntp", "wifi",
                     "uart", "usb", "usbwait", "certs", "key", "server",
                     "confirm", "up"}
BY StepsAre, Zenon DEF TypeOK, Steps

\* A step of app_main that BootStep makes, and where it leads
LEMMA BootStepMoves ==
    ASSUME TypeOK, BootStep
    PROVE  /\ \/ main = "config" /\ main' = "auth"
              \/ main = "auth" /\ main' = "gpio"
              \/ main = "gpio" /\ main' = "ntp"
              \/ main = "ntp" /\ main' = "wifi"
              \/ main = "wifi" /\ main' = "uart"
              \/ main = "uart" /\ main' = "usb"
              \/ main = "usb" /\ main' = "usbwait"
              \/ main = "usbwait" /\ main' = "certs"
              \/ main = "certs" /\ nvs.cert # None /\ main' = "server"
              \/ main = "certs" /\ nvs.cert = None /\ main' = "key"
              \/ main = "key" /\ main' = "server"
              \/ main = "server" /\ main' = "confirm"
           /\ main' \in Steps
<1> USE DEF BootStep
<1>1. main \in {"config", "auth", "gpio", "ntp", "wifi", "uart", "usb",
                "usbwait", "certs", "key", "server"}
  BY DEF Quiet, GpioInit, UsbStart, UsbStarted, LoadCerts, SaveCert, SaveKey,
         ServerStart
<1> QED BY <1>1, AfterIs, StepsAre

-------------------------------------------------------------------------------
(* Types                                                                   *)

\* The invariant holds at first.
LEMMA InitIInv == Init => IInv
<1> SUFFICES ASSUME Init PROVE IInv
  OBVIOUS
<1>1. RelayTypeOK
  <2>1. /\ now \in 1..MaxNow /\ moved \in 0..now
        /\ last_power_toggle \in 0..now
    <3>1. 1 \in 1..MaxNow /\ 0 \in 0..1
      BY RelayAssumption
    <3> QED BY <3>1, Zenon DEF Init, RelayInit
  <2>2. /\ power_on_default \in BOOLEAN /\ power_on = FALSE
        /\ reset_low = FALSE
    BY DEF Init, RelayInit
  <2> QED BY <2>1, <2>2 DEF RelayTypeOK
<1>2. NoPair \in [cert : Pems \cup {None}, key : Pems \cup {None}]
  BY DEF NoPair
<1>3. Idle \in [do : {"idle", "recv", "fetch", "restart", "pulse", "tls"},
                left : 0..Chunks, timeouts : 0..(Timeouts - 1)]
  BY DeviceAssumption DEF Idle
<1>4. TypeOK
  <2>1. /\ image \in [Slots -> {None, "good", "bad"}]
        /\ ota \in [Slots -> {"undefined", "new", "pending", "valid",
                              "aborted"}]
        /\ running \in Slots /\ boot \in Slots /\ faults \in 0..MaxFaults
    BY DeviceAssumption DEF Init, Slots
  <2> QED BY <1>1, <1>2, <1>3, <2>1 DEF Init, TypeOK
<1>5. ServerInv /\ UsbInv
  BY DEF Init, ServerInv, UsbInv, Up, RelayInit
<1>6. BootInv
  BY DEF Init, BootInv, Bootable, Slots, Other, Up
<1>7. PairInv
  BY DEF Init, PairInv, ServedPairMatches, HalfWritten, NoPair, Idle
<1> QED BY <1>4, <1>5, <1>6, <1>7 DEF IInv

\* What a request record says it does
LEMMA DoingIs ==
    ASSUME NEW d PROVE /\ Doing(d).do = d
                       /\ \A n : [Doing(d) EXCEPT !.left = n].do = d
                       /\ Idle.do = "idle"
BY DEF Doing, Idle

\* A read leaves an upload an upload, or ends it.
LEMMA ReadDoes ==
    ASSUME TypeOK, UploadRead \/ UploadTimeout
    PROVE  req.do = "recv" /\ req'.do \in {"recv", "idle"}
<1>1. req \in [do : {"idle", "recv", "fetch", "restart", "pulse", "tls"},
               left : 0..Chunks, timeouts : 0..(Timeouts - 1)]
  BY DEF TypeOK
<1>2. CASE UploadRead
  BY <1>1, <1>2 DEF UploadRead
<1>3. CASE UploadTimeout
  BY <1>1, <1>3, DoingIs DEF UploadTimeout
<1> QED BY <1>2, <1>3

\* Each part of the type, over every action
LEMMA MainType == ASSUME TypeOK, Next PROVE main' \in {"bootloader"} \cup Steps
<1>1. main \in {"bootloader"} \cup Steps
  BY DEF TypeOK, Steps
<1>2. CASE BootStep
  BY <1>2, BootStepMoves
<1>3. CASE Confirm
  BY <1>3, AfterIs, StepsAre DEF Confirm
<1>4. CASE Bootloader
  BY <1>4, StepsAre DEF Bootloader
<1>5. CASE \/ ImageAborts \/ PowerCut \/ LibInstallsTooLate \/ LibFails
           \/ Restart
  BY <1>5 DEF ImageAborts, PowerCut, LibInstallsTooLate, LibFails, Restart,
              Reset
<1>6. CASE LibInstalls \/ Update \/ Tick
  BY <1>1, <1>6 DEF LibInstalls, Update, UploadBegin, UploadRead,
     UploadTimeout, UploadFails, UploadEnd, GithubBegin, ota_github_apply,
     OtaBegin, Aborted, Install, Tick, bootVars
<1>7. CASE handle_esp_reboot \/ TlsCert \/ TlsKey \/ handle_power \/ ResetPulse
  BY <1>1, <1>7 DEF handle_esp_reboot, TlsCert, TlsKey, handle_power,
     ResetPulse, bootVars
<1> QED BY <1>2, <1>3, <1>4, <1>5, <1>6, <1>7 DEF Next, AppMain, Httpd

LEMMA RelayType == ASSUME TypeOK, Next PROVE RelayTypeOK'
<1>0. RelayTypeOK
  BY DEF TypeOK
<1> USE <1>0, RelayAssumption DEF RelayTypeOK
<1>1. ASSUME RelayReset PROVE RelayTypeOK'
  <2>1. /\ now' \in 1..MaxNow /\ moved' \in 0..now'
        /\ last_power_toggle' \in 0..now'
    <3>1. 1 \in 1..MaxNow /\ 0 \in 0..1
      OBVIOUS
    <3> QED BY <1>1, <3>1, Zenon DEF RelayReset
  <2>2. /\ power_on_default' \in BOOLEAN /\ power_on' = FALSE
        /\ reset_low' = FALSE
    BY <1>1 DEF RelayReset
  <2> QED BY <2>1, <2>2
<1>2. ASSUME UNCHANGED relayVars PROVE RelayTypeOK'
  BY <1>2 DEF relayVars
<1>3. CASE BootStep
  <2>1. CASE GpioInit
    BY <2>1 DEF GpioInit, gpio_control_init
  <2> QED BY <1>2, <1>3, <2>1 DEF BootStep, Quiet, UsbStart, UsbStarted,
                                  LoadCerts, SaveCert, SaveKey, ServerStart
<1>4. CASE \/ ImageAborts \/ PowerCut \/ LibInstallsTooLate \/ LibFails
           \/ Restart
  BY <1>1, <1>4 DEF ImageAborts, PowerCut, LibInstallsTooLate, LibFails,
                    Restart, Reset
<1>5. CASE Bootloader \/ Confirm \/ LibInstalls \/ Update
  BY <1>2, <1>5 DEF Bootloader, Confirm, LibInstalls, Update, UploadBegin,
     UploadRead, UploadTimeout, UploadFails, UploadEnd, GithubBegin,
     ota_github_apply, OtaBegin, Aborted, Install
<1>6. CASE handle_esp_reboot \/ TlsCert \/ TlsKey
  BY <1>2, <1>6 DEF handle_esp_reboot, TlsCert, TlsKey
<1>7. CASE handle_power
  <2>1. ASSUME NEW on \in BOOLEAN, power_set(on) PROVE RelayTypeOK'
    BY <1>2, <2>1 DEF power_set
  <2> QED BY <1>7, <2>1 DEF handle_power, Power
<1>8. CASE ResetPulse
  BY <1>8 DEF ResetPulse, PulseStart, PulseEnd
<1>9. CASE Tick
  BY <1>9 DEF Tick, RelayTick
<1> QED BY <1>3, <1>4, <1>5, <1>6, <1>7, <1>8, <1>9 DEF Next, AppMain, Httpd

OtaType ==
    /\ running \in Slots /\ boot \in Slots
    /\ image \in [Slots -> {None, "good", "bad"}]
    /\ ota \in [Slots -> {"undefined", "new", "pending", "valid", "aborted"}]

LEMMA OtaTypeStep == ASSUME TypeOK, Next PROVE OtaType'
<1>0. OtaType /\ \A p \in Slots : Other(p) \in Slots
  BY DEF TypeOK, OtaType, Other, Slots
<1>1. ASSUME UNCHANGED <<running, otaVars>> PROVE OtaType'
  BY <1>0, <1>1 DEF OtaType, otaVars
<1>2. CASE BootStep
  BY <1>1, <1>2 DEF BootStep
<1>3. CASE \/ ImageAborts \/ PowerCut \/ LibInstallsTooLate \/ LibFails
           \/ Restart
  BY <1>1, <1>3 DEF ImageAborts, PowerCut, LibInstallsTooLate, LibFails,
                    Restart, Reset
<1>4. CASE Bootloader
  BY <1>0, <1>4 DEF Bootloader, OtaType
<1>5. CASE Confirm
  BY <1>0, <1>5 DEF Confirm, OtaType
<1>6. CASE LibInstalls \/ Tick \/ UploadRead \/ UploadTimeout \/ UploadFails
  BY <1>1, <1>6 DEF LibInstalls, Tick, UploadRead, UploadTimeout, UploadFails,
                    Aborted, bootVars
<1>7. CASE UploadBegin \/ GithubBegin
  BY <1>0, <1>7 DEF UploadBegin, GithubBegin, OtaBegin, bootVars, OtaType
<1>8. CASE Install
  BY <1>0, <1>8 DEF Install, bootVars, OtaType
<1>9. CASE UploadEnd \/ ota_github_apply
  BY <1>1, <1>8, <1>9 DEF UploadEnd, ota_github_apply, Aborted, bootVars
<1>10. CASE handle_esp_reboot \/ TlsCert \/ TlsKey \/ handle_power
            \/ ResetPulse
  BY <1>1, <1>10 DEF handle_esp_reboot, TlsCert, TlsKey, handle_power,
                     ResetPulse, bootVars
<1> QED BY <1>2, <1>3, <1>4, <1>5, <1>6, <1>7, <1>9, <1>10
        DEF Next, AppMain, Httpd, Update

PairType ==
    LET Certs == [cert : Pems \cup {None}, key : Pems \cup {None}]
    IN  nvs \in Certs /\ s_pem \in Certs /\ served \in Certs

LEMMA PairTypeStep == ASSUME TypeOK, Next PROVE PairType'
<1> DEFINE Certs == [cert : Pems \cup {None}, key : Pems \cup {None}]
<1>0. /\ nvs \in Certs /\ s_pem \in Certs /\ served \in Certs
      /\ NoPair \in Certs /\ Pair("embedded") \in Certs
      /\ \A p \in Certs, c \in Pems :
            [p EXCEPT !.cert = c] \in Certs /\ [p EXCEPT !.key = c] \in Certs
      /\ "embedded" \in Pems /\ "uploaded" \in Pems
  BY DEF TypeOK, NoPair, Pair, Pems
<1>1. ASSUME UNCHANGED nvs, s_pem' \in Certs, served' \in Certs
      PROVE  PairType'
  BY <1>0, <1>1 DEF PairType
<1> HIDE DEF Certs
<1>2. CASE BootStep
  <2>1. CASE Quiet \/ GpioInit \/ UsbStart \/ UsbStarted
    BY <1>0, <1>1, <2>1 DEF Quiet, GpioInit, UsbStart, UsbStarted
  <2>2. CASE LoadCerts \/ ServerStart
    BY <1>0, <1>1, <2>2 DEF LoadCerts, Loaded, ServerStart
  <2>3. CASE SaveCert \/ SaveKey
    BY <1>0, <2>3 DEF SaveCert, SaveKey, PairType, Certs
  <2> QED BY <1>2, <2>1, <2>2, <2>3 DEF BootStep
<1>3. CASE \/ ImageAborts \/ PowerCut \/ LibInstallsTooLate \/ LibFails
           \/ Restart
  BY <1>0, <1>1, <1>3 DEF ImageAborts, PowerCut, LibInstallsTooLate, LibFails,
                          Restart, Reset
<1>4. CASE Bootloader \/ Confirm \/ LibInstalls \/ Tick
  BY <1>0, <1>1, <1>4 DEF Bootloader, Confirm, LibInstalls, Tick, bootVars
<1>5. CASE Update
  BY <1>0, <1>1, <1>5 DEF Update, UploadBegin, UploadRead, UploadTimeout,
     UploadFails, UploadEnd, GithubBegin, ota_github_apply, OtaBegin, Aborted,
     Install, bootVars
<1>6. CASE handle_esp_reboot \/ handle_power \/ ResetPulse
  BY <1>0, <1>1, <1>6 DEF handle_esp_reboot, handle_power, ResetPulse, bootVars
<1>7. CASE TlsCert \/ TlsKey
  BY <1>0, <1>7 DEF TlsCert, TlsKey, bootVars, PairType, Certs
<1> QED BY <1>2, <1>3, <1>4, <1>5, <1>6, <1>7 DEF Next, AppMain, Httpd

Request == [do : {"idle", "recv", "fetch", "restart", "pulse", "tls"},
            left : 0..Chunks, timeouts : 0..(Timeouts - 1)]

LEMMA RequestTypeStep == ASSUME TypeOK, Next PROVE req' \in Request
<1>1. /\ req \in Request /\ Idle \in Request
      /\ \A d \in {"recv", "fetch", "restart", "pulse", "tls"} :
            /\ Doing(d) \in Request
            /\ \A n \in 0..Chunks : [Doing(d) EXCEPT !.left = n] \in Request
  <2>1. req \in Request
    BY DEF TypeOK, Request
  <2>2. 0 \in 0..Chunks /\ 0 \in 0..(Timeouts - 1)
    BY DeviceAssumption
  <2>3. Idle \in Request
    BY <2>2 DEF Request, Idle
  <2>4. ASSUME NEW d \in {"recv", "fetch", "restart", "pulse", "tls"}
        PROVE  /\ Doing(d) \in Request
               /\ \A n \in 0..Chunks : [Doing(d) EXCEPT !.left = n] \in Request
    <3>1. [Idle EXCEPT !.do = d] \in Request
      BY <2>3 DEF Request
    <3> QED BY <3>1 DEF Request, Doing
  <2> QED BY <2>1, <2>3, <2>4
<1>2. CASE BootStep
  BY <1>1, <1>2 DEF BootStep
<1>3. CASE \/ ImageAborts \/ PowerCut \/ LibInstallsTooLate \/ LibFails
           \/ Restart
  BY <1>1, <1>3 DEF ImageAborts, PowerCut, LibInstallsTooLate, LibFails,
                    Restart, Reset
<1>4. CASE Bootloader \/ Confirm \/ LibInstalls \/ Tick
  BY <1>1, <1>4 DEF Bootloader, Confirm, LibInstalls, Tick
<1>5. CASE UploadBegin
  <2>1. 1..Chunks \subseteq 0..Chunks
    OBVIOUS
  <2> QED BY <1>1, <1>5, <2>1 DEF UploadBegin
<1>6. CASE UploadRead \/ UploadTimeout
  <2>1. CASE UploadRead
    <3>1. req.left - 1 \in 0..Chunks /\ 0 \in 0..(Timeouts - 1)
      BY <1>1, <2>1, DeviceAssumption DEF UploadRead, Request
    <3> QED BY <1>1, <2>1, <3>1 DEF UploadRead, Request
  <2>2. CASE UploadTimeout
    <3>1. req.timeouts + 1 < Timeouts
              => req.timeouts + 1 \in 0..(Timeouts - 1)
      BY <1>1, DeviceAssumption DEF Request
    <3>2. ASSUME req.timeouts + 1 \in 0..(Timeouts - 1)
          PROVE  [req EXCEPT !.timeouts = @ + 1] \in Request
      BY <1>1, <3>2 DEF Request
    <3> QED BY <1>1, <2>2, <3>1, <3>2 DEF UploadTimeout
  <2> QED BY <1>6, <2>1, <2>2
<1>7. CASE \/ UploadFails \/ UploadEnd \/ GithubBegin \/ ota_github_apply
  BY <1>1, <1>7 DEF UploadFails, UploadEnd, GithubBegin, ota_github_apply,
                    Aborted, Install
<1>8. CASE \/ handle_esp_reboot \/ TlsCert \/ TlsKey \/ handle_power
           \/ ResetPulse
  BY <1>1, <1>8 DEF handle_esp_reboot, TlsCert, TlsKey, handle_power,
                    ResetPulse
<1> QED BY <1>2, <1>3, <1>4, <1>5, <1>6, <1>7, <1>8
        DEF Next, AppMain, Httpd, Update

RestType ==
    /\ board \in Boards /\ lib \in {None, "installing", "installed"}
    /\ event_task \in BOOLEAN /\ (event_task => lib = "installed")
    /\ faults \in 0..MaxFaults /\ torn \in BOOLEAN

LEMMA RestTypeStep == ASSUME TypeOK, UsbInv, Next PROVE RestType'
<1>0. RestType
  BY DEF TypeOK, RestType
<1>1. ASSUME UNCHANGED <<board, lib, event_task, faults, torn>>
      PROVE  RestType'
  BY <1>0, <1>1 DEF RestType
<1>2. ASSUME MayFail PROVE faults' \in 0..MaxFaults
  BY <1>0, <1>2, DeviceAssumption DEF MayFail, RestType
<1>3. HalfWritten \in BOOLEAN /\ BetweenWrites \in BOOLEAN
      /\ HalfWritten' \in BOOLEAN
  BY DEF HalfWritten, BetweenWrites
<1>4. CASE BootStep
  <2>1. torn' \in BOOLEAN /\ board' \in Boards
    BY <1>0, <1>3, <1>4 DEF BootStep, RestType
  <2>2. CASE Quiet \/ GpioInit \/ LoadCerts \/ ServerStart
    BY <1>0, <2>1, <2>2
       DEF Quiet, GpioInit, LoadCerts, ServerStart, RestType
  <2>3. CASE SaveCert \/ SaveKey
    BY <1>0, <1>2, <2>1, <2>3 DEF SaveCert, SaveKey, RestType
  <2>4. CASE UsbStart
    <3>1. event_task = FALSE
      BY <1>0, <2>4 DEF UsbStart, UsbInv, RestType
    <3> QED BY <1>2, <2>1, <2>4, <3>1 DEF UsbStart, RestType
  <2>5. CASE UsbStarted
    BY <1>0, <1>2, <2>1, <2>5 DEF UsbStarted, RestType
  <2> QED BY <1>4, <2>2, <2>3, <2>4, <2>5 DEF BootStep
<1>5. ASSUME Reset, faults' \in 0..MaxFaults PROVE RestType'
  BY <1>0, <1>3, <1>5 DEF Reset, RestType
<1>6. CASE \/ ImageAborts \/ PowerCut \/ LibInstallsTooLate \/ LibFails
           \/ Restart
  <2>1. faults' \in 0..MaxFaults
    BY <1>0, <1>6, DeviceAssumption DEF ImageAborts, PowerCut,
       LibInstallsTooLate, LibFails, Restart, RestType
  <2> QED BY <1>5, <1>6, <2>1 DEF ImageAborts, PowerCut, LibInstallsTooLate,
                                  LibFails, Restart
<1>7. CASE Bootloader \/ Confirm \/ Tick
  BY <1>1, <1>7 DEF Bootloader, Confirm, Tick, bootVars, usbVars
<1>8. CASE LibInstalls
  BY <1>0, <1>8 DEF LibInstalls, RestType
<1>9. CASE Update
  BY <1>1, <1>9 DEF Update, UploadBegin, UploadRead, UploadTimeout,
     UploadFails, UploadEnd, GithubBegin, ota_github_apply, OtaBegin, Aborted,
     Install, bootVars
<1>10. CASE handle_esp_reboot \/ handle_power \/ ResetPulse
  BY <1>1, <1>10 DEF handle_esp_reboot, handle_power, ResetPulse, bootVars
<1>11. CASE TlsCert \/ TlsKey
  BY <1>0, <1>2, <1>3, <1>11 DEF TlsCert, TlsKey, bootVars, RestType
<1> QED BY <1>4, <1>6, <1>7, <1>8, <1>9, <1>10, <1>11
        DEF Next, AppMain, Httpd

LEMMA TypeStep == ASSUME TypeOK, UsbInv, [Next]_vars PROVE TypeOK'
<1>1. CASE Next
  BY <1>1, MainType, RelayType, OtaTypeStep, PairTypeStep, RequestTypeStep,
     RestTypeStep, Zenon
     DEF TypeOK, Steps, OtaType, PairType, Request, RestType
<1>2. CASE UNCHANGED vars
  BY <1>2 DEF vars, relayVars, otaVars, usbVars, TypeOK, RelayTypeOK
<1> QED BY <1>1, <1>2

-------------------------------------------------------------------------------
(* The server and the USB port                                             *)

\* The event task is started late and dies with the reset.
LEMMA UsbStep == ASSUME TypeOK, UsbInv, [Next]_vars PROVE UsbInv'
<1> USE DEF UsbInv
<1>1. CASE BootStep
  BY <1>1, BootStepMoves DEF BootStep, Quiet, GpioInit, UsbStart, UsbStarted,
     LoadCerts, SaveCert, SaveKey, ServerStart
<1>2. CASE Bootloader \/ Confirm
  BY <1>2, AfterIs DEF Bootloader, Confirm, usbVars
<1>3. CASE \/ ImageAborts \/ PowerCut \/ LibInstallsTooLate \/ LibFails
           \/ Restart
  BY <1>3 DEF ImageAborts, PowerCut, LibInstallsTooLate, LibFails, Restart,
              Reset
<1>4. CASE LibInstalls \/ Update \/ Tick
  BY <1>4 DEF LibInstalls, Update, UploadBegin, UploadRead, UploadTimeout,
     UploadFails, UploadEnd, GithubBegin, ota_github_apply, OtaBegin, Aborted,
     Install, Tick, bootVars
<1>5. CASE \/ handle_esp_reboot \/ TlsCert \/ TlsKey \/ handle_power
           \/ ResetPulse
  BY <1>5 DEF handle_esp_reboot, TlsCert, TlsKey, handle_power, ResetPulse,
              bootVars
<1>6. CASE UNCHANGED vars
  BY <1>6 DEF vars, usbVars
<1> QED BY <1>1, <1>2, <1>3, <1>4, <1>5, <1>6 DEF Next, AppMain, Httpd

\* While a request is served, main and the server stay as they are.
LEMMA RequestRuns ==
    ASSUME ServerInv, Httpd \/ Free \/ req # Idle
    PROVE  served # NoPair /\ main \in Up
BY DEF ServerInv, Httpd, Free, Serving, Update, UploadBegin, GithubBegin,
       OtaBegin, UploadRead, UploadTimeout, UploadFails, UploadEnd,
       ota_github_apply, handle_esp_reboot, Restart, TlsCert, TlsKey,
       handle_power, ResetPulse, Idle, Up

\* Only the last steps of app_main and a reset change whether it serves.
LEMMA ServerStep == ASSUME TypeOK, ServerInv, [Next]_vars PROVE ServerInv'
<1> USE DEF ServerInv, Up
<1>1. CASE BootStep
  <2>1. (served' # NoPair <=> main' \in Up) /\ req' = req
    <3>1. CASE ServerStart
      <4>1. Pair("embedded") # NoPair
        BY DEF Pair, NoPair, None
      <4> QED BY <1>1, <3>1, <4>1, BootStepMoves DEF ServerStart, BootStep
    <3> QED BY <1>1, <3>1, BootStepMoves DEF BootStep, Quiet, GpioInit,
               UsbStart, UsbStarted, LoadCerts, SaveCert, SaveKey
  <2>2. served = NoPair /\ moved = 0 /\ last_power_toggle = 0
    BY <1>1, BootStepMoves
  <2>3. moved' = 0 /\ last_power_toggle' = 0
    BY <1>1, <2>2 DEF BootStep, Quiet, GpioInit, UsbStart, UsbStarted,
       LoadCerts, SaveCert, SaveKey, ServerStart, relayVars, gpio_control_init
  <2> QED BY <2>1, <2>2, <2>3
<1>2. CASE Bootloader \/ Confirm
  BY <1>2, AfterIs DEF Bootloader, Confirm, relayVars
<1>3. CASE \/ ImageAborts \/ PowerCut \/ LibInstallsTooLate \/ LibFails
           \/ Restart
  BY <1>3 DEF ImageAborts, PowerCut, LibInstallsTooLate, LibFails, Restart,
              Reset, RelayReset
<1>4. CASE LibInstalls \/ Tick
  BY <1>4 DEF LibInstalls, Tick, RelayTick, bootVars, relayVars
<1>5. CASE Httpd /\ ~Restart
  <2>1. UNCHANGED <<main, served>>
    BY <1>5 DEF Httpd, Update, UploadBegin, UploadRead, UploadTimeout,
       UploadFails, UploadEnd, GithubBegin, ota_github_apply, OtaBegin,
       Aborted, Install, handle_esp_reboot, TlsCert, TlsKey, handle_power,
       ResetPulse, bootVars
  <2>2. last_power_toggle' = moved'
    <3>1. CASE handle_power
      <4>1. ASSUME NEW on, power_set(on) PROVE last_power_toggle' = moved'
        BY <4>1 DEF power_set, relayVars
      <4> QED BY <3>1, <4>1 DEF handle_power, Power
    <3>2. CASE ResetPulse
      BY <3>2 DEF ResetPulse, PulseStart, PulseEnd
    <3> QED BY <1>5, <3>1, <3>2 DEF Httpd, Update, UploadBegin, UploadRead,
       UploadTimeout, UploadFails, UploadEnd, GithubBegin, ota_github_apply,
       OtaBegin, Aborted, Install, handle_esp_reboot, TlsCert, TlsKey,
       relayVars
  <2> QED BY <1>5, <2>1, <2>2, RequestRuns
<1>6. CASE UNCHANGED vars
  BY <1>6 DEF vars, relayVars
<1> QED BY <1>1, <1>2, <1>3, <1>4, <1>5, <1>6 DEF Next, AppMain, Httpd

-------------------------------------------------------------------------------
(* The image to boot                                                       *)

BootSame == UNCHANGED <<image, ota, boot>>

\* A step that leaves otadata and the images alone, in the same run
LEMMA BootQuiet ==
    ASSUME BootInv, BootSame, UNCHANGED running,
           \/ main' = "bootloader"
           \/ main \in Up /\ main' = main
           \/ main # "bootloader" /\ main' \notin Up \cup {"bootloader"},
           \/ main' = "bootloader"
           \/ req' = req
           \/ req'.do \in {req.do, "restart"}
           \/ req.do # "restart" /\ req'.do \notin {"recv", "fetch"}
    PROVE  BootInv'
BY DEF BootInv, Bootable, BootSame, Up, Other

\* One image is always good: an update erases and writes the other one, and
\* the trial of a new one ends confirmed or back at the old one.
LEMMA BootInvStep ==
    ASSUME TypeOK, ServerInv, BootInv, [Next]_vars PROVE BootInv'
<1>0. /\ running \in Slots /\ boot \in Slots
      /\ image \in [Slots -> {None, "good", "bad"}]
      /\ ota \in [Slots -> {"undefined", "new", "pending", "valid",
                            "aborted"}]
      /\ \A p \in Slots : Other(p) \in Slots /\ Other(p) # p
                          /\ Other(Other(p)) = p
      /\ \A p, q \in Slots : p # q => q = Other(p)
  BY DEF TypeOK, Other, Slots
<1>1. CASE Bootloader
  <2>1. CASE ota[boot] = "pending"
    BY <1>0, <1>1, <2>1, Zenon DEF Bootloader, BootInv, Bootable, Up, ServerInv
  <2>2. CASE ota[boot] # "pending"
    <3>1. /\ running' = boot /\ boot' = boot /\ image' = image /\ req' = req
          /\ main' = "config" /\ image[boot] # None
          /\ ota' = [ota EXCEPT ![boot] = IF @ = "new" THEN "pending" ELSE @]
      BY <1>0, <1>1, <2>2 DEF Bootloader
    <3>2. req.do = "idle" /\ main' # "bootloader" /\ main' \notin Up
      BY <1>1, <3>1, DoingIs DEF Bootloader, ServerInv, Up
    <3>3. CASE ota[boot] = "new"
      BY <1>0, <3>1, <3>2, <3>3 DEF BootInv, Bootable
    <3>4. CASE ota[boot] # "new"
      <4>1. ota' = ota /\ ota[boot] \in {"undefined", "valid"}
        BY <1>0, <2>2, <3>1, <3>4 DEF BootInv
      <4> QED BY <1>0, <3>1, <3>2, <4>1 DEF BootInv, Bootable
    <3> QED BY <3>3, <3>4
  <2> QED BY <2>1, <2>2
<1>2. CASE Confirm
  BY <1>0, <1>2, AfterIs DEF Confirm, BootInv, Bootable, Up
<1>3. CASE BootStep
  <2>1. BootSame /\ UNCHANGED <<running, req>>
    BY <1>3 DEF BootStep, BootSame, otaVars
  <2>2. CASE main = "server"
    <3>1. main' = "confirm" /\ image[running] = "good"
      <4>1. image[running] # "bad"
        BY <1>3, <2>2 DEF BootStep, Quiet, GpioInit, UsbStart, UsbStarted,
                          LoadCerts, SaveCert, SaveKey, ServerStart
      <4> QED BY <1>0, <1>3, <2>2, <4>1, BootStepMoves DEF BootInv
    <3> QED BY <2>1, <2>2, <3>1 DEF BootInv, Bootable, BootSame, Up
  <2>3. CASE main # "server"
    BY <1>3, <2>1, <2>3, BootStepMoves, BootQuiet DEF Up
  <2> QED BY <2>2, <2>3
<1>4. CASE \/ ImageAborts \/ PowerCut \/ LibInstallsTooLate \/ LibFails
           \/ Restart
  <2>1. BootSame /\ UNCHANGED running /\ main' = "bootloader"
    BY <1>4 DEF ImageAborts, PowerCut, LibInstallsTooLate, LibFails, Restart,
                Reset, BootSame, otaVars
  <2> QED BY <2>1, BootQuiet
<1>5. CASE LibInstalls \/ Tick
  BY <1>5 DEF LibInstalls, Tick, bootVars, otaVars, BootInv, Bootable, Up
<1>6. ASSUME Httpd, BootSame, UNCHANGED <<running, main>>,
             \/ req'.do \in {req.do, "restart"}
             \/ req.do # "restart" /\ req'.do \notin {"recv", "fetch"}
      PROVE  BootInv'
  BY <1>6, RequestRuns, BootQuiet
<1>7. CASE UploadBegin \/ GithubBegin
  <2>1. /\ OtaBegin /\ main \in Up /\ req.do = "idle"
        /\ req'.do \in {"recv", "fetch"} /\ main # "bootloader"
    <3>1. OtaBegin /\ Free /\ Up = {"confirm", "up"}
      BY <1>7 DEF UploadBegin, GithubBegin, OtaBegin, Up
    <3>2. req'.do \in {"recv", "fetch"}
      BY <1>7, DoingIs DEF UploadBegin, GithubBegin
    <3> QED BY <3>1, <3>2, RequestRuns, DoingIs DEF Free
  <2> QED BY <1>0, <2>1 DEF OtaBegin, bootVars, BootInv, Bootable
<1>8. CASE Install /\ req.do \in {"recv", "fetch"}
  <2>1. main \in Up /\ main # "bootloader" /\ req'.do = "restart"
    BY <1>8, RequestRuns DEF Install, Idle, Doing, Up
  <2> QED BY <1>0, <1>8, <2>1 DEF Install, bootVars, BootInv, Bootable
<1>9. CASE UploadRead \/ UploadTimeout
  <2>1. /\ BootSame /\ UNCHANGED <<running, main>>
        /\ req'.do \in {req.do, "idle"} /\ req.do = "recv"
    BY <1>9, ReadDoes DEF UploadRead, UploadTimeout, bootVars, otaVars, BootSame
  <2> QED BY <1>6, <1>9, <2>1 DEF Httpd, Update
<1>10. CASE (UploadFails \/ ota_github_apply) /\ Aborted
  <2>1. /\ BootSame /\ UNCHANGED <<running, main>>
        /\ req'.do = "idle" /\ req.do # "restart"
    BY <1>10 DEF UploadFails, ota_github_apply, Aborted, bootVars, otaVars,
                 BootSame, Idle
  <2> QED BY <1>6, <1>10, <2>1 DEF Httpd, Update
<1>11. CASE \/ handle_esp_reboot \/ TlsCert \/ TlsKey \/ handle_power
            \/ ResetPulse
  <2>1. BootSame /\ UNCHANGED <<running, main>>
    BY <1>11 DEF handle_esp_reboot, TlsCert, TlsKey, handle_power, ResetPulse,
                 bootVars, otaVars, BootSame
  <2>2. \/ req'.do \in {req.do, "restart"}
        \/ req.do # "restart" /\ req'.do \notin {"recv", "fetch"}
    BY <1>11 DEF handle_esp_reboot, TlsCert, TlsKey, handle_power, ResetPulse,
                 Free, Idle, Doing
  <2> QED BY <1>6, <1>11, <2>1, <2>2 DEF Httpd
<1>12. CASE UNCHANGED vars
  BY <1>12 DEF vars, otaVars, BootInv, Bootable
<1> QED BY <1>1, <1>2, <1>3, <1>4, <1>5, <1>7, <1>8, <1>9, <1>10, <1>11, <1>12
        DEF Next, AppMain, Httpd, Update, UploadEnd, ota_github_apply,
            UploadFails

-------------------------------------------------------------------------------
(* The pair the server runs with                                           *)

\* The parts of a pair meet again, or the fault between them is remembered.
LEMMA PairInvStep ==
    ASSUME TypeOK, ServerInv, PairInv, [Next]_vars PROVE PairInv'
<1> USE DEF PairInv, ServedPairMatches, HalfWritten, BetweenWrites
<1>0. NoPair.cert = NoPair.key /\ Pair("embedded").cert = Pair("embedded").key
      /\ torn \in BOOLEAN /\ None = "none" /\ NoPair = Pair(None)
  BY DEF NoPair, Pair, TypeOK, None
<1>1. CASE BootStep
  <2>1. /\ served = NoPair /\ req = Idle /\ req' = req
        /\ torn' = (torn \/ (BetweenWrites /\ HalfWritten'))
        /\ req.do = "idle" /\ Idle.do = "idle"
    BY <1>1, BootStepMoves DEF ServerInv, Up, BootStep, Idle
  <2>2. CASE Quiet \/ GpioInit \/ UsbStart \/ UsbStarted
    <3>1. UNCHANGED <<nvs, s_pem, served>> /\ main' # "key" /\ main # "key"
      BY <1>1, <2>2, BootStepMoves DEF Quiet, GpioInit, UsbStart, UsbStarted
    <3> QED BY <2>1, <3>1
  <2>3. CASE LoadCerts
    <3>1. main' # "key" /\ main # "key" /\ UNCHANGED <<nvs, served>>
          /\ s_pem' = Loaded
      BY <1>1, <2>3, BootStepMoves DEF LoadCerts
    <3>2. Loaded.cert = Loaded.key \/ torn
      BY <1>0, <2>1, <2>3, <3>1 DEF LoadCerts, Loaded
    <3> QED BY <1>0, <2>1, <3>1, <3>2
  <2>4. CASE SaveCert
    BY <1>0, <1>1, <2>1, <2>4, BootStepMoves DEF SaveCert
  <2>5. CASE SaveKey
    BY <1>0, <1>1, <2>1, <2>5, BootStepMoves DEF SaveKey
  <2>6. CASE ServerStart
    BY <1>0, <1>1, <2>1, <2>6, BootStepMoves DEF ServerStart
  <2> QED BY <1>1, <2>2, <2>3, <2>4, <2>5, <2>6 DEF BootStep
<1>2. CASE \/ ImageAborts \/ PowerCut \/ LibInstallsTooLate \/ LibFails
           \/ Restart
  <2>1. Reset
    BY <1>2 DEF ImageAborts, PowerCut, LibInstallsTooLate, LibFails, Restart
  <2> QED BY <1>0, <2>1 DEF Reset, Idle
<1>3. CASE Bootloader \/ Confirm
  BY <1>3, AfterIs DEF Bootloader, Confirm
<1>4. CASE LibInstalls \/ Tick
  BY <1>4 DEF LibInstalls, Tick, bootVars
<1>5. ASSUME UNCHANGED <<main, nvs, s_pem, served, torn>>,
             req.do # "tls", req'.do # "tls"
      PROVE  PairInv'
  BY <1>5
<1>6. CASE Update
  <2>1. UNCHANGED <<main, nvs, s_pem, served, torn>>
    BY <1>6 DEF Update, UploadBegin, UploadRead, UploadTimeout, UploadFails,
       UploadEnd, GithubBegin, ota_github_apply, OtaBegin, Aborted, Install,
       bootVars
  <2>2. req.do # "tls" /\ req'.do # "tls"
    <3>1. CASE UploadRead \/ UploadTimeout
      BY <3>1, ReadDoes
    <3>2. CASE UploadBegin \/ GithubBegin
      <4>1. req = Idle
        BY <3>2 DEF UploadBegin, GithubBegin, OtaBegin, Free
      <4>2. req'.do \in {"recv", "fetch"}
        BY <3>2, DoingIs DEF UploadBegin, GithubBegin
      <4> QED BY <4>1, <4>2, DoingIs
    <3>3. CASE UploadFails \/ UploadEnd \/ ota_github_apply
      <4>1. req.do \in {"recv", "fetch"} /\ (Install \/ Aborted)
        BY <3>3 DEF UploadFails, UploadEnd, ota_github_apply
      <4>2. req'.do \in {"restart", "idle"}
        BY <4>1, DoingIs DEF Install, Aborted
      <4> QED BY <4>1, <4>2
    <3> QED BY <1>6, <3>1, <3>2, <3>3 DEF Update
  <2> QED BY <1>5, <2>1, <2>2
<1>7. CASE handle_esp_reboot \/ ResetPulse
  BY <1>5, <1>7 DEF handle_esp_reboot, ResetPulse, Free, Idle, Doing, bootVars
<1>8. CASE handle_power
  BY <1>8 DEF handle_power, bootVars
<1>9. CASE TlsCert
  <2>1. /\ UNCHANGED <<main, s_pem, served, torn>> /\ req'.do = "tls"
        /\ served.cert = served.key
    BY <1>9 DEF TlsCert, Free, Serving, Doing, Idle, bootVars
  <2> QED BY <2>1
<1>10. CASE TlsKey
  <2>1. /\ UNCHANGED <<main, s_pem, served>> /\ torn' = HalfWritten'
        /\ req'.do = "idle" /\ served # NoPair
    BY <1>10, RequestRuns DEF TlsKey, Idle, bootVars, Httpd
  <2>2. /\ served.cert = served.key /\ s_pem.cert = s_pem.key
        /\ main # "key"
    BY <1>0, <1>10, <2>1 DEF TlsKey, ServerInv, Up
  <2> QED BY <2>1, <2>2
<1>11. CASE UNCHANGED vars
  BY <1>11 DEF vars
<1> QED BY <1>1, <1>2, <1>3, <1>4, <1>6, <1>7, <1>8, <1>9, <1>10, <1>11
        DEF Next, AppMain, Httpd

-------------------------------------------------------------------------------
(* Theorems                                                                *)

\* Every step keeps the invariant.
LEMMA IInvStep == IInv /\ [Next]_vars => IInv'
BY TypeStep, UsbStep, ServerStep, BootInvStep, PairInvStep DEF IInv

LEMMA Inductive == Spec => []IInv
BY InitIInv, IInvStep, PTL DEF Spec

\* Every variable of the device keeps its type (gpio_control.c, main.c and
\* the update and certificate handlers of web_server.c).
THEOREM TypeCorrect == Spec => []TypeOK
<1>1. IInv => TypeOK
  BY DEF IInv
<1> QED BY <1>1, Inductive, PTL

\* The next boots come to an image that works, whenever the power fails:
\* esp_ota_mark_app_valid_cancel_rollback of main.c comes after the server.
THEOREM AlwaysBootable == Spec => []Bootable
<1>1. IInv => Bootable
  BY DEF IInv, BootInv
<1> QED BY <1>1, Inductive, PTL

\* The pair of load_or_save_certs and handle_tls_upload matches unless torn.
THEOREM PairsMatch == Spec => []ServedPairMatches
<1>1. IInv => ServedPairMatches
  BY DEF IInv, PairInv
<1> QED BY <1>1, Inductive, PTL

\* Requests move the relay of gpio_control.c no faster than its interval.
LEMMA RelayStep ==
    ASSUME IInv, [Next]_vars, moved > 0, moved' > moved
    PROVE  moved' - moved >= MinToggle
<1>0. /\ moved \in Nat /\ now \in Nat /\ last_power_toggle = moved
      /\ moved <= now
  BY RelayAssumption DEF IInv, TypeOK, RelayTypeOK, ServerInv
<1>1. ASSUME NEW on, power_set(on) PROVE moved' - moved >= MinToggle
  <2>1. ~TooFast /\ moved' = now
    BY <1>0, <1>1 DEF power_set, relayVars
  <2> QED BY <1>0, <2>1, RelayAssumption DEF TooFast
<1>2. CASE handle_power
  BY <1>1, <1>2 DEF handle_power, Power
<1>3. ASSUME moved' = moved \/ moved' = 0 PROVE FALSE
  BY <1>0, <1>3
<1>4. CASE BootStep
  BY <1>3, <1>4 DEF BootStep, Quiet, GpioInit, UsbStart, UsbStarted,
     LoadCerts, SaveCert, SaveKey, ServerStart, relayVars, gpio_control_init
<1>5. CASE \/ ImageAborts \/ PowerCut \/ LibInstallsTooLate \/ LibFails
           \/ Restart
  BY <1>3, <1>5 DEF ImageAborts, PowerCut, LibInstallsTooLate, LibFails,
     Restart, Reset, RelayReset
<1>6. CASE Bootloader \/ Confirm \/ LibInstalls \/ Tick \/ Update
  BY <1>3, <1>6 DEF Bootloader, Confirm, LibInstalls, Tick, RelayTick, Update,
     UploadBegin, UploadRead, UploadTimeout, UploadFails, UploadEnd,
     GithubBegin, ota_github_apply, OtaBegin, Aborted, Install, relayVars
<1>7. CASE handle_esp_reboot \/ TlsCert \/ TlsKey \/ ResetPulse
  BY <1>3, <1>7 DEF handle_esp_reboot, TlsCert, TlsKey, ResetPulse,
     PulseStart, PulseEnd, relayVars
<1>8. CASE UNCHANGED vars
  BY <1>3, <1>8 DEF vars, relayVars
<1> QED BY <1>2, <1>4, <1>5, <1>6, <1>7, <1>8 DEF Next, AppMain, Httpd

\* Both paths of POST /api/power go through power_set and its interval.
THEOREM RelayKeepsInterval == Spec => RelayInterval
<1>1. IInv /\ [Next]_vars =>
          [moved > 0 /\ moved' > moved => moved' - moved >= MinToggle]_vars
  BY RelayStep
<1> QED BY <1>1, Inductive, PTL DEF Spec, RelayInterval
=============================================================================
