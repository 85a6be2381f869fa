-------------------------------- MODULE Device --------------------------------
(***************************************************************************)
(* The device from reset to reset: the bootloader's choice of an image,    *)
(* app_main step by step, the USB library task beside it, and the requests *)
(* that replace the image or the TLS pair, restart the device or move its  *)
(* pins.  Requests are those that passed the session and setup gates; the  *)
(* server's one task serves them in turn, also before app_main is done.    *)
(***************************************************************************)
EXTENDS Relay, Sequences

CONSTANTS
    Boards,     \* how usb_host_install behaves: some of BoardKinds
    Chunks,     \* bound: reads that an uploaded image takes
    Timeouts,   \* 5: consecutive read timeouts that end an upload
    MaxFaults   \* bound: power cuts, failed writes, tasks not created

BoardKinds == {"works", "slow", "fails"}

ASSUME BoardsAssumption == Boards \subseteq BoardKinds
ASSUME DeviceAssumption == /\ Chunks \in Nat \ {0} /\ Timeouts \in Nat \ {0}
                           /\ MaxFaults \in Nat

VARIABLES
    main,       \* where app_main is; "bootloader" before it
    running,    \* esp_ota_get_running_partition
    image,      \* what each partition holds
    ota,        \* otadata: the state of each partition's image
    boot,       \* otadata: the partition to boot
    nvs,        \* namespace "tls_certs": blobs "cert" and "key"
    s_pem,      \* s_cert_pem and s_key_pem
    served,     \* the pair s_server runs with; NoPair: no server
    req,        \* what the httpd task is doing
    board, lib, \* the USB host, and how far usb_lib_task is
    event_task, \* usb_event_task exists
    faults,
    torn        \* history: a fault fell between the writes of cert and key

otaVars == <<image, ota, boot>>
usbVars == <<lib, event_task>>
vars == <<main, running, otaVars, nvs, s_pem, served, req, board, usbVars,
          faults, torn, relayVars>>

Slots == {0, 1}
Other(p) == 1 - p

None == "none"
NoPair == [cert |-> None, key |-> None]
Pair(c) == [cert |-> c, key |-> c]
Pems == {"embedded", "uploaded"}

Idle == [do |-> "idle", left |-> 0, timeouts |-> 0]
Doing(d) == [Idle EXCEPT !.do = d]

\* Steps of app_main; "key" is the second write of load_or_save_certs and
\* "usbwait" the wait in usb_cdc_start.
BootOrder_ConfirmFirst ==
    <<"config", "auth", "gpio", "ntp", "wifi", "uart", "usb", "usbwait",
      "certs", "key", "confirm", "server", "up">>

BootOrder ==
    <<"config", "auth", "gpio", "ntp", "wifi", "uart", "usb", "usbwait",
      "certs", "key", "server", "confirm", "up">>

After(step) == LET i == CHOOSE j \in DOMAIN BootOrder : BootOrder[j] = step
               IN  BootOrder[i + 1]

\* Steps whose failure ends in ESP_ERROR_CHECK, and so in a reset
Fatal == {"config", "auth", "gpio", "wifi", "uart", "server"}

TypeOK ==
    /\ RelayTypeOK
    /\ main \in {"bootloader"} \cup {BootOrder[i] : i \in DOMAIN BootOrder}
    /\ running \in Slots /\ boot \in Slots
    /\ image \in [Slots -> {None, "good", "bad"}]
    /\ ota \in [Slots -> {"undefined", "new", "pending", "valid", "aborted"}]
    /\ nvs \in [cert : Pems \cup {None}, key : Pems \cup {None}]
    /\ s_pem \in [cert : Pems \cup {None}, key : Pems \cup {None}]
    /\ served \in [cert : Pems \cup {None}, key : Pems \cup {None}]
    /\ req \in [do : {"idle", "recv", "fetch", "restart", "pulse", "tls"},
                left : 0..Chunks, timeouts : 0..(Timeouts - 1)]
    /\ board \in Boards /\ lib \in {None, "installing", "installed"}
    /\ event_task \in BOOLEAN /\ (event_task => lib = "installed")
    /\ faults \in 0..MaxFaults /\ torn \in BOOLEAN

\* The factory flashes ota_0 and an empty otadata.
Init ==
    /\ RelayInit
    /\ main = "bootloader" /\ running = 0 /\ boot = 0
    /\ image = [p \in Slots |-> IF p = 0 THEN "good" ELSE None]
    /\ ota = [p \in Slots |-> "undefined"]
    /\ nvs = NoPair /\ s_pem = NoPair /\ served = NoPair /\ req = Idle
    /\ board \in Boards /\ lib = None /\ event_task = FALSE
    /\ faults = 0 /\ torn = FALSE

-------------------------------------------------------------------------------
(* Reset and bootloader                                                    *)

\* What a fault between the two writes of a pair leaves over an older pair
HalfWritten == None \notin {nvs.cert, nvs.key} /\ nvs.cert # nvs.key
BetweenWrites == req.do = "tls" \/ main = "key"

Reset ==
    /\ RelayReset
    /\ main' = "bootloader" /\ req' = Idle
    /\ s_pem' = NoPair /\ served' = NoPair
    /\ lib' = None /\ event_task' = FALSE
    /\ torn' = (torn \/ (BetweenWrites /\ HalfWritten))
    /\ UNCHANGED <<running, otaVars, nvs, board>>

PowerCut == /\ faults < MaxFaults /\ faults' = faults + 1
            /\ Reset

\* A new image is tried once: found still pending, it is given up.
Bootloader ==
    /\ main = "bootloader"
    /\ LET p == IF ota[boot] = "pending" THEN Other(boot) ELSE boot
       IN  /\ image[p] # None
           /\ running' = p /\ boot' = p
    /\ ota' = [ota EXCEPT ![boot] = CASE @ = "new" -> "pending"
                                      [] @ = "pending" -> "aborted"
                                      [] OTHER -> @]
    /\ main' = "config"
    /\ UNCHANGED <<image, nvs, s_pem, served, req, board, usbVars, faults,
                   torn, relayVars>>

\* An image that boots badly: some step of app_main fails, or it panics.
ImageAborts ==
    /\ image[running] = "bad" /\ main \in Fatal
    /\ Reset
    /\ UNCHANGED faults

-------------------------------------------------------------------------------
(* app_main                                                                *)

MayFail == faults' = faults \/ (faults < MaxFaults /\ faults' = faults + 1)
Fails == faults' # faults

Quiet ==
    /\ main \in {"config", "auth", "ntp", "wifi", "uart"}
    /\ UNCHANGED <<nvs, s_pem, served, lib, event_task, relayVars, faults>>

GpioInit ==
    /\ main = "gpio" /\ gpio_control_init
    /\ UNCHANGED <<nvs, s_pem, served, lib, event_task, faults>>

\* usb_cdc_init and the start of usb_lib_task; a failure of either leaves the
\* device without the port.
UsbStart ==
    /\ main = "usb" /\ MayFail
    /\ lib' = IF Fails THEN None ELSE "installing"
    /\ UNCHANGED <<nvs, s_pem, served, event_task, relayVars>>

\* The notify is there, or five seconds have passed; an install that works or
\* fails at all does so within them.
UsbStarted_NoWait ==
    /\ main = "usbwait" /\ MayFail
    /\ event_task' = (lib # None /\ ~Fails)
    /\ UNCHANGED <<nvs, s_pem, served, lib, relayVars>>

UsbStarted ==
    /\ main = "usbwait" /\ MayFail
    /\ lib = "installing" => board = "slow"
    /\ event_task' = (lib = "installed" /\ ~Fails)
    /\ UNCHANGED <<nvs, s_pem, served, lib, relayVars>>

\* load_or_save_certs: what NVS holds is used if both parts can be read; what
\* the image embeds is used otherwise, and is saved if there is no cert.
Loaded_PartByPart ==
    [cert |-> IF nvs.cert = None THEN "embedded" ELSE nvs.cert,
     key |-> IF nvs.key = None THEN "embedded" ELSE nvs.key]

Loaded == IF nvs.key = None THEN NoPair ELSE nvs

LoadCerts ==
    /\ main = "certs" /\ nvs.cert # None
    /\ s_pem' = Loaded
    /\ UNCHANGED <<nvs, served, lib, event_task, relayVars, faults>>

SaveCert ==
    /\ main = "certs" /\ nvs.cert = None /\ MayFail
    /\ nvs' = IF Fails THEN nvs ELSE [nvs EXCEPT !.cert = "embedded"]
    /\ s_pem' = Pair("embedded")
    /\ UNCHANGED <<served, lib, event_task, relayVars>>

\* Only the boot that saved the cert has the embedded pair in s_pem here.
SaveKey ==
    /\ main = "key" /\ MayFail
    /\ nvs' = IF Fails THEN nvs ELSE [nvs EXCEPT !.key = "embedded"]
    /\ UNCHANGED <<s_pem, served, lib, event_task, relayVars>>

ServerStart ==
    /\ main = "server" /\ image[running] # "bad"
    /\ served' = IF s_pem = NoPair THEN Pair("embedded") ELSE s_pem
    /\ UNCHANGED <<nvs, s_pem, lib, event_task, relayVars, faults>>

BootStep ==
    /\ \/ Quiet \/ GpioInit \/ UsbStart \/ UsbStarted \/ LoadCerts
       \/ SaveCert \/ SaveKey \/ ServerStart
    /\ main' = IF main = "certs" /\ nvs.cert # None THEN "server"
               ELSE After(main)
    /\ torn' = (torn \/ (BetweenWrites /\ HalfWritten'))
    /\ UNCHANGED <<running, otaVars, req, board>>

\* esp_ota_mark_app_valid_cancel_rollback
Confirm ==
    /\ main = "confirm"
    /\ ota' = [ota EXCEPT ![running] = IF @ = "pending" THEN "valid" ELSE @]
    /\ main' = After(main)
    /\ UNCHANGED <<running, image, boot, nvs, s_pem, served, req, board,
                   usbVars, faults, torn, relayVars>>

(* usb_lib_task                                                            *)

\* On time or late; a notify before app_main returns is at worst not taken.
LibInstalls ==
    /\ lib = "installing" /\ board # "fails" /\ lib' = "installed"
    /\ UNCHANGED <<main, running, otaVars, nvs, s_pem, served, req, board,
                   event_task, faults, torn, relayVars>>

\* A notify to the main task, which ended with app_main, is undefined: it may
\* pass or panic.
LibInstallsTooLate ==
    /\ lib = "installing" /\ board = "slow" /\ main = "up"
    /\ Reset
    /\ UNCHANGED faults

\* An error returns from the task function, which FreeRTOS answers by abort().
LibFails ==
    /\ lib = "installing" /\ board = "fails"
    /\ Reset
    /\ UNCHANGED faults

-------------------------------------------------------------------------------
(* Requests                                                                *)

bootVars == <<main, running, s_pem, served, board, lib, event_task>>

\* The server runs and clients accept the pair it has.
Serving == served # NoPair /\ served.cert = served.key

Free == Serving /\ req = Idle

\* esp_ota_begin refuses while the running image is unconfirmed, and erases the
\* partition that is not running.
OtaBegin ==
    /\ Free /\ ota[running] # "pending"
    /\ image' = [image EXCEPT ![Other(running)] = None]
    /\ UNCHANGED <<bootVars, ota, boot, nvs, faults, torn, relayVars>>

UploadBegin ==
    OtaBegin /\ \E n \in 1..Chunks : req' = [Doing("recv") EXCEPT !.left = n]

\* The release is newer and has an asset for this chip; otherwise nothing is
\* done.
GithubBegin == OtaBegin /\ req' = Doing("fetch")

UploadRead ==
    /\ req.do = "recv" /\ req.left > 0
    /\ req' = [req EXCEPT !.left = @ - 1, !.timeouts = 0]
    /\ UNCHANGED <<bootVars, otaVars, nvs, faults, torn, relayVars>>

UploadTimeout_NoCap ==
    /\ req.do = "recv" /\ req.left > 0
    /\ req' = [req EXCEPT !.timeouts = (@ + 1) % Timeouts]
    /\ UNCHANGED <<bootVars, otaVars, nvs, faults, torn, relayVars>>

UploadTimeout ==
    /\ req.do = "recv" /\ req.left > 0
    /\ req' = IF req.timeouts + 1 < Timeouts
              THEN [req EXCEPT !.timeouts = @ + 1] ELSE Idle
    /\ UNCHANGED <<bootVars, otaVars, nvs, faults, torn, relayVars>>

\* A broken connection, a failed write, an image that is refused: the other
\* partition stays erased.
Aborted ==
    /\ req' = Idle
    /\ UNCHANGED <<bootVars, otaVars, nvs, faults, torn, relayVars>>

UploadFails == req.do = "recv" /\ Aborted

\* esp_ota_end, esp_ota_set_boot_partition and the answer
Install ==
    /\ \E i \in {"good", "bad"} :
          image' = [image EXCEPT ![Other(running)] = i]
    /\ ota' = [ota EXCEPT ![Other(running)] = "new"]
    /\ boot' = Other(running)
    /\ req' = Doing("restart")
    /\ UNCHANGED <<bootVars, nvs, faults, torn, relayVars>>

UploadEnd == req.do = "recv" /\ req.left = 0 /\ Install

ota_github_apply == req.do = "fetch" /\ (Install \/ Aborted)

handle_esp_reboot ==
    /\ Free /\ req' = Doing("restart")
    /\ UNCHANGED <<bootVars, otaVars, nvs, faults, torn, relayVars>>

\* esp_restart, after the delay that lets the answer out
Restart == req.do = "restart" /\ Reset /\ UNCHANGED faults

\* handle_tls_upload with a matching pair; nobody looks at what the two
\* writes return.
TlsCert ==
    /\ Free /\ req' = Doing("tls") /\ MayFail
    /\ nvs' = IF Fails THEN nvs ELSE [nvs EXCEPT !.cert = "uploaded"]
    /\ UNCHANGED <<bootVars, otaVars, torn, relayVars>>

TlsKey ==
    /\ req.do = "tls" /\ req' = Idle /\ MayFail
    /\ nvs' = IF Fails THEN nvs ELSE [nvs EXCEPT !.key = "uploaded"]
    /\ torn' = HalfWritten'
    /\ UNCHANGED <<bootVars, otaVars, relayVars>>

handle_power ==
    /\ Free /\ Power
    /\ UNCHANGED <<bootVars, otaVars, nvs, req, faults, torn>>

ResetPulse ==
    /\ \/ Free /\ req' = Doing("pulse") /\ PulseStart
       \/ req.do = "pulse" /\ req' = Idle /\ PulseEnd
    /\ UNCHANGED <<bootVars, otaVars, nvs, faults, torn>>

Tick ==
    /\ main # "bootloader" /\ RelayTick
    /\ UNCHANGED <<bootVars, otaVars, nvs, req, faults, torn>>

AppMain == Bootloader \/ BootStep \/ Confirm

Update == \/ UploadBegin \/ UploadRead \/ UploadTimeout \/ UploadFails
          \/ UploadEnd \/ GithubBegin \/ ota_github_apply

Httpd ==
    \/ Update \/ handle_esp_reboot \/ Restart \/ TlsCert \/ TlsKey
    \/ handle_power \/ ResetPulse

Next == \/ AppMain \/ ImageAborts \/ PowerCut
        \/ LibInstalls \/ LibInstallsTooLate \/ LibFails
        \/ Httpd \/ Tick

Spec == Init /\ [][Next]_vars

\* app_main and a library that is not slow run; a request that was begun goes
\* on: a read returns with data, an error or a timeout, and delays end.
GoesOn == req.do # "idle" /\ Httpd

FairSpec == /\ Spec
            /\ WF_vars(AppMain) /\ WF_vars(ImageAborts)
            /\ WF_vars(board = "works" /\ LibInstalls) /\ WF_vars(LibFails)
            /\ WF_vars(GoesOn)

-------------------------------------------------------------------------------
(* Properties                                                              *)

\* Whenever the power fails, the next boots come to an image that works:
\* otadata points at a confirmed image that boots, or at one on trial with a
\* working image to go back to (main.c confirms after the server is up).
Bootable ==
    IF ota[boot] \in {"new", "pending"} THEN image[Other(boot)] = "good"
    ELSE image[boot] = "good"

\* The server runs with a cert and a key that belong together, unless a fault
\* fell between the two writes that replaced an older pair.
ServedPairMatches == served.cert = served.key \/ torn

\* Two moves of the relay that requests ask for are MinToggle apart, whichever
\* of the two paths of POST /api/power they take; a restart starts over.
RelayInterval ==
    [][moved > 0 /\ moved' > moved => moved' - moved >= MinToggle]_vars

\* Whatever interrupts it, a device whose USB host does not abort and whose
\* TLS pair is not torn comes to serve again: no update, stalled upload or
\* optional port holds it for ever.
ServesAgain == [](board # "fails" /\ ~torn) => []<>Free

\* serial_port.c:57-62: an S3 that cannot install its USB host stack must
\* still boot with the UART.
UsbIsOptional == []<>(main = "up")
=============================================================================
