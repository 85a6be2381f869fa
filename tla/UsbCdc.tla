-------------------------------- MODULE UsbCdc --------------------------------
(***************************************************************************)
(* The hot-plugged serial port: main/usb_cdc_bridge.c once it has started. *)
(*                                                                         *)
(* Three tasks share it.  The USB host calls new_dev_cb and handle_event,  *)
(* which only post to a short queue and drop what does not fit.            *)
(* usb_event_task takes the events, opens and closes the device.  The      *)
(* httpd task writes to it and changes its rate.  s_cdc_mutex covers the   *)
(* handle s_cdc_dev, but neither the opening of a device nor s_baud_rate.  *)
(*                                                                         *)
(* Plugging a device in gives it the next number, which is also its handle *)
(* once it is open.  The port is a root port: one device at a time.        *)
(***************************************************************************)
EXTENDS Naturals, Sequences

CONSTANTS
    Capacity,  \* length of s_event_queue (5)
    Rates,     \* the baud rates
    MaxPlugs   \* bound: devices plugged in

ASSUME CapacityAssumption == Capacity \in Nat \ {0}
ASSUME RatesAssumption == Rates # {} /\ 0 \notin Rates
ASSUME PlugsAssumption == MaxPlugs \in Nat

None == 0
Handle == 1..MaxPlugs

VARIABLES
    plugs,        \* devices plugged in so far
    attached,     \* the one that is plugged in now
    s_event_queue,
    opened,       \* the handles of the driver that were not freed
    rate,         \* the rate each device was last set to (0: its own)
    s_cdc_dev,
    s_baud_rate,
    available,    \* serial_port_t.available, which the browsers are shown
    event,        \* usb_event_task: where it is, its message, dev and coding
    httpd,        \* httpd task: in a write or a rate change, and its handle
    lost,         \* history: open handles whose disconnect was dropped
    unserved,     \* history: devices whose connect was dropped or open failed
    untuned,      \* history: devices that refused the latest rate
    late          \* history: devices opened while the rate was being changed

queueVars == <<plugs, attached, s_event_queue, lost>>
handleVars == <<opened, s_cdc_dev, available>>
rateVars == <<rate, s_baud_rate, untuned, late>>
vars == <<queueVars, handleVars, rateVars, event, httpd, unserved>>

\* What is posted; the device of a disconnect is history, the code has none.
Event == [id : {"connected", "disconnected"}, dev : Handle]
Disconnect(h) == [id |-> "disconnected", dev |-> h]

Idle == [at |-> "idle", msg |-> None, dev |-> None, baud |-> 0]
NoRequest == [at |-> "idle", dev |-> None, baud |-> 0]

\* Only a write holds s_cdc_mutex for longer than a step.
MutexFree == httpd.at # "tx"

Init ==
    /\ plugs = 0 /\ attached = None
    /\ s_event_queue = <<>>
    /\ opened = {} /\ s_cdc_dev = None /\ available = FALSE
    /\ rate = [h \in Handle |-> 0]
    /\ s_baud_rate \in Rates
    /\ event = Idle /\ httpd = NoRequest
    /\ lost = {} /\ unserved = {} /\ untuned = {} /\ late = {}

-------------------------------------------------------------------------------
(* Callbacks of the USB host                                               *)

\* xQueueSend(.., 0): what does not fit is dropped.
HasRoom_OneMore == Len(s_event_queue) <= Capacity

HasRoom == Len(s_event_queue) < Capacity
Post(id, h) == s_event_queue' = Append(s_event_queue, [id |-> id, dev |-> h])

\* A device is plugged in and reported, unless its descriptor cannot be read.
new_dev_cb ==
    /\ attached = None /\ plugs < MaxPlugs
    /\ plugs' = plugs + 1 /\ attached' = plugs + 1
    /\ \/ HasRoom /\ Post("connected", plugs + 1) /\ UNCHANGED unserved
       \/ unserved' = unserved \cup {plugs + 1} /\ UNCHANGED s_event_queue
    /\ UNCHANGED <<lost, handleVars, rateVars, event, httpd>>

handle_event_StoredOnly ==
    /\ attached # None
    /\ attached' = None
    /\ \/ attached # s_cdc_dev /\ UNCHANGED <<s_event_queue, lost>>
       \/ /\ attached = s_cdc_dev /\ HasRoom
          /\ Post("disconnected", attached) /\ UNCHANGED lost
       \/ /\ attached = s_cdc_dev /\ ~HasRoom
          /\ lost' = lost \cup {attached} /\ UNCHANGED s_event_queue
    /\ UNCHANGED <<plugs, handleVars, rateVars, event, httpd, unserved>>

handle_event_AnyDevice ==
    /\ attached # None
    /\ attached' = None
    /\ IF HasRoom THEN Post("disconnected", attached) /\ UNCHANGED lost
       ELSE lost' = lost \cup {attached} /\ UNCHANGED s_event_queue
    /\ UNCHANGED <<plugs, handleVars, rateVars, event, httpd, unserved>>

\* It is pulled out.  The driver tells the owner of its handle, if it has one.
handle_event ==
    /\ attached # None
    /\ attached' = None
    /\ \/ attached \notin opened /\ UNCHANGED <<s_event_queue, lost>>
       \/ /\ attached \in opened /\ HasRoom
          /\ Post("disconnected", attached) /\ UNCHANGED lost
       \/ /\ attached \in opened /\ ~HasRoom
          /\ lost' = lost \cup {attached} /\ UNCHANGED s_event_queue
    /\ UNCHANGED <<plugs, handleVars, rateVars, event, httpd, unserved>>

(* usb_event_task                                                          *)

Receive(id) ==
    /\ event.at = "idle" /\ s_event_queue # <<>>
    /\ Head(s_event_queue).id = id
    /\ s_event_queue' = Tail(s_event_queue)
    /\ UNCHANGED <<plugs, attached, lost, handleVars, rateVars, httpd, unserved>>

ReceiveConnected_Always ==
    /\ Receive("connected")
    /\ event' = [Idle EXCEPT !.at = "open", !.msg = Head(s_event_queue).dev]

\* USB_EVT_CONNECTED: with a device open the new one is ignored.
ReceiveConnected ==
    /\ Receive("connected")
    /\ event' = IF s_cdc_dev # None THEN Idle
                ELSE [Idle EXCEPT !.at = "open",
                                  !.msg = Head(s_event_queue).dev]

\* open_device goes by vendor and product, so that it may find another device
\* of the same kind.  The rate is read into the coding after it.
OpenDevice ==
    /\ event.at = "open" /\ attached # None
    /\ opened' = opened \cup {attached}
    /\ event' = [event EXCEPT !.at = "coding", !.dev = attached,
                              !.baud = s_baud_rate]
    /\ UNCHANGED <<queueVars, s_cdc_dev, available, rateVars, httpd, unserved>>

\* It is gone, of another kind, or fails.
OpenFails ==
    /\ event.at = "open"
    /\ event' = Idle
    /\ unserved' = unserved \cup ({attached} \cap {event.msg})
    /\ UNCHANGED <<queueVars, handleVars, rateVars, httpd>>

\* cdc_acm_host_line_coding_set, whose failure is only logged.
SetLine(h, baud) ==
    \/ rate' = [rate EXCEPT ![h] = baud] /\ untuned' = untuned \ {h}
    \/ untuned' = untuned \cup {h} /\ UNCHANGED rate

SetCoding ==
    /\ event.at = "coding"
    /\ SetLine(event.dev, event.baud)
    /\ event' = [event EXCEPT !.at = "store"]
    /\ UNCHANGED <<queueVars, handleVars, s_baud_rate, late, httpd, unserved>>

Store ==
    /\ event.at = "store" /\ MutexFree
    /\ s_cdc_dev' = event.dev
    /\ event' = [event EXCEPT !.at = "up"]
    /\ UNCHANGED <<queueVars, opened, available, rateVars, httpd, unserved>>

AnnounceUp ==
    /\ event.at = "up"
    /\ available' = TRUE
    /\ event' = Idle
    /\ UNCHANGED <<queueVars, opened, s_cdc_dev, rateVars, httpd, unserved>>

\* USB_EVT_DISCONNECTED
ReceiveDisconnected ==
    /\ Receive("disconnected")
    /\ event' = [Idle EXCEPT !.at = "close"]

Close_NoMutex ==
    /\ event.at = "close"
    /\ opened' = opened \ {s_cdc_dev}
    /\ s_cdc_dev' = None
    /\ event' = [event EXCEPT !.at = "down"]
    /\ UNCHANGED <<queueVars, available, rateVars, httpd, unserved>>

Close_KeepsPointer ==
    /\ event.at = "close" /\ MutexFree
    /\ opened' = opened \ {s_cdc_dev}
    /\ event' = [event EXCEPT !.at = "down"]
    /\ UNCHANGED <<queueVars, s_cdc_dev, available, rateVars, httpd, unserved>>

Close ==
    /\ event.at = "close" /\ MutexFree
    /\ opened' = opened \ {s_cdc_dev}
    /\ s_cdc_dev' = None
    /\ event' = [event EXCEPT !.at = "down"]
    /\ UNCHANGED <<queueVars, available, rateVars, httpd, unserved>>

AnnounceDown_StillAvailable ==
    /\ event.at = "down"
    /\ event' = Idle
    /\ UNCHANGED <<queueVars, handleVars, rateVars, httpd, unserved>>

AnnounceDown ==
    /\ event.at = "down"
    /\ available' = FALSE
    /\ event' = Idle
    /\ UNCHANGED <<queueVars, opened, s_cdc_dev, rateVars, httpd, unserved>>

(* The httpd task                                                          *)

\* usb_cdc_send with a device: the mutex is held until the write returns,
\* after at most TX_TIMEOUT_MS.
StartSend ==
    /\ httpd.at = "idle" /\ s_cdc_dev # None
    /\ httpd' = [NoRequest EXCEPT !.at = "tx", !.dev = s_cdc_dev]
    /\ UNCHANGED <<queueVars, handleVars, rateVars, event, unserved>>

EndSend_NoTimeout ==
    /\ httpd.at = "tx" /\ httpd.dev = attached
    /\ httpd' = NoRequest
    /\ UNCHANGED <<queueVars, handleVars, rateVars, event, unserved>>

EndSend ==
    /\ httpd.at = "tx"
    /\ httpd' = NoRequest
    /\ UNCHANGED <<queueVars, handleVars, rateVars, event, unserved>>

\* usb_cdc_set_baud_rate, before it takes the mutex.
ChangeRate(r) ==
    /\ httpd.at = "idle"
    /\ s_baud_rate' = r
    /\ httpd' = [NoRequest EXCEPT !.at = "baud", !.baud = r]
    /\ UNCHANGED <<queueVars, handleVars, rate, untuned, late, event, unserved>>

ApplyRate_IfAvailable ==
    /\ httpd.at = "baud"
    /\ \/ available /\ s_cdc_dev # None
          /\ SetLine(s_cdc_dev, httpd.baud) /\ UNCHANGED late
       \/ /\ ~available \/ s_cdc_dev = None
          /\ late' = IF event.at \in {"coding", "store"}
                     THEN late \cup {event.dev} ELSE late
          /\ UNCHANGED <<rate, untuned>>
    /\ httpd' = NoRequest
    /\ UNCHANGED <<queueVars, handleVars, s_baud_rate, event, unserved>>

\* The rest of it, under the mutex.
ApplyRate ==
    /\ httpd.at = "baud"
    /\ \/ s_cdc_dev # None /\ SetLine(s_cdc_dev, httpd.baud) /\ UNCHANGED late
       \/ /\ s_cdc_dev = None
          /\ late' = IF event.at \in {"coding", "store"}
                     THEN late \cup {event.dev} ELSE late
          /\ UNCHANGED <<rate, untuned>>
    /\ httpd' = NoRequest
    /\ UNCHANGED <<queueVars, handleVars, s_baud_rate, event, unserved>>

Host == new_dev_cb \/ handle_event

usb_event_task ==
    \/ ReceiveConnected \/ OpenDevice \/ OpenFails
    \/ SetCoding \/ Store \/ AnnounceUp
    \/ ReceiveDisconnected \/ Close \/ AnnounceDown

Finish == EndSend \/ ApplyRate

Next ==
    \/ Host
    \/ usb_event_task
    \/ StartSend \/ (\E r \in Rates : ChangeRate(r))
    \/ Finish

Spec == Init /\ [][Next]_vars

\* The event task never waits but for an event and for the mutex, which the
\* lower-priority httpd task gives up within TX_TIMEOUT_MS and which then goes
\* to the event task first: strong fairness, as a send may follow on a send.
FairSpec == Spec /\ SF_vars(usb_event_task) /\ WF_vars(Finish)

-------------------------------------------------------------------------------
(* Properties                                                              *)

TaskState ==
    [at : {"idle", "open", "coding", "store", "up", "close", "down"},
     msg : Handle \cup {None}, dev : Handle \cup {None}, baud : Rates \cup {0}]
RequestState ==
    [at : {"idle", "tx", "baud"}, dev : Handle \cup {None}, baud : Rates \cup {0}]

TypeOK ==
    /\ plugs \in 0..MaxPlugs /\ attached \in 0..plugs
    /\ s_event_queue \in Seq(Event) /\ Len(s_event_queue) <= Capacity
    /\ opened \subseteq Handle /\ s_cdc_dev \in Handle \cup {None}
    /\ available \in BOOLEAN
    /\ rate \in [Handle -> Rates \cup {0}] /\ s_baud_rate \in Rates
    /\ event \in TaskState /\ httpd \in RequestState
    /\ \A S \in {lost, unserved, untuned, late} : S \subseteq Handle

\* Nothing is written to a handle that was freed: the mutex is held across a
\* write, so that a disconnect cannot close the handle under it (lines 281-298
\* and 218-225).
WriteHasHandle == httpd.at = "tx" => httpd.dev \in opened

\* No handle leaks: an open one is the port's, or the one being opened.
OpenInEventTask(h) == event.at \in {"coding", "store"} /\ event.dev = h
NoHandleLeak ==
    \A h \in opened : h = s_cdc_dev \/ OpenInEventTask(h)

\* While the handle of a device that is gone is open, its disconnect is on the
\* way or was dropped by a full queue, which nothing else makes up for.
DisconnectPending(h) ==
    \/ event.at = "close"
    \/ \E i \in DOMAIN s_event_queue : s_event_queue[i] = Disconnect(h)
GoneIsReported ==
    \A h \in opened : h = attached \/ DisconnectPending(h) \/ h \in lost

\* A disconnect carries no device and closes whatever is open: that is never a
\* device which is still plugged in (lines 218-225).
NeverClosesLive == [][\A h \in opened \ opened' : h # attached]_vars

\* Between events, the port is shown as available just when it has a device.
AvailableIsOpen == event.at = "idle" => (available <=> s_cdc_dev # None)

\* With nothing under way, an open device that did not refuse its rate runs at
\* the configured one (README.md:17 and 152: the rate takes effect immediately).
AtRest == event.at = "idle" /\ httpd.at = "idle"
OpenAtRate(h) == s_cdc_dev = h => rate[h] = s_baud_rate
RateTakesEffect ==
    AtRest => \A h \in Handle \ untuned : OpenAtRate(h)

\* What holds: so it does, unless the change fell between the reading of the
\* rate for a device being opened and the storing of its handle.
RateUnlessRaced ==
    AtRest => \A h \in Handle \ (untuned \cup late) : OpenAtRate(h)

\* The handle of a device that is gone is freed, unless its disconnect was
\* dropped: writes cannot keep the event task from the mutex for ever.
GoneIsClosed ==
    \A h \in Handle :
        (h \in opened /\ h # attached) ~> (h \notin opened \/ h \in lost)

\* A device that stays plugged in becomes the port's, unless an event was
\* dropped or it cannot be opened, whatever was plugged and pulled before it.
PluggedIsServed ==
    \A h \in Handle :
        attached = h ~> \/ attached # h \/ s_cdc_dev = h
                        \/ lost # {} \/ h \in unserved
===============================================================================
